------------------------------- MODULE PxdSwitch -------------------------------
(***************************************************************************)
(* IO path switching of one fast path device (pxd.c, pxd_fastpath.c and    *)
(* the suspend and failover parts of both pxd_bio_*.c): the suspend count  *)
(* and the gate it closes, failover and fallback requests to the daemon,   *)
(* the queue of failed IOs, path updates, cleanup and reset.               *)
(*                                                                         *)
(* The functions call each other, and any two threads may interleave       *)
(* between their atomic operations.  todo[t] is what thread t has still to *)
(* do, one name per atomic step; a call puts the steps of the callee in    *)
(* front.  Threads are the controllers (daemon threads, the abort work,    *)
(* sysfs writers) and, per IO, the work that fails it over.                *)
(*                                                                         *)
(* Flushing the files is in PxdSync: here a suspend may be refused (-EBUSY)*)
(* or its flush may fail.  Cloning is in FastIO: here a fast IO is mapped, *)
(* then ends well or with -EIO.  An IO that is given to the daemon is      *)
(* FuseConn's: here it is idle again.                                      *)
(***************************************************************************)
EXTENDS Integers, Sequences, FiniteSets

CONSTANTS
  IOs,         \* block IOs, reused once they have ended
  Ctl,         \* controller threads
  Builds,      \* of {"blkmq", "makereq"}: the compiled variants to consider
  MaxSent,     \* bound: switch requests of one kind outstanding
  MaxOwed      \* bound: suspensions left behind

ASSUME SwitchAssumption == /\ Builds \subseteq {"blkmq", "makereq"}
                           /\ IOs \intersect Ctl = {}
                           /\ MaxSent \in Nat /\ MaxOwed \in Nat

Threads == IOs \union Ctl
Codes == {"failover", "fallback"}

VARIABLES
  build,
  suspend,          \* fp->suspend
  closed,           \* the queue is quiesced, or suspend_lock is held by a writer
  frozen,           \* fp->blkmq_frozen
  fast,             \* fp->fastpath
  nfd,              \* fp->nfd > 0
  can_failover,
  active_failover,
  failQ,            \* IOs on fp->failQ
  app_suspend,      \* fp->app_suspend
  ioswitch_active,  \* fp->ioswitch_active
  sent,             \* switch requests the daemon has not answered
  st,               \* per IO: where it is
  todo,             \* per thread: the steps it has still to do
  ios,              \* per controller: the local list taken from failQ
  bug,              \* the BUG_ON that was hit: the kernel has stopped
  owed,             \* history: suspensions left for a cleanup or reset to release
  lent,             \* history: suspensions released by someone who did not hold them
  racy,             \* history: two threads met in steps the code does not guard
  mixed,            \* history: they met at the files, or at a gate that was changing hands
  dropped           \* history: those on failQ were left without anyone to serve them

gate_vars == <<suspend, closed, frozen>>
path_vars == <<fast, nfd, can_failover>>
fail_vars == <<active_failover, failQ, st, ios>>
switch_vars == <<app_suspend, ioswitch_active, sent>>
history == <<owed, lent, racy, mixed, dropped>>
vars == <<build, gate_vars, path_vars, fail_vars, switch_vars, todo, bug, history>>

\* An exported device, on the fast path or set up through the native one.
Init ==
  /\ build \in Builds
  /\ suspend = 0 /\ closed = FALSE /\ frozen = FALSE
  /\ fast \in BOOLEAN /\ nfd = fast /\ can_failover = fast
  /\ active_failover = FALSE /\ failQ = {}
  /\ app_suspend = 0 /\ ioswitch_active = 0
  /\ sent = [k \in Codes |-> 0]
  /\ st = [i \in IOs |-> "idle"]
  /\ todo = [t \in Threads |-> <<>>]
  /\ ios = [c \in Ctl |-> {}]
  /\ bug = "none" /\ owed = 0 /\ lent = 0 /\ racy = FALSE /\ mixed = FALSE /\ dropped = FALSE

\* Thread t begins an operation made of steps.
Start(t, steps) == todo[t] = <<>> /\ todo' = [todo EXCEPT ![t] = steps]

\* Thread t does its next step and has first to do steps before it goes on.
Do(t, step, steps) ==
  /\ todo[t] # <<>> /\ Head(todo[t]) = step
  /\ todo' = [todo EXCEPT ![t] = steps \o Tail(@)]

\* Some thread has still to do one of steps.
Ahead(steps) == \E t \in Threads : \E k \in DOMAIN todo[t] : todo[t][k] \in steps

\* The daemon's suspend has claimed the flag and may still fail.
MidSuspend == Ahead({"synced", "clear_app"})

\* A switch has been claimed and its suspension is not settled yet.
MidSwitch == Ahead({"send_failover", "send_fallback", "clear_switch"})

\* Some thread closes the files or sets up others.
AtFiles == Ahead({"flush", "close_files", "fast_off", "set_paths", "enable", "open_files", "check", "no_files"})

--------------------------------------------------------------------------------
(***************************************************************************)
(* pxd_suspend_io and pxd_resume_io of both builds                         *)
(***************************************************************************)

\* Only the first suspender closes the gate; the others go on at once, even
\* when it is not closed yet.
Inc(t) ==
  /\ Do(t, "inc", IF suspend = 0 THEN <<"close">> ELSE <<>>)
  /\ suspend' = suspend + 1
  /\ racy' = (racy \/ (IF build = "blkmq" THEN Ahead({"close", "freeze", "open", "thaw"})
                       ELSE suspend # 0 /\ ~closed))
  /\ mixed' = (mixed \/ (build = "makereq" /\ suspend # 0 /\ Ahead({"close", "open"})))
  /\ UNCHANGED <<build, closed, frozen, path_vars, fail_vars, switch_vars, bug, owed, lent, dropped>>

\* blk_mq_quiesce_queue waits for queue_rq calls under way; write_lock waits
\* for the readers and for another writer.
Close(t) ==
  /\ Do(t, "close", IF build = "blkmq" THEN <<"freeze">> ELSE <<>>)
  /\ build = "makereq" => ~closed
  /\ closed' = TRUE
  /\ UNCHANGED <<build, suspend, frozen, path_vars, fail_vars, switch_vars, bug, history>>

Freeze(t) ==
  /\ Do(t, "freeze", <<>>)
  /\ frozen' = TRUE
  /\ UNCHANGED <<build, suspend, closed, path_vars, fail_vars, switch_vars, bug, history>>

Dec(t) ==
  /\ Do(t, "dec", IF suspend = 1 THEN <<"open">> ELSE <<>>)
  /\ suspend' = suspend - 1
  /\ UNCHANGED <<build, closed, frozen, path_vars, fail_vars, switch_vars, bug, history>>

\* The queue is unquiesced only when it is marked frozen; write_unlock always.
Open(t) ==
  /\ Do(t, "open", IF build = "blkmq" /\ frozen THEN <<"thaw">> ELSE <<>>)
  /\ closed' = (build = "blkmq" /\ ~frozen /\ closed)
  /\ UNCHANGED <<build, suspend, frozen, path_vars, fail_vars, switch_vars, bug, history>>

Thaw(t) ==
  /\ Do(t, "thaw", <<>>)
  /\ frozen' = FALSE
  /\ UNCHANGED <<build, suspend, closed, path_vars, fail_vars, switch_vars, bug, history>>

\* A resume by someone who does not hold the suspension he releases
Release(t) ==
  /\ Do(t, "release", <<"dec">>)
  /\ IF owed > 0 THEN owed' = owed - 1 /\ lent' = lent ELSE owed' = owed /\ lent' = lent + 1
  /\ UNCHANGED <<build, gate_vars, path_vars, fail_vars, switch_vars, bug, racy, mixed, dropped>>

--------------------------------------------------------------------------------
(***************************************************************************)
(* Suspend and resume for the daemon (PXD_SUSPEND, PXD_RESUME)             *)
(***************************************************************************)

\* pxd_request_suspend; a flush that fails with coe set leaves it suspended.
RequestSuspend(c) ==
  /\ app_suspend = 0
  /\ app_suspend' = 1
  /\ \/ Start(c, <<"inc", "synced">>)
     \/ Start(c, <<"clear_app">>)
  /\ UNCHANGED <<build, gate_vars, path_vars, fail_vars, ioswitch_active, sent, bug, history>>

\* the flush failed and coe is not set: pxd_resume_io, and the error is returned
Synced(c) ==
  /\ \/ Do(c, "synced", <<>>)
     \/ fast /\ Do(c, "synced", <<"dec", "clear_app">>)
  /\ UNCHANGED <<build, gate_vars, path_vars, fail_vars, switch_vars, bug, history>>

ClearApp(c) ==
  /\ Do(c, "clear_app", <<>>)
  /\ app_suspend' = 0
  /\ UNCHANGED <<build, gate_vars, path_vars, fail_vars, ioswitch_active, sent, bug, history>>

\* pxd_request_resume called by another function
AppResume(t) ==
  /\ Do(t, "app_resume", IF app_suspend = 1 THEN <<"dec">> ELSE <<>>)
  /\ app_suspend' = 0
  /\ racy' = (racy \/ (app_suspend = 1 /\ MidSuspend))
  /\ UNCHANGED <<build, gate_vars, path_vars, fail_vars, ioswitch_active, sent, bug,
                 owed, lent, mixed, dropped>>

\* pxd_request_resume, from the daemon or by pxd_read_init for a new one
RequestResume(c) ==
  /\ app_suspend = 1
  /\ app_suspend' = 0
  /\ Start(c, <<"dec">>)
  /\ racy' = (racy \/ MidSuspend)
  /\ UNCHANGED <<build, gate_vars, path_vars, fail_vars, ioswitch_active, sent, bug,
                 owed, lent, mixed, dropped>>

--------------------------------------------------------------------------------
(***************************************************************************)
(* Switching the path                                                      *)
(***************************************************************************)

\* What follows an error: pxd_io_failover aborts the queue, the daemon is told.
OnError(t) == IF t \in IOs THEN <<"abort">> ELSE <<>>

\* pxd_request_ioswitch(PXD_FAILOVER_TO_USERSPACE): pxd_initiate_failover
RequestFailover(c) ==
  /\ fast
  /\ Start(c, <<"claim">>)
  /\ UNCHANGED <<build, gate_vars, path_vars, fail_vars, switch_vars, bug, history>>

\* pxd_initiate_failover, called by pxd_io_failover
InitiateFailover(i) ==
  /\ Do(i, "failover", IF fast THEN <<"claim">> ELSE <<"abort">>)
  /\ UNCHANGED <<build, gate_vars, path_vars, fail_vars, switch_vars, bug, history>>

\* the cmpxchg of pxd_initiate_failover, and its suspend, which a pending sync may refuse
ClaimFailover(t) ==
  /\ \/ ioswitch_active = 1 /\ Do(t, "claim", <<>>) /\ UNCHANGED ioswitch_active
     \/ /\ ioswitch_active = 0
        /\ ioswitch_active' = 1
        /\ \/ Do(t, "claim", <<"inc", "send_failover">>)
           \/ Do(t, "claim", <<"clear_switch">> \o OnError(t))
  /\ UNCHANGED <<build, gate_vars, path_vars, fail_vars, app_suspend, sent, bug, history>>

\* pxd_initiate_ioswitch; on failure pxd_request_resume, which releases the
\* daemon's suspension, if there is one, and never the one just taken
SendFailover(t) ==
  /\ \/ /\ Do(t, "send_failover", <<>>)
        /\ sent["failover"] < MaxSent
        /\ sent' = [sent EXCEPT !["failover"] = @ + 1]
        /\ UNCHANGED owed
     \/ /\ Do(t, "send_failover", <<"app_resume", "clear_switch">> \o OnError(t))
        /\ owed < MaxOwed
        /\ owed' = owed + 1
        /\ UNCHANGED sent
  /\ UNCHANGED <<build, gate_vars, path_vars, fail_vars, app_suspend, ioswitch_active,
                 bug, lent, racy, mixed, dropped>>

ClearSwitch(t) ==
  /\ Do(t, "clear_switch", <<>>)
  /\ ioswitch_active' = 0
  /\ dropped' = (dropped \/ (t \in Ctl /\ failQ # {}))
  /\ UNCHANGED <<build, gate_vars, path_vars, fail_vars, app_suspend, sent, bug,
                 owed, lent, racy, mixed>>

\* pxd_request_ioswitch(PXD_FALLBACK_TO_KERNEL): pxd_initiate_fallback
RequestFallback(c) ==
  /\ ~fast
  /\ Start(c, <<"claim_fallback">>)
  /\ UNCHANGED <<build, gate_vars, path_vars, fail_vars, switch_vars, bug, history>>

ClaimFallback(c) ==
  /\ Do(c, "claim_fallback", IF ioswitch_active = 1 THEN <<>> ELSE <<"inc", "send_fallback">>)
  /\ ioswitch_active' = 1
  /\ UNCHANGED <<build, gate_vars, path_vars, fail_vars, app_suspend, sent, bug, history>>

\* Mutant: the error path forgets to resume.
SendFallbackStuck(c) ==
  /\ \/ /\ Do(c, "send_fallback", <<>>)
        /\ sent["fallback"] < MaxSent
        /\ sent' = [sent EXCEPT !["fallback"] = @ + 1]
     \/ Do(c, "send_fallback", <<"clear_switch">>) /\ UNCHANGED sent
  /\ UNCHANGED <<build, gate_vars, path_vars, fail_vars, app_suspend, ioswitch_active,
                 bug, history>>

SendFallback(c) ==
  /\ \/ /\ Do(c, "send_fallback", <<>>)
        /\ sent["fallback"] < MaxSent
        /\ sent' = [sent EXCEPT !["fallback"] = @ + 1]
     \/ Do(c, "send_fallback", <<"dec", "clear_switch">>) /\ UNCHANGED sent
  /\ UNCHANGED <<build, gate_vars, path_vars, fail_vars, app_suspend, ioswitch_active,
                 bug, history>>

\* pxd_process_ioswitch_complete: the daemon's answer, or the request aborted
\* with it.  Nothing happens when the switch was reset meanwhile.
IoswitchComplete(c, code) ==
  /\ sent[code] > 0
  /\ sent' = [sent EXCEPT ![code] = @ - 1]
  /\ ioswitch_active' = 0
  /\ Start(c, IF ioswitch_active = 0 THEN <<>>
              ELSE IF code = "failover" THEN <<"disable", "take", "dec", "reissue">>
              ELSE <<"dec">>)
  /\ racy' = (racy \/ (ioswitch_active = 1 /\ MidSwitch))
  /\ dropped' = (dropped \/ (ioswitch_active = 1 /\ code = "fallback" /\ failQ # {}))
  /\ UNCHANGED <<build, gate_vars, path_vars, fail_vars, app_suspend, bug, owed, lent, mixed>>

\* Mutant: the failed IOs are not taken, only the flag is cleared.
TakeNothing(c) ==
  /\ Do(c, "take", <<>>)
  /\ active_failover' = FALSE
  /\ UNCHANGED <<build, gate_vars, path_vars, failQ, ios, st, switch_vars, bug, history>>

\* under fail_lock
TakeFailQ(c) ==
  /\ Do(c, "take", <<>>)
  /\ ios' = [ios EXCEPT ![c] = failQ]
  /\ failQ' = {} /\ dropped' = FALSE
  /\ active_failover' = FALSE
  /\ UNCHANGED <<build, gate_vars, path_vars, st, switch_vars, bug, owed, lent, racy, mixed>>

\* pxd_reissuefailQ: to the slow path when the failover succeeded, else -EIO;
\* either way they have left the fast path.
\* The blk-mq build loops over ios and takes its entries from fp.failQ, which
\* has just been emptied: the magic of what it finds there is not the root's.
ReissueFailQ(c) ==
  /\ Do(c, "reissue", <<>>)
  /\ bug' = IF build = "blkmq" /\ ios[c] # {} THEN "magic" ELSE "none"
  /\ st' = [i \in IOs |-> IF i \notin ios[c] \/ bug' # "none" THEN st[i] ELSE "idle"]
  /\ ios' = [ios EXCEPT ![c] = {}]
  /\ UNCHANGED <<build, gate_vars, path_vars, active_failover, failQ, switch_vars, history>>

--------------------------------------------------------------------------------
(***************************************************************************)
(* Backing files                                                           *)
(***************************************************************************)

\* Mutant: the device is suspended after the files are closed.
DisableUnsuspended(t) ==
  /\ Do(t, "disable", IF nfd /\ fast THEN <<"flush", "close_files", "fast_off", "inc", "dec">>
                      ELSE <<>>)
  /\ active_failover' = (active_failover /\ nfd /\ fast)
  /\ fast' = (fast /\ nfd)
  /\ UNCHANGED <<build, gate_vars, nfd, can_failover, failQ, st, ios, switch_vars, bug, history>>

\* disableFastPath
Disable(t) ==
  /\ Do(t, "disable", IF nfd /\ fast THEN <<"inc", "flush", "close_files", "fast_off", "dec">>
                      ELSE <<>>)
  /\ active_failover' = (active_failover /\ nfd /\ fast)
  /\ fast' = (fast /\ nfd)
  /\ UNCHANGED <<build, gate_vars, nfd, can_failover, failQ, st, ios, switch_vars, bug, history>>

\* Mutant: the workers are not flushed.
FlushSkipped(t) ==
  /\ Do(t, "flush", <<>>)
  /\ UNCHANGED <<build, gate_vars, path_vars, fail_vars, switch_vars, bug, history>>

\* fastpath_flush_work: the kthread workers run nothing but the blk-mq build's IO.
FlushWork(t) ==
  /\ Do(t, "flush", <<>>)
  /\ build = "blkmq" => \A i \in IOs : /\ st[i] \notin {"queued", "failing", "reroute"}
                                       /\ todo[i] = <<>>
  /\ UNCHANGED <<build, gate_vars, path_vars, fail_vars, switch_vars, bug, history>>

CloseFiles(t) ==
  /\ Do(t, "close_files", <<>>)
  /\ nfd' = FALSE
  /\ UNCHANGED <<build, gate_vars, fast, can_failover, fail_vars, switch_vars, bug, history>>

FastOff(t) ==
  /\ Do(t, "fast_off", <<>>)
  /\ fast' = FALSE /\ can_failover' = FALSE
  /\ UNCHANGED <<build, gate_vars, nfd, fail_vars, switch_vars, bug, history>>

\* __pxd_update_path and pxd_init_fastpath_target; with too many paths the
\* device is left on the native path.
UpdatePath(c) ==
  /\ ~fast
  /\ \/ Start(c, <<"inc", "set_paths", "enable", "dec", "check">>)
     \/ Start(c, <<"disable", "no_files">>)
  /\ mixed' = (mixed \/ AtFiles)
  /\ UNCHANGED <<build, gate_vars, path_vars, fail_vars, switch_vars, bug, owed, lent, racy, dropped>>

SetPaths(c) ==
  /\ Do(c, "set_paths", <<>>)
  /\ nfd' \in BOOLEAN /\ can_failover' \in BOOLEAN
  /\ UNCHANGED <<build, gate_vars, fast, fail_vars, switch_vars, bug, history>>

\* enableFastPath
Enable(c) ==
  /\ Do(c, "enable", IF nfd THEN <<"inc", "open_files">> ELSE <<>>)
  /\ fast' = (fast /\ nfd)
  /\ UNCHANGED <<build, gate_vars, nfd, can_failover, fail_vars, switch_vars, bug, history>>

\* When a file cannot be opened the volume remains suspended, waiting for a
\* CLEANUP request.
OpenFiles(c) ==
  /\ \/ /\ Do(c, "open_files", <<"dec">>)
        /\ fast' = TRUE
        /\ UNCHANGED <<nfd, owed>>
     \/ /\ Do(c, "open_files", <<>>)
        /\ fast' = FALSE /\ nfd' = FALSE
        /\ owed < MaxOwed /\ owed' = owed + 1
  /\ UNCHANGED <<build, gate_vars, can_failover, fail_vars, switch_vars, bug, lent, racy, mixed, dropped>>

CheckPaths(c) ==
  /\ Do(c, "check", IF fast THEN <<>> ELSE <<"disable", "no_files">>)
  /\ UNCHANGED <<build, gate_vars, path_vars, fail_vars, switch_vars, bug, history>>

NoFiles(c) ==
  /\ Do(c, "no_files", <<>>)
  /\ nfd' = FALSE
  /\ UNCHANGED <<build, gate_vars, fast, can_failover, fail_vars, switch_vars, bug, history>>

\* PXD_IOC_FPCLEANUP: pxd_fastpath_vol_cleanup
VolCleanup(c) ==
  /\ suspend > 0
  /\ Start(c, <<"disable", "release">>)
  /\ UNCHANGED <<build, gate_vars, path_vars, fail_vars, switch_vars, bug, history>>

\* pxd_fastpath_reset_device, on disconnect and on removal
ResetDevice(c) ==
  /\ Start(c, <<"disable", "reset_switch", "app_resume", "release_all">>)
  /\ UNCHANGED <<build, gate_vars, path_vars, fail_vars, switch_vars, bug, history>>

\* switch_uid was stored before the request had an id: it is zero, the request
\* is not found and the switch is only forgotten.
ResetSwitch(c) ==
  /\ Do(c, "reset_switch", <<>>)
  /\ ioswitch_active' = 0
  /\ owed' = owed + ioswitch_active
  /\ racy' = (racy \/ (ioswitch_active = 1 /\ MidSwitch))
  /\ dropped' = (dropped \/ (ioswitch_active = 1 /\ failQ # {}))
  /\ UNCHANGED <<build, gate_vars, path_vars, fail_vars, app_suspend, sent, bug, lent, mixed>>

\* while (atomic_read(&fp->suspend) > 0) pxd_resume_io
ReleaseAll(c) ==
  /\ Do(c, "release_all", IF suspend > 0 THEN <<"release", "release_all">> ELSE <<>>)
  /\ UNCHANGED <<build, gate_vars, path_vars, fail_vars, switch_vars, bug, history>>

\* pxd_debug_store 'X' (pxd_debug_switch_nativepath), 's' and 'r'; 'S' and 'R'
\* are RequestSuspend and RequestResume, 'Y' makes the next IO fail.
DebugStore(c) ==
  /\ \/ fast /\ Start(c, <<"disable">>)
     \/ owed < MaxOwed /\ Start(c, <<"inc", "left">>)
     \/ Start(c, <<"release">>)
  /\ UNCHANGED <<build, gate_vars, path_vars, fail_vars, switch_vars, bug, history>>

\* the 's' is done: the suspension stays behind
Left(c) ==
  /\ Do(c, "left", <<>>)
  /\ owed < MaxOwed
  /\ owed' = owed + 1
  /\ UNCHANGED <<build, gate_vars, path_vars, fail_vars, switch_vars, bug, lent, racy, mixed, dropped>>

--------------------------------------------------------------------------------
(***************************************************************************)
(* IO                                                                      *)
(***************************************************************************)

\* pxd_queue_rq hands a fast IO to a worker; the make_request entry maps it
\* under the read lock.  An IO mapped to no file has no clone to complete it.
\* On the native path an IO goes to the daemon.
Submit(i) ==
  /\ st[i] = "idle" /\ ~closed /\ fast
  /\ st' = [st EXCEPT ![i] = IF build = "blkmq" THEN "queued" ELSE IF nfd THEN "mapped" ELSE "lost"]
  /\ UNCHANGED <<build, gate_vars, path_vars, active_failover, failQ, ios, switch_vars, todo, bug, history>>

\* fp_handle_io
Map(i) ==
  /\ st[i] = "queued"
  /\ st' = [st EXCEPT ![i] = IF nfd THEN "mapped" ELSE "lost"]
  /\ UNCHANGED <<build, gate_vars, path_vars, active_failover, failQ, ios, switch_vars, todo, bug, history>>

\* The last clone ends; -EIO is failed over only while can_failover is set.
EndIO(i) ==
  /\ st[i] = "mapped"
  /\ \/ st' = [st EXCEPT ![i] = "idle"]
     \/ can_failover /\ st' = [st EXCEPT ![i] = "failing"]
  /\ UNCHANGED <<build, gate_vars, path_vars, active_failover, failQ, ios, switch_vars, todo, bug, history>>

\* pxd_io_failover, the part under fail_lock
IoFailover(i) ==
  /\ st[i] = "failing" /\ todo[i] = <<>>
  /\ IF ~active_failover /\ ~fast
     THEN st' = [st EXCEPT ![i] = "reroute"] /\ UNCHANGED <<active_failover, failQ, todo>>
     ELSE /\ st' = [st EXCEPT ![i] = "failed"]
          /\ failQ' = failQ \union {i}
          /\ active_failover' = TRUE
          /\ todo' = [todo EXCEPT ![i] = IF active_failover THEN <<>> ELSE <<"failover">>]
  /\ UNCHANGED <<build, gate_vars, path_vars, ios, switch_vars, bug, history>>

\* pxd_reroute_slowpath, pxdmq_reroute_slowpath: BUG_ON(pxd_dev->fp.fastpath)
Reroute(i) ==
  /\ st[i] = "reroute"
  /\ bug' = IF build = "blkmq" /\ fast THEN "fastpath" ELSE "none"
  /\ st' = [st EXCEPT ![i] = "idle"]
  /\ UNCHANGED <<build, gate_vars, path_vars, active_failover, failQ, ios, switch_vars, todo, history>>

\* __pxd_abortfailQ under fail_lock: all are ended with -EIO.
AbortFailQ(i) ==
  /\ Do(i, "abort", <<>>)
  /\ st' = [j \in IOs |-> IF j \in failQ THEN "idle" ELSE st[j]]
  /\ failQ' = {} /\ active_failover' = FALSE /\ dropped' = FALSE
  /\ UNCHANGED <<build, gate_vars, path_vars, ios, switch_vars, bug, owed, lent, racy, mixed>>

--------------------------------------------------------------------------------
\* what an IO's thread and a controller have in common
ThreadStep(t) ==
  \/ Inc(t) \/ Close(t) \/ Freeze(t) \/ Dec(t) \/ Open(t) \/ Thaw(t)
  \/ ClaimFailover(t) \/ SendFailover(t) \/ ClearSwitch(t) \/ AppResume(t)

ControllerStep(c) ==
  \/ ThreadStep(c)
  \/ Release(c) \/ Disable(c) \/ FlushWork(c) \/ CloseFiles(c) \/ FastOff(c)
  \/ Synced(c) \/ ClearApp(c) \/ ClaimFallback(c) \/ SendFallback(c) \/ TakeFailQ(c) \/ ReissueFailQ(c)
  \/ SetPaths(c) \/ Enable(c) \/ OpenFiles(c) \/ CheckPaths(c) \/ NoFiles(c)
  \/ ResetSwitch(c) \/ ReleaseAll(c) \/ Left(c)

Request(c) ==
  \/ RequestSuspend(c) \/ RequestResume(c) \/ RequestFailover(c) \/ RequestFallback(c)
  \/ UpdatePath(c) \/ VolCleanup(c) \/ ResetDevice(c) \/ DebugStore(c)

Answer(c) == \E code \in Codes : IoswitchComplete(c, code)

IOStep(i) == ThreadStep(i) \/ InitiateFailover(i) \/ AbortFailQ(i) \/ Map(i) \/ EndIO(i) \/ IoFailover(i) \/ Reroute(i)

\* A BUG_ON stops the kernel.  What follows a race, or a suspension taken from
\* its holder, is not explored: no property below speaks of it.
Explored == bug = "none" /\ ~racy /\ lent = 0

Next ==
  /\ Explored
  /\ \/ \E c \in Ctl : ControllerStep(c) \/ Request(c) \/ Answer(c)
     \/ \E i \in IOs : IOStep(i) \/ Submit(i)

Spec == Init /\ [][Next]_vars

--------------------------------------------------------------------------------
(***************************************************************************)
(* Properties                                                              *)
(***************************************************************************)
AtRest == \A t \in Threads : todo[t] = <<>>

TypeOK ==
  /\ build \in Builds
  /\ suspend \in Int /\ owed \in Nat /\ lent \in Nat
  /\ {closed, frozen, fast, nfd, can_failover, active_failover, racy, mixed, dropped} \subseteq BOOLEAN
  /\ bug \in {"none", "magic", "fastpath"}
  /\ failQ \subseteq IOs
  /\ app_suspend \in 0 .. 1 /\ ioswitch_active \in 0 .. 1
  /\ sent \in [Codes -> 0 .. MaxSent]
  /\ st \in [IOs -> {"idle", "queued", "mapped", "failing", "failed", "reroute", "lost"}]
  /\ ios \in [Ctl -> SUBSET IOs]

\* Every suspension is somebody's: when no call is under way the count is what
\* the daemon, a switch under way and the failed calls hold, less what a cleanup
\* or reset has released for others (pxd_suspend_io, pxd_resume_io).
SuspendBalanced ==
  AtRest /\ ~racy => suspend = app_suspend + ioswitch_active + owed - lent

\* The count and who holds it agree, whatever calls fail half way.
SuspensionsSound == TypeOK /\ SuspendBalanced

\* When no call is under way the gate is closed exactly while the count says
\* so, unless two threads have met in pxd_suspend_io and pxd_resume_io.
GateFollowsCount ==
  AtRest /\ ~racy /\ ~mixed /\ lent = 0 => (closed <=> suspend > 0)

\* No IO is mapped while disableFastPath has closed the files: it would have no
\* clone and never end (clone_and_map, __pxd_init_block_head).
NoneMappedToNothing == ~racy /\ ~mixed /\ lent = 0 => \A i \in IOs : st[i] # "lost"

\* The gate follows the count and keeps IO from files that are being closed.
GateHolds == GateFollowsCount /\ NoneMappedToNothing

\* A switch is under way, or a thread is about to begin one or to empty the queue.
Serving == ioswitch_active = 1 \/ Ahead({"failover", "claim", "take", "abort"})

\* A failed IO waits on failQ only while some thread, or the daemon's answer,
\* is going to take it off.  The exceptions are the calls that give up a switch
\* on which failed IOs rely: a reset, a failover the daemon could not be sent,
\* and a fallback that completes (pxd_io_failover's "already initiated").
FailedIOServed == failQ # {} /\ ~dropped => Serving

\* The path is switched, and files opened or closed, only behind a closed gate.
SwitchBehindGate ==
  [][fast' # fast \/ nfd' # nfd => closed \/ racy \/ mixed \/ lent > 0]_vars

\* BUG_ON(fproot->magic != FP_ROOT_MAGIC) in pxd_reissuefailQ
\* (pxd_bio_blkmq.c:217): the entries taken from the list are failed IOs.
ReissuedAreFailed == bug # "magic"

================================================================================
