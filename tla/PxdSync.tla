-------------------------------- MODULE PxdSync --------------------------------
(***************************************************************************)
(* pxd_request_suspend_internal (pxd_fastpath.c): suspend a device on the  *)
(* fast path and flush its backing files.  One work item per file runs     *)
(* vfs_fsync; the caller waits for the last of them, but no longer than    *)
(* SYNC_TIMEOUT.  A call that timed out leaves works behind, and the next  *)
(* one must not mistake their answers for its own.                         *)
(*                                                                         *)
(* A work item that is queued while it runs is run once more afterwards,   *)
(* never twice at a time: that is the workqueue API.                       *)
(***************************************************************************)
EXTENDS Naturals, FiniteSets

CONSTANTS
  Callers,     \* threads that suspend the device: the daemon's, a failover
  Files        \* the backing files, 0 .. MAX_PXD_BACKING_DEVS - 1

ASSUME SyncAssumption == IsFiniteSet(Files) /\ Files # {} /\ IsFiniteSet(Callers)

VARIABLES
  sync_done,   \* fp->sync_done
  completed,   \* sync_complete has been signalled
  queued,      \* works of the syncers waiting to run
  running,     \* works of the syncers that run
  ended,       \* running works whose vfs_fsync has returned
  rc,          \* syncwi[i].rc: the files whose result is an error
  pc,          \* per caller: where its call is
  toqueue,     \* per caller: works it has still to queue
  suspend,     \* fp->suspend
  fresh,       \* history: per caller, what became of the fsyncs its call saw begin
  shared,      \* history: two calls found no sync under way before either set the count
  erased,      \* history: a syncer began while a call had its results still to read
  bug          \* __pxd_syncer hit its BUG_ON

work_vars == <<queued, running, ended, rc>>
caller_vars == <<pc, toqueue>>
history == <<fresh, shared, erased>>
vars == <<sync_done, completed, work_vars, caller_vars, suspend, history, bug>>

Init ==
  /\ sync_done = 0
  /\ completed = FALSE
  /\ queued = {} /\ running = {} /\ ended = {} /\ rc = {}
  /\ pc = [c \in Callers |-> "out"]
  /\ toqueue = [c \in Callers |-> {}]
  /\ suspend = 0
  /\ fresh = [c \in Callers |-> [f \in Files |-> "none"]]
  /\ shared = FALSE /\ erased = FALSE /\ bug = FALSE

\* stages in which the caller is not inside the call
Outside == {"out", "held", "coe", "unsynced"}

\* After its BUG_ON the machine is down.
CallerStep(c, from, to) ==
  /\ ~bug
  /\ pc[c] = from
  /\ pc' = [pc EXCEPT ![c] = to]

--------------------------------------------------------------------------------
(***************************************************************************)
(* pxd_request_suspend_internal                                            *)
(***************************************************************************)

\* pxd_sync_work_pending
SyncWorkPending == sync_done # 0 \/ queued \union running # {}

\* Returns -EBUSY, and changes nothing, while an earlier sync is under way;
\* else pxd_suspend_io.
CheckPending(c) ==
  /\ ~SyncWorkPending
  /\ CallerStep(c, "out", "set")
  /\ suspend' = suspend + 1
  /\ fresh' = [fresh EXCEPT ![c] = [f \in Files |-> "none"]]
  /\ shared' = (shared \/ \E d \in Callers \ {c} : pc[d] = "set")
  /\ UNCHANGED <<sync_done, completed, work_vars, toqueue, erased, bug>>

\* With skip_flush, or on the slow path, nothing is synced.
SuspendOnly(c) ==
  /\ CallerStep(c, "out", "unsynced")
  /\ suspend' = suspend + 1
  /\ UNCHANGED <<sync_done, completed, work_vars, toqueue, history, bug>>

SetCount(c) ==
  /\ CallerStep(c, "set", "reinit")
  /\ sync_done' = Cardinality(Files)
  /\ UNCHANGED <<completed, work_vars, toqueue, suspend, history, bug>>

\* Mutant: reinit_completion is forgotten.
ReinitForgotten(c) ==
  /\ CallerStep(c, "reinit", "queue")
  /\ toqueue' = [toqueue EXCEPT ![c] = Files]
  /\ UNCHANGED <<sync_done, completed, work_vars, suspend, history, bug>>

Reinit(c) ==
  /\ CallerStep(c, "reinit", "queue")
  /\ completed' = FALSE
  /\ toqueue' = [toqueue EXCEPT ![c] = Files]
  /\ UNCHANGED <<sync_done, work_vars, suspend, history, bug>>

\* queue_work, which does nothing for a work that is already queued
QueueWork(c, f) ==
  /\ CallerStep(c, "queue", IF toqueue[c] = {f} THEN "wait" ELSE "queue")
  /\ f \in toqueue[c]
  /\ toqueue' = [toqueue EXCEPT ![c] = @ \ {f}]
  /\ queued' = queued \union {f}
  /\ UNCHANGED <<sync_done, completed, running, ended, rc, suspend, history, bug>>

\* wait_for_completion_timeout returns: of two waiters complete() wakes one.
WaitDone(c) ==
  /\ CallerStep(c, "wait", "read")
  /\ completed
  /\ completed' = FALSE
  /\ UNCHANGED <<sync_done, work_vars, toqueue, suspend, history, bug>>

\* "consolidate responses"
Consolidate(c) ==
  /\ CallerStep(c, "read", IF rc = {} THEN "held" ELSE "fail")
  /\ UNCHANGED <<sync_done, completed, work_vars, toqueue, suspend, history, bug>>

\* Mutant: a call that gives up clears the count for the next one.
WaitTimeoutResets(c) ==
  /\ CallerStep(c, "wait", "fail")
  /\ ~completed
  /\ sync_done' = 0
  /\ UNCHANGED <<completed, work_vars, toqueue, suspend, history, bug>>

WaitTimeout(c) ==
  /\ CallerStep(c, "wait", "fail")
  /\ ~completed
  /\ UNCHANGED <<sync_done, completed, work_vars, toqueue, suspend, history, bug>>

\* Mutant: continue-on-error resumes the device too.
FailResumes(c, coe) ==
  /\ CallerStep(c, "fail", IF coe THEN "coe" ELSE "out")
  /\ suspend' = suspend - 1
  /\ UNCHANGED <<sync_done, completed, work_vars, toqueue, history, bug>>

\* With coe, an argument of the call that nothing else reads, the device stays
\* suspended all the same; else pxd_resume_io.
Fail(c, coe) ==
  /\ CallerStep(c, "fail", IF coe THEN "coe" ELSE "out")
  /\ suspend' = IF coe THEN suspend ELSE suspend - 1
  /\ UNCHANGED <<sync_done, completed, work_vars, toqueue, history, bug>>

\* pxd_request_resume_internal, later, by whoever suspended
Resume(c) ==
  /\ ~bug
  /\ pc[c] \in Outside \ {"out"}
  /\ pc' = [pc EXCEPT ![c] = "out"]
  /\ suspend' = suspend - 1
  /\ UNCHANGED <<sync_done, completed, work_vars, toqueue, history, bug>>

--------------------------------------------------------------------------------
(***************************************************************************)
(* __pxd_syncer                                                            *)
(***************************************************************************)

\* rc = 0, "early complete", and vfs_fsync begins.
SyncerBegin(f) ==
  /\ ~bug
  /\ f \in queued /\ f \notin running
  /\ queued' = queued \ {f}
  /\ running' = running \union {f}
  /\ rc' = rc \ {f}
  /\ fresh' = [c \in Callers |-> IF pc[c] \in Outside THEN fresh[c]
                                 ELSE [fresh[c] EXCEPT ![f] = "begun"]]
  /\ erased' = (erased \/ \E c \in Callers : pc[c] = "read")
  /\ UNCHANGED <<sync_done, completed, ended, caller_vars, suspend, shared, bug>>

\* the callers who saw the fsync of f begin learn how it ended
SyncEnds(f, how) ==
  [c \in Callers |-> IF fresh[c][f] = "begun" THEN [fresh[c] EXCEPT ![f] = how]
                     ELSE fresh[c]]

\* vfs_fsync returns; files the device does not have count as synced.
SyncerSynced(f) ==
  /\ ~bug
  /\ f \in running \ ended
  /\ ended' = ended \union {f}
  /\ \/ rc' = rc /\ fresh' = SyncEnds(f, "synced")
     \/ rc' = rc \union {f} /\ fresh' = SyncEnds(f, "failed")
  /\ UNCHANGED <<sync_done, completed, queued, running, caller_vars, suspend, shared, erased, bug>>

\* Mutant: a syncer whose fsync failed leaves without being counted down.
SyncerDoneFailed(f) ==
  /\ ~bug
  /\ f \in running \intersect ended
  /\ running' = running \ {f}
  /\ ended' = ended \ {f}
  /\ bug' = (sync_done = 0)
  /\ sync_done' = IF sync_done = 0 \/ f \in rc THEN sync_done ELSE sync_done - 1
  /\ completed' = (completed \/ sync_done' = 0)
  /\ UNCHANGED <<queued, rc, caller_vars, suspend, history>>

\* BUG_ON(!atomic_read(&fp->sync_done)), then dec and test.
SyncerDone(f) ==
  /\ ~bug
  /\ f \in running \intersect ended
  /\ running' = running \ {f}
  /\ ended' = ended \ {f}
  /\ bug' = (sync_done = 0)
  /\ sync_done' = IF sync_done = 0 THEN 0 ELSE sync_done - 1
  /\ completed' = (completed \/ sync_done = 1)
  /\ UNCHANGED <<queued, rc, caller_vars, suspend, history>>

CallerNext(c) ==
  \/ CheckPending(c) \/ SuspendOnly(c) \/ SetCount(c) \/ Reinit(c)
  \/ \E f \in Files : QueueWork(c, f)
  \/ WaitDone(c) \/ Consolidate(c) \/ WaitTimeout(c) \/ Resume(c)
  \/ \E coe \in BOOLEAN : Fail(c, coe)

SyncerNext(f) == SyncerBegin(f) \/ SyncerSynced(f) \/ SyncerDone(f)

Next == (\E c \in Callers : CallerNext(c)) \/ (\E f \in Files : SyncerNext(f))

\* A call that has begun runs on and times out in the end, and vfs_fsync
\* returns.  Nothing makes a caller suspend, or resume, the device.
Fairness ==
  /\ \A c \in Callers : WF_vars(CallerNext(c) /\ pc[c] \notin Outside)
  /\ \A f \in Files : WF_vars(SyncerNext(f))

Spec == Init /\ [][Next]_vars /\ Fairness

--------------------------------------------------------------------------------
(***************************************************************************)
(* Properties                                                              *)
(***************************************************************************)
CallStages == {"out", "set", "reinit", "queue", "wait", "read", "fail", "held", "coe",
               "unsynced"}

TypeOK ==
  /\ sync_done \in 0 .. Cardinality(Files)
  /\ completed \in BOOLEAN /\ shared \in BOOLEAN /\ erased \in BOOLEAN /\ bug \in BOOLEAN
  /\ queued \subseteq Files /\ running \subseteq Files
  /\ ended \subseteq running /\ rc \subseteq Files
  /\ pc \in [Callers -> CallStages]
  /\ toqueue \in [Callers -> SUBSET Files]
  /\ suspend \in 0 .. Cardinality(Callers)
  /\ fresh \in [Callers -> [Files -> {"none", "begun", "synced", "failed"}]]

\* A syncer finds itself counted, also one that a timed out call has left
\* behind, unless two calls have passed the check for an earlier sync together
\* (pxd_fastpath.c:296): nothing else makes its BUG_ON fire (line 231).
LateCounted == bug => shared

\* BUG_ON(!atomic_read(&fp->sync_done)) (pxd_fastpath.c:231).  It does not hold:
\* see Sync_two.cfg.
SyncerCounted == ~bug

Flushed(c) == pc[c] = "held" => \A f \in Files : fresh[c][f] = "synced"

\* A suspend that reports the files flushed has had every file synced, without
\* an error, by a vfs_fsync that began after the device was suspended: no late
\* answer to an earlier call, and no answer to another caller's, is taken for
\* its own, unless two calls have passed the check together or a syncer of
\* another call has begun before the results were read.
SyncedWhenHeld == shared \/ erased \/ \A c \in Callers : Flushed(c)

\* "capture first failure" (pxd_fastpath.c:321): the same, whatever the other
\* callers do, as long as they do not pass the check together.  It does not hold:
\* see Sync_results.cfg.
FailureCaptured == shared \/ \A c \in Callers : Flushed(c)

\* A sync that timed out does not make every later suspend fail with -EBUSY:
\* its works run out and the count returns to zero, whatever their results and
\* however many callers share it, unless the BUG_ON of __pxd_syncer is met.
SyncSettles == SyncWorkPending ~> (~SyncWorkPending \/ bug)

================================================================================
