--------------------------------- MODULE FastIO --------------------------------
(***************************************************************************)
(* The fast path of one device: an IO is cloned to every backing file (a   *)
(* read to the first only), and ends when its last clone has ended, or is  *)
(* failed over.  pxd_bio_blkmq.c and pxd_bio_makereq.c are two variants of *)
(* it; build says which one is compiled.  The make_request variant also    *)
(* makes submitters wait while the device is congested.                    *)
(***************************************************************************)
EXTENDS Naturals, FiniteSets, FiniteSetsExt

CONSTANTS
  IOs,
  NFiles,      \* fp.nfd
  Builds,      \* of {"blkmq", "makereq"}
  Depths,      \* values of qdepth that an administrator sets
  MaxCount,    \* bound: ncount at which no more IO is submitted
  MaxLeaked    \* bound: references to one file that are never put

ASSUME FastAssumption == /\ NFiles \in Nat \ {0} /\ MaxLeaked \in Nat
                         /\ IsFiniteSet(IOs)
                         /\ Builds \subseteq {"blkmq", "makereq"}
                         /\ Depths \subseteq Nat /\ Depths # {}

Files == 0 .. NFiles - 1
\* "write" stands for the operations that go to every file: write, discard, flush;
\* "other" for those clone_and_map does not support, write same among them.
Ops == {"read", "write", "other"}
Status == {"ok", "eio", "nospc", "timeout"}

VARIABLES
  build, can_failover, force_fail, suspended,
  fast,        \* fp.fastpath
  pc,          \* per IO: wait, queued, cloned, failing (its failover work is queued), failed
               \* (on fp.failQ), slow (given to the daemon), or how it ended: ok, error
  op,          \* per IO: REQ_OP
  phase,       \* per IO and file: its clone is none, ready, in flight, ended or done
  st,          \* per IO and file: bi_status of the clone
  nactive,     \* per IO: fproot->nactive, head->active
  refs,        \* per file: references taken with get_file
  ncount,      \* pxd_dev->ncount
  qdepth,      \* pxd_dev->qdepth
  asleep,      \* IOs whose submitter sleeps on suspend_wq
  leaked,      \* history: per file, references lost on an error path
  uncounted    \* history: IOs that left without being counted down

conf == <<build, can_failover, force_fail, suspended, fast, qdepth>>
io_vars == <<pc, op, phase, st, nactive>>
count_vars == <<refs, ncount, leaked, uncounted>>
vars == <<conf, io_vars, count_vars, asleep>>

None == [f \in Files |-> "none"]
AllOk == [f \in Files |-> "ok"]

Init ==
  /\ build \in Builds /\ force_fail = FALSE /\ suspended = FALSE
  /\ fast \in BOOLEAN /\ can_failover \in BOOLEAN /\ (can_failover => fast)
  /\ qdepth \in Depths
  /\ pc = [i \in IOs |-> "ok"] /\ op = [i \in IOs |-> "read"]
  /\ phase = [i \in IOs |-> None] /\ st = [i \in IOs |-> AllOk]
  /\ nactive = [i \in IOs |-> 0]
  /\ refs = [f \in Files |-> 0] /\ ncount = 0
  /\ asleep = {}
  /\ leaked = [f \in Files |-> 0] /\ uncounted = 0

\* the files an IO is cloned to
Targets(o) == IF o = "read" THEN {0} ELSE Files

\* get_file or fput on every file of fs
Refs(fs, d) == [f \in Files |-> IF f \in fs THEN refs[f] + d ELSE refs[f]]

--------------------------------------------------------------------------------
(***************************************************************************)
(* Congestion                                                              *)
(***************************************************************************)

\* pxd_device_congested with ncount = n
Congested(n) == suspended \/ n > qdepth

\* pxd_check_q_decongested once ncount is n; the blk-mq build has no sleepers.
Wake(n) == IF Congested(n) THEN asleep ELSE {}

\* pxd_congestion_set: nobody is woken
CongestionSet(q) ==
  /\ qdepth' = q
  /\ UNCHANGED <<build, can_failover, force_fail, suspended, fast, io_vars, count_vars, asleep>>

\* pxd_suspend_io and pxd_resume_io, as the submitters see them.  The write lock
\* of the make_request build waits for the IO that is being submitted.
Suspend ==
  /\ ~suspended
  /\ build = "makereq" => \A i \in IOs, f \in Files : phase[i][f] # "ready"
  /\ suspended' = TRUE
  /\ UNCHANGED <<build, can_failover, force_fail, fast, qdepth, io_vars, count_vars, asleep>>

\* Mutant: resume opens the gate and wakes nobody.
ResumeSilently ==
  /\ suspended /\ suspended' = FALSE
  /\ UNCHANGED <<build, can_failover, force_fail, fast, qdepth, io_vars, count_vars, asleep>>

Resume ==
  /\ suspended /\ suspended' = FALSE
  /\ asleep' = IF ncount > qdepth THEN asleep ELSE {}
  /\ UNCHANGED <<build, can_failover, force_fail, fast, qdepth, io_vars, count_vars>>

--------------------------------------------------------------------------------
(***************************************************************************)
(* Submission                                                              *)
(***************************************************************************)

\* pxd_queue_rq hands the request to a worker while the fast path is on; the
\* make_request entry sleeps in pxd_check_q_congested first, whatever the path.
Submit(i, o) ==
  /\ pc[i] \in {"ok", "error"} /\ ncount < MaxCount
  /\ build = "blkmq" => ~suspended /\ fast
  /\ LET sleeps == build = "makereq" /\ Congested(ncount)
     IN /\ pc' = [pc EXCEPT ![i] = IF sleeps THEN "wait" ELSE "queued"]
        /\ asleep' = IF sleeps THEN asleep \union {i} ELSE asleep
  /\ build = "makereq" => o # "other"
  /\ op' = [op EXCEPT ![i] = o]
  /\ UNCHANGED <<conf, phase, st, nactive, count_vars>>

\* pxd_queue_rq with the fast path off: pxd_request counts the IO, which goes to
\* the daemon, or does not know its operation and refuses it.
SubmitSlow(i, o, known) ==
  /\ build = "blkmq" /\ ~suspended /\ ~fast
  /\ pc[i] \in {"ok", "error"} /\ ncount < MaxCount
  /\ known \/ o = "other"
  /\ IF known
     THEN pc' = [pc EXCEPT ![i] = "slow"] /\ op' = [op EXCEPT ![i] = o] /\ ncount' = ncount + 1
     ELSE pc' = [pc EXCEPT ![i] = "error"] /\ UNCHANGED <<op, ncount>>
  /\ UNCHANGED <<conf, phase, st, nactive, refs, leaked, uncounted, asleep>>

\* A sleeper that was woken looks again; one that got a signal goes on.
Recheck(i) ==
  /\ pc[i] = "wait"
  /\ IF i \notin asleep /\ Congested(ncount)
     THEN asleep' = asleep \union {i} /\ UNCHANGED pc
     ELSE asleep' = asleep \ {i} /\ pc' = [pc EXCEPT ![i] = "queued"]
  /\ UNCHANGED <<conf, op, phase, st, nactive, count_vars>>

\* The original ends with status r, and its clones are freed.
Ended(i, r) ==
  /\ pc' = [pc EXCEPT ![i] = IF r = "ok" THEN "ok" ELSE "error"]
  /\ op' = [op EXCEPT ![i] = "read"]
  /\ phase' = [phase EXCEPT ![i] = None] /\ st' = [st EXCEPT ![i] = AllOk]

\* pxd_bio_make_request_entryfn with the fast path off, under the read lock:
\* pxd_reroute_slowpath counts the IO and sends it, or has no memory for it.
RouteSlow(i, sent) ==
  /\ build = "makereq" /\ pc[i] = "queued" /\ ~suspended /\ ~fast
  /\ IF sent
     THEN pc' = [pc EXCEPT ![i] = "slow"] /\ ncount' = ncount + 1 /\ UNCHANGED <<op, phase, st>>
     ELSE Ended(i, "eio") /\ UNCHANGED ncount
  /\ UNCHANGED <<conf, nactive, refs, leaked, uncounted, asleep>>

\* clone_and_map counts the IO before any of its error paths, and none counts
\* it down: an unsupported operation, no memory for the root or for a clone.
\* clone_cleanup puts what was taken.
MapFails(i, r) ==
  /\ build = "blkmq" /\ pc[i] = "queued"
  /\ r = "notsupp" <=> op[i] = "other"
  /\ ncount' = ncount + 1 /\ uncounted' = uncounted + 1
  /\ Ended(i, r)
  /\ UNCHANGED <<conf, nactive, refs, leaked, asleep>>

\* __pxd_init_block_head: no memory for the clone of file k.  The clones made
\* before it are freed and their files never put.
InitHeadFails(i, k) ==
  /\ build = "makereq" /\ pc[i] = "queued" /\ ~suspended /\ fast
  /\ k \in Targets(op[i]) /\ \A f \in 0 .. k - 1 : leaked[f] < MaxLeaked
  /\ refs' = Refs(0 .. k - 1, 1)
  /\ leaked' = [f \in Files |-> IF f < k THEN leaked[f] + 1 ELSE leaked[f]]
  /\ Ended(i, "nomem")
  /\ UNCHANGED <<conf, nactive, ncount, uncounted, asleep>>

\* Mutant: only the replicas are counted, not the head.
CloneUncounted(i) ==
  /\ pc[i] = "queued" /\ op[i] # "other"
  /\ build = "makereq" => ~suspended /\ fast
  /\ phase' = [phase EXCEPT ![i] = [f \in Files |-> IF f \in Targets(op[i]) THEN "ready" ELSE "none"]]
  /\ refs' = Refs(Targets(op[i]), 1)
  /\ nactive' = [nactive EXCEPT ![i] = IF op[i] = "read" THEN 1 ELSE Cardinality(Targets(op[i])) - 1]
  /\ ncount' = ncount + 1
  /\ pc' = [pc EXCEPT ![i] = "cloned"]
  /\ UNCHANGED <<conf, op, st, leaked, uncounted, asleep>>

\* clone_and_map, clone_root; __pxd_init_block_head, pxd_process_io (under the
\* read lock): every clone is made and counted before the first is submitted.
Clone(i) ==
  /\ pc[i] = "queued" /\ op[i] # "other"
  /\ build = "makereq" => ~suspended /\ fast
  /\ phase' = [phase EXCEPT ![i] = [f \in Files |-> IF f \in Targets(op[i]) THEN "ready" ELSE "none"]]
  /\ refs' = Refs(Targets(op[i]), 1)
  /\ nactive' = [nactive EXCEPT ![i] = Cardinality(Targets(op[i]))]
  /\ ncount' = ncount + 1
  /\ pc' = [pc EXCEPT ![i] = "cloned"]
  /\ UNCHANGED <<conf, op, st, leaked, uncounted, asleep>>

\* The clones are submitted one by one, and may end meanwhile; the make_request
\* build submits the head, of file 0, last.
Dispatch(i) ==
  LET ready == {f \in Files : phase[i][f] = "ready"}
      f == IF build = "makereq" /\ ready # {0} THEN Min(ready \ {0}) ELSE Min(ready)
  IN /\ ready # {}
     /\ phase' = [phase EXCEPT ![i][f] = "flight"]
     /\ UNCHANGED <<conf, pc, op, st, nactive, count_vars, asleep>>

--------------------------------------------------------------------------------
(***************************************************************************)
(* Completion                                                              *)
(***************************************************************************)

\* The block device, the discard work or the file work ends the clone; the
\* blk-mq build queues the rest to a worker (end_clone_bio).
BioEnd(i, f, s) ==
  /\ phase[i][f] = "flight"
  /\ phase' = [phase EXCEPT ![i][f] = "ended"]
  /\ st' = [st EXCEPT ![i][f] = s]
  /\ UNCHANGED <<conf, pc, op, nactive, count_vars, asleep>>

\* reconcile_status: the first error, the last file's clone first
FirstError(s, fs) ==
  LET bad == {f \in fs : s[f] # "ok"}
  IN IF bad = {} THEN "ok" ELSE s[Max(bad)]

\* remap_io_status: what is not known becomes -EIO, and fails over.
Remap(s) == IF s \in {"ok", "nospc"} THEN s ELSE "eio"

\* Mutant: the status of the head replica alone is reported.
ReconcileHead(s, fs) == s[0]

\* Mutant: a replica that is full hides one that fails with -EIO.
ReconcileFull(s, fs) ==
  LET all == {Remap(s[f]) : f \in fs}
  IN IF "nospc" \in all THEN "nospc" ELSE IF "eio" \in all THEN "eio" ELSE "ok"

\* reconcile_status and reconcile_io_status, where -EIO of any replica wins
Reconcile(s, fs) ==
  IF build = "blkmq" THEN FirstError(s, fs)
  ELSE LET all == {Remap(s[f]) : f \in fs}
       IN IF "eio" \in all THEN "eio" ELSE IF "nospc" \in all THEN "nospc" ELSE "ok"

\* A clone has been handled that is not the last one.
CloneDone(i, f) ==
  /\ phase[i][f] = "ended" /\ nactive[i] # 1
  /\ phase' = [phase EXCEPT ![i][f] = "done"]
  /\ nactive' = [nactive EXCEPT ![i] = @ - 1]
  /\ refs' = IF build = "makereq" THEN Refs({f}, -1) ELSE refs
  /\ UNCHANGED <<conf, pc, op, st, ncount, leaked, uncounted, asleep>>

\* Mutant: the last clone of a make_request IO puts no file.
HeldNone(i, f) == IF build = "makereq" THEN {} ELSE Targets(op[i])

\* the files whose references the end of the last clone f puts
Held(i, f) == IF build = "makereq" THEN {f} ELSE Targets(op[i])

\* the status the last clone of i gives the original
Final(i) == IF force_fail THEN "eio" ELSE Reconcile(st[i], Targets(op[i]))

\* _end_clone_bio, pxd_complete_io: the last clone ends the original, and the
\* clones are freed.
IOEnds(i, f) ==
  /\ phase[i][f] = "ended" /\ nactive[i] = 1
  /\ ~(can_failover /\ Final(i) = "eio")
  /\ nactive' = [nactive EXCEPT ![i] = 0]
  /\ refs' = Refs(Held(i, f), -1)
  /\ ncount' = ncount - 1
  /\ asleep' = Wake(ncount - 1)
  /\ Ended(i, Final(i))
  /\ UNCHANGED <<conf, leaked, uncounted>>

\* -EIO on a device that can fail over: pxd_failover_initiate queues the IO's
\* work.  The blk-mq build keeps the clones, and the IO counted, until then.
IOFails(i, f) ==
  /\ phase[i][f] = "ended" /\ nactive[i] = 1
  /\ can_failover /\ Final(i) = "eio"
  /\ phase' = [phase EXCEPT ![i][f] = "done"]
  /\ nactive' = [nactive EXCEPT ![i] = 0]
  /\ pc' = [pc EXCEPT ![i] = "failing"]
  /\ IF build = "makereq"
     THEN refs' = Refs({f}, -1) /\ ncount' = ncount - 1 /\ asleep' = Wake(ncount - 1)
     ELSE UNCHANGED <<refs, ncount, asleep>>
  /\ UNCHANGED <<conf, op, st, leaked, uncounted>>

\* The clones of a failed IO are freed, and it goes down the slow path, where
\* pxd_request counts it, or ends with -EIO.  The blk-mq build has it counted still.
Unmap(i, reroute) ==
  /\ IF build = "blkmq"
     THEN refs' = Refs(Targets(op[i]), -1) /\ uncounted' = uncounted + 1
     ELSE UNCHANGED <<refs, uncounted>>
  /\ IF reroute
     THEN /\ pc' = [pc EXCEPT ![i] = "slow"] /\ ncount' = ncount + 1
          /\ phase' = [phase EXCEPT ![i] = None] /\ st' = [st EXCEPT ![i] = AllOk] /\ UNCHANGED op
     ELSE Ended(i, "eio") /\ UNCHANGED ncount
  /\ UNCHANGED <<conf, nactive, leaked>>

\* pxd_io_failover queues the IO: a failover is active, or it starts one, which
\* it does only on the fast path.  It ends by looking for sleepers.
FailQ(i) ==
  /\ pc[i] = "failing"
  /\ fast \/ \E j \in IOs : pc[j] = "failed"
  /\ pc' = [pc EXCEPT ![i] = "failed"]
  /\ asleep' = Wake(ncount)
  /\ UNCHANGED <<conf, op, phase, st, nactive, count_vars>>

\* pxd_io_failover after the path was disabled: the IO is sent at once.
Reroute(i, sent) ==
  /\ pc[i] = "failing" /\ ~fast
  /\ Unmap(i, sent)
  /\ asleep' = Wake(ncount')

\* __pxd_abortfailQ, when the daemon cannot be asked: pxd_io_failover looks for
\* sleepers once the queue is empty.
AbortFailQ(i) ==
  /\ pc[i] = "failed"
  /\ Unmap(i, FALSE)
  /\ asleep' = IF \E j \in IOs \ {i} : pc[j] = "failed" THEN asleep ELSE Wake(ncount)

\* pxd_reissuefailQ, when the daemon has answered: it wakes nobody.  Only after
\* the path was disabled is an IO sent.
Reissue(i, sent) ==
  /\ pc[i] = "failed" /\ (sent => ~fast)
  /\ Unmap(i, sent)
  /\ UNCHANGED asleep

\* pxd_request_complete
SlowEnd(i) ==
  /\ pc[i] = "slow"
  /\ ncount' = ncount - 1
  /\ asleep' = Wake(ncount - 1)
  /\ (Ended(i, "ok") \/ Ended(i, "eio"))
  /\ UNCHANGED <<conf, nactive, refs, leaked, uncounted>>

\* pxd_debug_store 'Y'
ForceFail ==
  /\ ~force_fail /\ force_fail' = TRUE
  /\ UNCHANGED <<build, can_failover, suspended, fast, qdepth, io_vars, count_vars, asleep>>

\* disableFastPath suspends the device (the make_request build waits for the IO
\* that is being submitted), flushes the works, clears the path and resumes.
\* Clones in flight stay so, and an IO may still fail after the flush.
PathOff ==
  /\ fast /\ fast' = FALSE /\ can_failover' = FALSE
  /\ \A i \in IOs : IF build = "blkmq" THEN pc[i] # "queued"
                    ELSE \A f \in Files : phase[i][f] # "ready"
  /\ asleep' = Wake(ncount)
  /\ UNCHANGED <<build, force_fail, suspended, qdepth, io_vars, count_vars>>

Step(i) ==
  \/ Recheck(i) \/ Clone(i) \/ Dispatch(i) \/ SlowEnd(i)
  \/ \E r \in {"notsupp", "nomem"} : MapFails(i, r)
  \/ \E k \in Files : InitHeadFails(i, k)
  \/ \E f \in Files, s \in Status : BioEnd(i, f, s)
  \/ \E f \in Files : CloneDone(i, f) \/ IOEnds(i, f) \/ IOFails(i, f)
  \/ FailQ(i) \/ AbortFailQ(i)
  \/ \E b \in BOOLEAN : RouteSlow(i, b) \/ Reroute(i, b) \/ Reissue(i, b)

Next ==
  \/ \E i \in IOs : Step(i) \/ \E o \in Ops : Submit(i, o) \/ \E b \in BOOLEAN : SubmitSlow(i, o, b)
  \/ \E q \in Depths : CongestionSet(q)
  \/ Suspend \/ Resume \/ ForceFail \/ PathOff

Spec == Init /\ [][Next]_vars

--------------------------------------------------------------------------------
(***************************************************************************)
(* Properties                                                              *)
(***************************************************************************)
TypeOK ==
  /\ build \in Builds
  /\ can_failover \in BOOLEAN /\ force_fail \in BOOLEAN /\ suspended \in BOOLEAN /\ fast \in BOOLEAN
  /\ pc \in [IOs -> {"ok", "error", "wait", "queued", "cloned", "failing", "failed", "slow"}]
  /\ op \in [IOs -> Ops]
  /\ phase \in [IOs -> [Files -> {"none", "ready", "flight", "ended", "done"}]]
  /\ st \in [IOs -> [Files -> Status]]
  /\ nactive \in [IOs -> 0 .. NFiles]
  /\ refs \in [Files -> Nat] /\ ncount \in Nat /\ uncounted \in Nat
  /\ leaked \in [Files -> 0 .. MaxLeaked]
  /\ qdepth \in Depths /\ asleep \subseteq IOs

Busy(i) == pc[i] \in {"cloned", "failing", "failed"}

\* the IOs that ncount stands for
Underway ==
  {i \in IOs : pc[i] \in {"cloned", "slow"} \/ (build = "blkmq" /\ pc[i] \in {"failing", "failed"})}

\* The original ends after its last clone: no clone is in flight, with pages of
\* an IO that its submitter has already got back (nactive in _end_clone_bio,
\* head->active in pxd_complete_io).
NoCloneOutlives ==
  [][\A i \in IOs : pc[i] = "cloned" /\ pc'[i] # "cloned"
       => \A f \in Files : phase[i][f] \notin {"ready", "flight"}]_vars

\* An IO that ends with success on the fast path has reached every file it had
\* to, without an error on any of them (reconcile_status, reconcile_io_status).
SuccessOnEveryFile ==
  [][\A i \in IOs : pc[i] = "cloned" /\ pc'[i] = "ok"
       => \A f \in Targets(op[i]) : phase[i][f] \in {"ended", "done"} /\ st[i][f] = "ok"]_vars

\* While a device can fail over and -EIO came from one of its files, the
\* make_request build never gives the application an error instead; the
\* blk-mq build may, when another file failed with another error.
EioFailsOver ==
  [][\A i \in IOs : build = "makereq" /\ can_failover /\ pc[i] = "cloned" /\ pc'[i] = "error"
       => \A f \in Targets(op[i]) : st[i][f] # "eio"]_vars

\* get_file and fput: with no IO on the fast path every reference has been put,
\* except those that __pxd_init_block_head drops when memory is short.
FilesReleased ==
  (\A i \in IOs : ~Busy(i)) => refs = leaked

\* ncount is the number of IOs under way (pxd_core.h: "total active requests"),
\* exactly so in the make_request build.  In the blk-mq build every IO that
\* clone_and_map refuses or that fails over stays counted for good.
CountedWhileActive ==
  /\ ncount = Cardinality(Underway) + uncounted
  /\ build = "makereq" => uncounted = 0

\* The files' references and ncount follow the IOs, on the error paths too.
CountsSound == TypeOK /\ FilesReleased /\ CountedWhileActive

\* A submitter sleeps on suspend_wq only while the device is suspended or an IO
\* is counted whose end wakes it, also when qdepth was raised meanwhile.  A
\* failed IO of the make_request build is not counted, and its reissue wakes nobody.
SleeperIsWoken == asleep # {} => suspended \/ Underway # {}

================================================================================
