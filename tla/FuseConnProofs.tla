----------------------------- MODULE FuseConnProofs -----------------------------
(***************************************************************************)
(* Proofs about the connection, for any number of tags, ids, readers and   *)
(* repliers and one daemon that comes and goes: the control file and the   *)
(* abort work; RCU; wake-ups; the ids, the lists and the order of the      *)
(* requests; that the slow path implements BlockIO.  Last, the abort timer *)
(* with any number of writers of the sysfs timeout.                        *)
(***************************************************************************)
EXTENDS FuseConn, TLAPS

Up == {"allow", "setup", "open"}

\* The control invariant.  AbortNeverConnected is not inductive: that the
\* timer never fires on a connection that is up follows from the connection
\* having an opener past its cancel, and from nothing arming the work there.
ControlInv ==
  /\ opc \in [Openers -> OpenStages] /\ stage \in Stages
  /\ AbortQuietWhileOpen
  /\ AbortNeverConnected
  /\ \A p \in Openers : opc[p] \in Up => connected
  /\ connected => \E p \in Openers : opc[p] \in Up
  /\ \A p \in Openers : opc[p] \in {"setup", "open"} => allow_disconnected
  /\ \A p \in Openers : opc[p] = "open" => devs_connected

\* The steps of the control file and the abort work that FuseConn takes.
ControlStep ==
  \/ \E p \in Openers : OpenerNext(p)
  \/ AbortNext
  \/ UNCHANGED control_vars

\* Every step of the composition is a control step or leaves the control
\* state alone.
LEMMA StepIsControl == [Next]_vars => ControlStep
<1> SUFFICES ASSUME [Next]_vars PROVE ControlStep
  OBVIOUS
<1>1. CASE \E s \in Slots : SubmitNext(s)
  BY <1>1 DEF SubmitNext, Submit, AssignUnique, SendCheck, Enqueue, SendRefused, ControlStep
<1>2. CASE \E e \in ends : EndNext(e)
  BY <1>2 DEF EndNext, EndCallback, PutUnique, ControlStep
<1>3. CASE Wake
  BY <1>3 DEF Wake, ControlStep
<1>4. CASE \E t \in Readers : ReadNext(t)
  BY <1>4 DEF ReadNext, ReadSleep, ReadInterrupted, ReadCut, CopyOk, CopyFault, ControlStep
<1>5. CASE \E t \in Repliers : ReplyNext(t)
  BY <1>5 DEF ReplyNext, ReplyFind, ReplyUnlink, ReplyFill, ReplyFault, ControlStep
<1>6. CASE \E p \in Openers : ControlFileNext(p)
  BY <1>6 DEF ControlFileNext, Restart, OpenOther, Close, OpenerNext, ControlStep
<1>7. CASE AbortWorkNext
  BY <1>7 DEF AbortWorkNext, AbortOther, AbortBegin, AbortGrace, AbortOne, AbortDone,
              AbortNext, ControlStep
<1>8. CASE UNCHANGED vars
  BY <1>8 DEF vars, ControlStep
<1> QED BY <1>1, <1>2, <1>3, <1>4, <1>5, <1>6, <1>7, <1>8 DEF Next

\* It holds at first.
LEMMA ControlInitial == Init => ControlInv
BY DEF Init, ControlInit, ControlInv, OpenStages, Stages, Up, AbortQuietWhileOpen,
       AbortNeverConnected

\* pxd_control_open and pxd_control_release keep the invariant.
LEMMA OpenerKeeps ==
  ASSUME ControlInv, NEW p \in Openers, OpenerNext(p)
  PROVE  ControlInv'
<1> USE DEF ControlInv, AbortQuietWhileOpen, AbortNeverConnected, OpenStages, Stages, Up,
            OpenStep, conn_vars, work_vars
<1>0. \A q \in Openers : q = p
  BY OneDaemon
<1>1. CASE OpenCheck(p)
  BY <1>0, <1>1 DEF OpenCheck
<1>2. CASE OpenCancel(p)
  BY <1>0, <1>2 DEF OpenCancel
<1>3. CASE OpenRestart(p)
  BY <1>0, <1>3 DEF OpenRestart
<1>4. CASE OpenConnect(p)
  BY <1>0, <1>4 DEF OpenConnect
<1>5. CASE OpenAllow(p)
  BY <1>0, <1>5 DEF OpenAllow
<1>6. CASE OpenSetup(p)
  BY <1>0, <1>6 DEF OpenSetup
<1>7. CASE Release(p)
  BY <1>0, <1>7 DEF Release
<1> QED BY <1>1, <1>2, <1>3, <1>4, <1>5, <1>6, <1>7 DEF OpenerNext

\* pxd_abort_context keeps the invariant.
LEMMA AbortKeeps ==
  ASSUME ControlInv, AbortNext
  PROVE  ControlInv'
<1> USE DEF ControlInv, AbortQuietWhileOpen, AbortNeverConnected, OpenStages, Stages, Up,
            WorkStep, conn_vars
<1>1. CASE AbortFire
  <2>1. ~connected
    BY <1>1 DEF AbortFire
  <2> QED BY <1>1, <2>1 DEF AbortFire
<1>2. CASE AbortDisallow
  BY <1>2 DEF AbortDisallow
<1>3. CASE AbortSync
  BY <1>3 DEF AbortSync
<1>4. CASE AbortDrained
  BY <1>4 DEF AbortDrained
<1>5. CASE AbortSetup
  BY <1>5 DEF AbortSetup
<1> QED BY <1>1, <1>2, <1>3, <1>4, <1>5 DEF AbortNext

\* Every step keeps it.
LEMMA ControlKept == ControlInv /\ [Next]_vars => ControlInv'
<1> SUFFICES ASSUME ControlInv, [Next]_vars PROVE ControlInv'
  OBVIOUS
<1>1. ControlStep
  BY StepIsControl
<1>2. CASE \E p \in Openers : OpenerNext(p)
  BY <1>2, OpenerKeeps
<1>3. CASE AbortNext
  BY <1>3, AbortKeeps
<1>4. CASE UNCHANGED control_vars
  BY <1>4 DEF control_vars, conn_vars, work_vars, ControlInv, AbortQuietWhileOpen,
              AbortNeverConnected
<1> QED BY <1>1, <1>2, <1>3, <1>4 DEF ControlStep

--------------------------------------------------------------------------------
\* With one daemon and no write of the sysfs timeout, the BUG_ON of
\* pxd_abort_context (pxd.c:2447) never fires, however often the daemon
\* dies and whatever the requests do.
THEOREM AbortSafe == Spec => []AbortNeverConnected
<1>1. ControlInv => AbortNeverConnected
  BY DEF ControlInv
<1> QED BY ControlInitial, ControlKept, <1>1, PTL DEF Spec

\* From the cancel of pxd_control_open to the next close, the abort work
\* neither runs nor waits to run (pxd.c:2384).
THEOREM QuietSafe == Spec => []AbortQuietWhileOpen
<1>1. ControlInv => AbortQuietWhileOpen
  BY DEF ControlInv
<1> QED BY ControlInitial, ControlKept, <1>1, PTL DEF Spec

\* When pxd_control_open has returned, IO is admitted and the devices are
\* connected, whatever an earlier abort cleared.
THEOREM OpenSafe == Spec => []OpenIsUp
<1>1. ControlInv => OpenIsUp
  BY DEF ControlInv, OpenIsUp, Up
<1> QED BY ControlInitial, ControlKept, <1>1, PTL DEF Spec

--------------------------------------------------------------------------------
(***************************************************************************)
(* The abort and RCU                                                       *)
(***************************************************************************)

Senders == {s \in Slots : spc[s] = "rcu"}

\* AbortLeavesNothing is the end of the abort; this is its course.  Once the
\* connection is disallowed no sender enters an RCU section, those inside are
\* waited for, and what they have queued is drained.
AbortInv ==
  /\ spc \in [Slots -> SlotStages] /\ grace \subseteq Slots
  /\ stage \in {"sync", "drain", "setup"} => ~allow_disconnected
  /\ stage = "sync" => Senders \subseteq grace
  /\ stage = "drain" => Senders = {}
  /\ AbortLeavesNothing

\* While the work runs, or nobody is admitted, the file is not open.
LEMMA AbortMeansClosed ==
  ASSUME ControlInv, ~connected \/ stage # "idle"
  PROVE  ~SessionOpen /\ ~connected
BY DEF ControlInv, AbortQuietWhileOpen, Up, SessionOpen

\* The steps of the requests that are taken while the file is closed.
LEMMA AbortKept ==
  ASSUME ControlInv, AbortInv, [Next]_vars
  PROVE  AbortInv'
<1> USE DEF AbortInv, AbortLeavesNothing, Senders
<1>1. ASSUME NEW s \in Slots, SubmitNext(s) PROVE AbortInv'
  <2> USE DEF SlotStep, SlotStages, control_vars, conn_vars, work_vars, list_vars
  <2>1. CASE Submit(s)
    BY <2>1 DEF Submit
  <2>2. CASE AssignUnique(s)
    BY <2>2 DEF AssignUnique
  <2>3. CASE SendCheck(s)
    BY <2>3, AbortMeansClosed DEF SendCheck
  <2>4. CASE Enqueue(s)
    BY <2>4 DEF Enqueue
  <2>5. CASE SendRefused(s)
    BY <2>5 DEF SendRefused, BeginEnd
  <2> QED BY <1>1, <2>1, <2>2, <2>3, <2>4, <2>5 DEF SubmitNext
<1>2. ASSUME NEW e \in ends, EndNext(e) PROVE AbortInv'
  BY <1>2 DEF EndNext, EndCallback, PutUnique, SlotStages, control_vars, conn_vars, work_vars,
              list_vars, slot_vars
<1>3. CASE Wake
  BY <1>3 DEF Wake, control_vars, conn_vars, work_vars, list_vars, slot_vars
<1>4. ASSUME NEW t \in Readers, ReadNext(t) PROVE AbortInv'
  <2>1. SessionOpen /\ connected /\ stage = "idle" /\ UNCHANGED control_vars /\ grace' = grace
    BY <1>4, AbortMeansClosed DEF ReadNext, ReadSleep, ReadInterrupted, ReadCut, CopyOk, CopyFault, InCall,
                                  ControlInv
  <2>2. spc' \in [Slots -> SlotStages]
    BY <1>4 DEF ReadNext, ReadSleep, ReadInterrupted, ReadCut, CopyOk, CopyFault, BeginEnd, slot_vars,
                SlotStages
  <2> QED BY <2>1, <2>2 DEF control_vars, conn_vars, work_vars
<1>5. ASSUME NEW t \in Repliers, ReplyNext(t) PROVE AbortInv'
  <2>1. SessionOpen /\ connected /\ stage = "idle" /\ UNCHANGED control_vars /\ grace' = grace
    BY <1>5, AbortMeansClosed DEF ReplyNext, ReplyFind, ReplyUnlink, ReplyFill, ReplyFault, InCall, ControlInv
  <2>2. spc' \in [Slots -> SlotStages]
    BY <1>5 DEF ReplyNext, ReplyFind, ReplyUnlink, ReplyFill, ReplyFault, BeginEnd, slot_vars, SlotStages
  <2> QED BY <2>1, <2>2 DEF control_vars, conn_vars, work_vars
<1>6. ASSUME NEW p \in Openers, ControlFileNext(p) PROVE AbortInv'
  <2> USE DEF OpenStep, conn_vars, work_vars, list_vars, slot_vars
  <2>1. CASE Restart(p)
    BY <2>1 DEF Restart, OpenRestart
  <2>2. CASE OpenOther(p)
    BY <2>2 DEF OpenOther, OpenCheck, OpenCancel, OpenConnect, OpenAllow, OpenSetup, ControlInv,
                AbortQuietWhileOpen, request_vars
  <2>3. CASE Close(p)
    BY <2>3 DEF Close, Release, ControlInv, AbortQuietWhileOpen
  <2> QED BY <1>6, <2>1, <2>2, <2>3 DEF ControlFileNext
<1>7. CASE AbortWorkNext
  <2> USE DEF WorkStep, conn_vars, list_vars, slot_vars, request_vars
  <2>1. CASE AbortOther
    BY <2>1 DEF AbortOther, AbortFire, AbortSetup
  <2>2. CASE AbortBegin
    BY <2>2 DEF AbortBegin, AbortDisallow
  <2>3. CASE AbortGrace
    BY <2>3 DEF AbortGrace, AbortSync
  <2>4. CASE AbortOne
    BY <2>4 DEF AbortOne, BeginEnd, SlotStages, control_vars, work_vars
  <2>5. CASE AbortDone
    BY <2>5 DEF AbortDone, AbortDrained
  <2> QED BY <1>7, <2>1, <2>2, <2>3, <2>4, <2>5 DEF AbortWorkNext
<1>8. CASE UNCHANGED vars
  BY <1>8 DEF vars, control_vars, conn_vars, work_vars, request_vars, list_vars, slot_vars
<1> QED BY <1>1, <1>2, <1>3, <1>4, <1>5, <1>6, <1>7, <1>8 DEF Next

\* When the abort has run and no daemon is back, no request is left on a list and
\* no sender is on its way to one: fuse_request_send_nowait's check under RCU
\* against allow_disconnected = 0 and synchronize_rcu (dev.c:253, pxd.c:2453).
THEOREM NothingLeft == Spec => []AbortLeavesNothing
<1>1. Init => AbortInv
  BY DEF Init, ControlInit, AbortInv, AbortLeavesNothing, Senders, SlotStages
<1>2. AbortInv => AbortLeavesNothing
  BY DEF AbortInv
<1> QED BY ControlInitial, ControlKept, AbortKept, <1>1, <1>2, PTL DEF Spec

--------------------------------------------------------------------------------
(***************************************************************************)
(* Wake-ups                                                                *)
(***************************************************************************)
Awake == \E t \in Readers : tpc[t] # "sleep"

\* Nobody sleeps while the file is closed, so that a restart, which wakes nobody,
\* cannot leave requests behind sleepers.
WakeInv ==
  /\ tpc \in [Threads -> {"run", "sleep", "copy", "found", "fill"}] /\ wakes \in Nat
  /\ \A t \in Threads : tpc[t] = "sleep" => t \in Readers
  /\ ~SessionOpen => Awake
  /\ pending # <<>> => wakes > 0 \/ Awake

\* list_del on an empty list.
LEMMA WithoutEmpty == \A s : Without(<<>>, s) = <<>>
BY DEF Without, On

\* Every step keeps it.
LEMMA WakeKept ==
  ASSUME WakeInv, ControlInv, [Next]_vars
  PROVE  WakeInv'
<1> USE DEF WakeInv, Awake, SessionOpen, Threads
<1>1. ASSUME NEW s \in Slots, SubmitNext(s) PROVE WakeInv'
  BY <1>1, ConnAssumption DEF SubmitNext, Submit, AssignUnique, SendCheck, Enqueue, SendRefused, list_vars, daemon_vars,
              control_vars
<1>2. ASSUME NEW e \in ends, EndNext(e) PROVE WakeInv'
  BY <1>2 DEF EndNext, EndCallback, PutUnique, list_vars, daemon_vars, control_vars
<1>3. CASE Wake
  <2>1. wakes' \in Nat /\ UNCHANGED <<opc, pending>>
    BY <1>3 DEF Wake, list_vars, control_vars
  <2>2. Awake'
    <3>1. PICK r \in Readers : TRUE
      BY ConnAssumption
    <3>2. CASE {t \in Threads : tpc[t] = "sleep"} = {} /\ UNCHANGED tpc
      BY <3>1, <3>2
    <3>3. ASSUME NEW t \in Threads, tpc[t] = "sleep", tpc' = [tpc EXCEPT ![t] = "run"] PROVE Awake'
      BY <3>3
    <3> QED BY <1>3, <3>2, <3>3 DEF Wake
  <2> QED BY <1>3, <2>1, <2>2 DEF Wake
<1>4. ASSUME NEW t \in Readers, ReadNext(t) PROVE WakeInv'
  <2> USE DEF list_vars, control_vars, InCall
  <2>1. CASE ReadSleep(t)
    BY <2>1 DEF ReadSleep
  <2>2. CASE ReadInterrupted(t)
    BY <2>2 DEF ReadInterrupted
  <2>3. CASE ReadCut(t)
    BY <2>3 DEF ReadCut
  <2>4. CASE CopyOk(t)
    BY <2>4 DEF CopyOk, NextCopy
  <2>5. CASE CopyFault(t)
    BY <2>5 DEF CopyFault, NextCopy
  <2> QED BY <1>4, <2>1, <2>2, <2>3, <2>4, <2>5 DEF ReadNext
<1>5. ASSUME NEW t \in Repliers, ReplyNext(t) PROVE WakeInv'
  BY <1>5, WithoutEmpty DEF ReplyNext, ReplyFind, ReplyUnlink, ReplyFill, ReplyFault, Unlink, InCall, list_vars,
                            control_vars
<1>6. ASSUME NEW p \in Openers, ControlFileNext(p) PROVE WakeInv'
  <2>0. \A q \in Openers : q = p
    BY OneDaemon
  <2>1. CASE Restart(p)
    BY <2>0, <2>1 DEF Restart, OpenRestart, OpenStep, ControlInv, daemon_vars
  <2>2. CASE OpenOther(p)
    BY <2>0, <2>2 DEF OpenOther, OpenCheck, OpenCancel, OpenConnect, OpenAllow, OpenSetup, OpenStep, ControlInv,
                daemon_vars, list_vars, request_vars
  <2>3. CASE Close(p)
    BY <2>0, <2>3, ConnAssumption DEF Close, list_vars
  <2> QED BY <1>6, <2>1, <2>2, <2>3 DEF ControlFileNext
<1>7. CASE AbortWorkNext
  BY <1>7 DEF AbortWorkNext, AbortOther, AbortBegin, AbortGrace, AbortOne, AbortDone, AbortFire, AbortSetup,
              AbortDisallow, AbortSync, AbortDrained, WorkStep, list_vars, daemon_vars, request_vars, control_vars
<1>8. CASE UNCHANGED vars
  BY <1>8 DEF vars, control_vars, request_vars, list_vars, daemon_vars
<1> QED BY <1>1, <1>2, <1>3, <1>4, <1>5, <1>6, <1>7, <1>8 DEF Next

\* A queued request never waits while every reader sleeps and no wake_up is still
\* to come: exclusive wake-ups after the lock is released are enough (dev.c:281).
THEOREM WakeSafe == Spec => []NoLostWake
<1>1. Init => WakeInv
  BY ConnAssumption DEF Init, WakeInv, Awake, Threads
<1>2. WakeInv => NoLostWake
  BY DEF WakeInv, NoLostWake, Awake
<1> QED BY ControlInitial, ControlKept, WakeKept, <1>1, <1>2, PTL DEF Spec

--------------------------------------------------------------------------------
(***************************************************************************)
(* Lists: what list_del, a cut, a splice and an append do to the members     *)
(* of a list and to their order.                                             *)
(***************************************************************************)

\* The list without the entry at position k.
LEMMA CutOut ==
  ASSUME NEW S, NEW l \in Seq(S), NEW k \in 1 .. Len(l)
  PROVE  LET w == SubSeq(l, 1, k - 1) \o SubSeq(l, k + 1, Len(l))
         IN  /\ w \in Seq(S) /\ Len(w) = Len(l) - 1
             /\ \A i \in 1 .. Len(l) - 1 : w[i] = IF i < k THEN l[i] ELSE l[i + 1]
<1> DEFINE a == SubSeq(l, 1, k - 1)
           b == SubSeq(l, k + 1, Len(l))
<1>0. Len(l) \in Nat /\ k \in Nat
  OBVIOUS
<1>1. a \in Seq(S) /\ Len(a) = k - 1 /\ \A i \in 1 .. k - 1 : a[i] = l[i]
  BY <1>0
<1>2. b \in Seq(S) /\ Len(b) = Len(l) - k /\ \A i \in 1 .. Len(l) - k : b[i] = l[i + k]
  BY <1>0
<1> HIDE DEF a, b
<1>3. (a \o b) \in Seq(S) /\ Len(a \o b) = Len(l) - 1
  <2>0. a \in Seq(S) /\ b \in Seq(S)
    BY <1>1, <1>2
  <2>1. (a \o b) \in Seq(S) /\ Len(a \o b) = Len(a) + Len(b)
    BY <2>0
  <2>2. (k - 1) + (Len(l) - k) = Len(l) - 1
    BY <1>0
  <2> QED BY <1>1, <1>2, <2>1, <2>2
<1>4. ASSUME NEW i \in 1 .. Len(l) - 1 PROVE (a \o b)[i] = IF i < k THEN l[i] ELSE l[i + 1]
  <2>1. CASE i < k
    <3>1. i \in 1 .. Len(a)
      BY <1>0, <1>1, <2>1
    <3>2. (a \o b)[i] = a[i]
      BY <1>1, <1>2, <3>1
    <3> QED BY <1>0, <1>1, <2>1, <3>1, <3>2
  <2>2. CASE ~(i < k)
    <3>1. i \in Len(a) + 1 .. Len(a) + Len(b) /\ i - Len(a) \in 1 .. Len(l) - k /\ i - Len(a) + k = i + 1
      BY <1>0, <1>1, <1>2, <2>2
    <3>2. (a \o b)[i] = b[i - Len(a)]
      BY <1>1, <1>2, <3>1
    <3> QED BY <1>2, <2>2, <3>1, <3>2
  <2> QED BY <2>1, <2>2
<1> QED BY <1>3, <1>4 DEF a, b

\* r comes before s on the list.
Precedes(list, r, s) == \E j, k \in DOMAIN list : j < k /\ list[j] = r /\ list[k] = s

\* list_del takes s, and nothing else, off a list.
LEMMA WithoutIs ==
  ASSUME NEW S, NEW l \in Seq(S), NoRepeats(l), NEW s
  PROVE  /\ Without(l, s) \in Seq(S) /\ NoRepeats(Without(l, s))
         /\ On(Without(l, s)) = On(l) \ {s}
         /\ \A r, q : Precedes(Without(l, s), r, q) <=> Precedes(l, r, q) /\ r # s /\ q # s
<1>1. CASE s \notin On(l)
  BY <1>1 DEF Without, On, Precedes
<1>2. CASE s \in On(l)
  <2> DEFINE k == CHOOSE j \in DOMAIN l : l[j] = s
             w == Without(l, s)
             n == Len(l)
  <2>1. k \in 1 .. n /\ l[k] = s
    BY <1>2 DEF On
  <2>2. w = SubSeq(l, 1, k - 1) \o SubSeq(l, k + 1, Len(l))
    BY <1>2 DEF Without
  <2>3. n \in Nat /\ DOMAIN l = 1 .. n
    OBVIOUS
  <2> HIDE DEF k, w
  <2>4. w \in Seq(S) /\ Len(w) = n - 1 /\ \A i \in 1 .. n - 1 : w[i] = IF i < k THEN l[i] ELSE l[i + 1]
    BY <2>1, <2>2, CutOut
  <2>5. DOMAIN w = 1 .. n - 1
    BY <2>4
  <2> HIDE DEF n
  <2>6. \A i, j \in 1 .. n : l[i] = l[j] => i = j
    BY <2>3 DEF NoRepeats
  <2>7. NoRepeats(w)
    BY <2>1, <2>3, <2>4, <2>5, <2>6 DEF NoRepeats
  <2>8. On(w) = On(l) \ {s}
    <3>1. ASSUME NEW x \in On(w) PROVE x \in On(l) \ {s}
      BY <2>1, <2>3, <2>4, <2>5, <2>6, <3>1 DEF On
    <3>2. ASSUME NEW x \in On(l), x # s PROVE x \in On(w)
      <4>1. PICK j \in 1 .. n : l[j] = x
        BY <2>3 DEF On
      <4>2. CASE j < k
        BY <2>1, <2>3, <2>4, <2>5, <4>1, <4>2 DEF On
      <4>3. CASE j > k
        <5>1. j - 1 \in 1 .. n - 1 /\ ~(j - 1 < k) /\ j - 1 + 1 = j
          BY <2>1, <2>3, <4>3
        <5> QED BY <2>4, <2>5, <4>1, <5>1 DEF On
      <4> QED BY <2>1, <2>3, <3>2, <4>1, <4>2, <4>3
    <3> QED BY <3>1, <3>2
  <2>9. ASSUME NEW r, NEW q, Precedes(w, r, q) PROVE Precedes(l, r, q) /\ r # s /\ q # s
    <3>1. PICK i, j \in 1 .. n - 1 : i < j /\ w[i] = r /\ w[j] = q
      BY <2>5, <2>9 DEF Precedes
    <3> DEFINE up(x) == IF x < k THEN x ELSE x + 1
    <3>2. up(i) \in 1 .. n /\ up(j) \in 1 .. n /\ up(i) < up(j) /\ up(i) # k /\ up(j) # k
      BY <2>1, <2>3, <3>1
    <3>3. l[up(i)] = r /\ l[up(j)] = q
      BY <2>4, <3>1
    <3> HIDE DEF up
    <3> QED BY <2>1, <2>3, <2>6, <3>2, <3>3 DEF Precedes
  <2>10. ASSUME NEW r, NEW q, Precedes(l, r, q), r # s, q # s PROVE Precedes(w, r, q)
    <3>1. PICK i, j \in 1 .. n : i < j /\ l[i] = r /\ l[j] = q
      BY <2>3, <2>10 DEF Precedes
    <3>0. i # k /\ j # k
      BY <2>1, <2>10, <3>1
    <3> DEFINE down(x) == IF x < k THEN x ELSE x - 1
    <3>2. down(i) \in 1 .. n - 1 /\ down(j) \in 1 .. n - 1 /\ down(i) < down(j)
      BY <2>1, <2>3, <3>0, <3>1
    <3>3. w[down(i)] = r /\ w[down(j)] = q
      <4>1. ASSUME NEW x \in 1 .. n, x # k PROVE w[down(x)] = l[x]
        <5>1. CASE x < k
          BY <2>1, <2>3, <2>4, <5>1
        <5>2. CASE x > k
          <6>1. x - 1 \in 1 .. n - 1 /\ ~(x - 1 < k) /\ x - 1 + 1 = x /\ ~(x < k)
            BY <2>1, <2>3, <5>2
          <6> QED BY <2>4, <6>1
        <5> QED BY <2>1, <2>3, <4>1, <5>1, <5>2
      <4> QED BY <3>0, <3>1, <4>1
    <3> HIDE DEF down
    <3> QED BY <2>5, <3>2, <3>3 DEF Precedes
  <2> QED BY <2>4, <2>7, <2>8, <2>9, <2>10 DEF w
<1> QED BY <1>1, <1>2

\* So does taking the head.
LEMMA TailIs ==
  ASSUME NEW S, NEW l \in Seq(S), NoRepeats(l), l # <<>>
  PROVE  /\ Head(l) \in On(l) /\ Head(l) \in S /\ Tail(l) \in Seq(S) /\ NoRepeats(Tail(l))
         /\ On(Tail(l)) = On(l) \ {Head(l)}
         /\ Tail(l) = Without(l, Head(l))
<1>0. Len(l) \in Nat /\ 1 \in 1 .. Len(l) /\ DOMAIN l = 1 .. Len(l) /\ Head(l) = l[1]
  OBVIOUS
<1>1. Head(l) \in On(l) /\ Head(l) \in S
  BY <1>0 DEF On
<1>2. (CHOOSE j \in DOMAIN l : l[j] = Head(l)) = 1
  BY <1>0 DEF NoRepeats
<1>3. Without(l, Head(l)) = SubSeq(l, 1, 0) \o SubSeq(l, 2, Len(l))
  <2>1. 1 - 1 = 0 /\ 1 + 1 = 2
    OBVIOUS
  <2> QED BY <1>1, <1>2, <2>1 DEF Without
<1>4. Tail(l) = Without(l, Head(l))
  <2>1. Tail(l) \in Seq(S) /\ Len(Tail(l)) = Len(l) - 1 /\ \A i \in 1 .. Len(l) - 1 : Tail(l)[i] = l[i + 1]
    BY <1>0
  <2>2. LET w == SubSeq(l, 1, 0) \o SubSeq(l, 2, Len(l))
        IN  w \in Seq(S) /\ Len(w) = Len(l) - 1 /\ \A i \in 1 .. Len(l) - 1 : w[i] = l[i + 1]
    <3>1. 1 - 1 = 0 /\ 1 + 1 = 2
      OBVIOUS
    <3> QED BY CutOut, <1>0, <3>1
  <2> QED BY <1>3, <2>1, <2>2
<1>5. /\ Without(l, Head(l)) \in Seq(S) /\ NoRepeats(Without(l, Head(l)))
      /\ On(Without(l, Head(l))) = On(l) \ {Head(l)}
  BY WithoutIs
<1> QED BY <1>1, <1>4, <1>5

\* list_splice: the members of both, those of the first before.
LEMMA JoinIs ==
  ASSUME NEW S, NEW a \in Seq(S), NEW b \in Seq(S)
  PROVE  /\ (a \o b) \in Seq(S) /\ On(a \o b) = On(a) \union On(b)
         /\ NoRepeats(a) /\ NoRepeats(b) /\ On(a) \intersect On(b) = {} => NoRepeats(a \o b)
         /\ \A r, q : Precedes(a \o b, r, q) <=> \/ Precedes(a, r, q) \/ Precedes(b, r, q)
                                                 \/ r \in On(a) /\ q \in On(b)
<1> DEFINE c == a \o b
           m == Len(a)
           n == Len(b)
<1>1. m \in Nat /\ n \in Nat /\ DOMAIN a = 1 .. m /\ DOMAIN b = 1 .. n
  OBVIOUS
<1>2. c \in Seq(S) /\ DOMAIN c = 1 .. m + n
  OBVIOUS
<1>3. /\ \A i \in 1 .. m : i \in 1 .. m + n /\ c[i] = a[i]
      /\ \A i \in 1 .. n : m + i \in 1 .. m + n /\ c[m + i] = b[i]
      /\ \A i \in 1 .. m + n : i \notin 1 .. m => i - m \in 1 .. n /\ c[i] = b[i - m]
  OBVIOUS
<1> HIDE DEF c, m, n
<1>4. On(c) = On(a) \union On(b)
  BY <1>1, <1>2, <1>3 DEF On
<1>5. ASSUME NoRepeats(a), NoRepeats(b), On(a) \intersect On(b) = {} PROVE NoRepeats(c)
  <2> SUFFICES ASSUME NEW i \in 1 .. m + n, NEW j \in 1 .. m + n, c[i] = c[j] PROVE i = j
    BY <1>2 DEF NoRepeats
  <2>0. /\ \A x, y \in 1 .. m : a[x] = a[y] => x = y
        /\ \A x, y \in 1 .. n : b[x] = b[y] => x = y
        /\ \A x \in 1 .. m, y \in 1 .. n : a[x] # b[y]
    <3>1. \A x, y \in 1 .. m : a[x] = a[y] => x = y
      BY <1>1, <1>5 DEF NoRepeats
    <3>2. \A x, y \in 1 .. n : b[x] = b[y] => x = y
      BY <1>1, <1>5 DEF NoRepeats
    <3>3. ASSUME NEW x \in 1 .. m, NEW y \in 1 .. n PROVE a[x] # b[y]
      <4>1. a[x] \in On(a) /\ b[y] \in On(b)
        BY <1>1 DEF On
      <4> QED BY <1>5, <4>1
    <3> QED BY <3>1, <3>2, <3>3
  <2>1. CASE i \in 1 .. m /\ j \in 1 .. m
    BY <1>3, <2>0, <2>1
  <2>2. CASE i \notin 1 .. m /\ j \notin 1 .. m
    <3>1. i - m = j - m
      BY <1>3, <2>0, <2>2
    <3> QED BY <1>1, <3>1
  <2>3. CASE i \in 1 .. m /\ j \notin 1 .. m
    BY <1>3, <2>0, <2>3
  <2>4. CASE i \notin 1 .. m /\ j \in 1 .. m
    BY <1>3, <2>0, <2>4
  <2> QED BY <2>1, <2>2, <2>3, <2>4
<1>6. ASSUME NEW r, NEW q, Precedes(c, r, q)
      PROVE  Precedes(a, r, q) \/ Precedes(b, r, q) \/ (r \in On(a) /\ q \in On(b))
  <2>1. PICK i, j \in 1 .. m + n : i < j /\ c[i] = r /\ c[j] = q
    BY <1>2, <1>6 DEF Precedes
  <2>2. CASE j \in 1 .. m
    <3>1. i \in 1 .. m
      BY <1>1, <2>1, <2>2
    <3> QED BY <1>1, <1>3, <2>1, <2>2, <3>1 DEF Precedes
  <2>3. CASE i \in 1 .. m /\ j \notin 1 .. m
    BY <1>1, <1>3, <2>1, <2>3 DEF On
  <2>4. CASE i \notin 1 .. m /\ j \notin 1 .. m
    <3>1. i - m < j - m
      BY <1>1, <2>1
    <3> QED BY <1>1, <1>3, <2>1, <2>4, <3>1 DEF Precedes
  <2> QED BY <2>2, <2>3, <2>4
<1>7. ASSUME NEW r, NEW q, Precedes(a, r, q) PROVE Precedes(c, r, q)
  BY <1>1, <1>2, <1>3, <1>7 DEF Precedes
<1>8. ASSUME NEW r, NEW q, Precedes(b, r, q) PROVE Precedes(c, r, q)
  <2>1. PICK i, j \in 1 .. n : i < j /\ b[i] = r /\ b[j] = q
    BY <1>1, <1>8 DEF Precedes
  <2>2. m + i < m + j
    BY <1>1, <2>1
  <2> QED BY <1>2, <1>3, <2>1, <2>2 DEF Precedes
<1>9. ASSUME NEW r \in On(a), NEW q \in On(b) PROVE Precedes(c, r, q)
  <2>1. PICK i \in 1 .. m : a[i] = r
    BY <1>1 DEF On
  <2>2. PICK j \in 1 .. n : b[j] = q
    BY <1>1 DEF On
  <2>3. i < m + j
    BY <1>1
  <2> QED BY <1>2, <1>3, <2>1, <2>2, <2>3 DEF Precedes
<1> QED BY <1>2, <1>4, <1>5, <1>6, <1>7, <1>8, <1>9 DEF c

\* A list of one.
LEMMA Single ==
  ASSUME NEW S, NEW s \in S
  PROVE  <<s>> \in Seq(S) /\ On(<<s>>) = {s} /\ NoRepeats(<<s>>) /\ \A r, q : ~Precedes(<<s>>, r, q)
BY DEF On, NoRepeats, Precedes

\* list_add_tail.
LEMMA AppendIs ==
  ASSUME NEW S, NEW l \in Seq(S), NEW s \in S
  PROVE  /\ Append(l, s) \in Seq(S) /\ On(Append(l, s)) = On(l) \union {s}
         /\ NoRepeats(l) /\ s \notin On(l) => NoRepeats(Append(l, s))
         /\ \A r, q : Precedes(Append(l, s), r, q) <=> Precedes(l, r, q) \/ (r \in On(l) /\ q = s)
<1> DEFINE e == <<s>>
           m == l \o e
<1>1. Append(l, s) = m
  OBVIOUS
<1>2. e \in Seq(S) /\ On(e) = {s} /\ NoRepeats(e) /\ \A r, q : ~Precedes(e, r, q)
  BY Single
<1> HIDE DEF e
<1>3. /\ m \in Seq(S) /\ On(m) = On(l) \union On(e)
      /\ NoRepeats(l) /\ NoRepeats(e) /\ On(l) \intersect On(e) = {} => NoRepeats(m)
      /\ \A r, q : Precedes(m, r, q) <=> (Precedes(l, r, q) \/ Precedes(e, r, q) \/ (r \in On(l) /\ q \in On(e)))
  BY <1>2, JoinIs
<1> HIDE DEF m
<1> DEFINE n == Append(l, s)
<1>4. n = m
  BY <1>1
<1> HIDE DEF n
<1>5. /\ n \in Seq(S) /\ On(n) = On(l) \union {s}
      /\ NoRepeats(l) /\ s \notin On(l) => NoRepeats(n)
      /\ \A r, q : Precedes(n, r, q) <=> Precedes(l, r, q) \/ (r \in On(l) /\ q = s)
  BY <1>2, <1>3, <1>4
<1> QED BY <1>5 DEF n

\* list_cut_position: a list is its first n entries and the rest.
LEMMA SplitIs ==
  ASSUME NEW S, NEW l \in Seq(S), NoRepeats(l), NEW n \in 1 .. Len(l)
  PROVE  LET a == SubSeq(l, 1, n)
             b == SubSeq(l, n + 1, Len(l))
         IN  /\ a \in Seq(S) /\ b \in Seq(S) /\ l = a \o b /\ a # <<>>
             /\ NoRepeats(a) /\ NoRepeats(b)
             /\ On(a) \intersect On(b) = {} /\ On(a) \union On(b) = On(l)
<1> DEFINE a == SubSeq(l, 1, n)
           b == SubSeq(l, n + 1, Len(l))
<1>0. Len(l) \in Nat /\ n \in Nat /\ DOMAIN l = 1 .. Len(l)
  OBVIOUS
<1>1. a \in Seq(S) /\ Len(a) = n /\ DOMAIN a = 1 .. n /\ \A i \in 1 .. n : a[i] = l[i]
  BY <1>0
<1>2. b \in Seq(S) /\ Len(b) = Len(l) - n /\ DOMAIN b = 1 .. Len(l) - n /\ \A i \in 1 .. Len(l) - n : b[i] = l[i + n]
  <2>1. b \in Seq(S) /\ Len(b) = Len(l) - n /\ \A i \in 1 .. Len(l) - n : b[i] = l[i + n]
    BY <1>0
  <2> HIDE DEF b
  <2>2. DOMAIN b = 1 .. Len(b)
    BY <2>1
  <2> QED BY <2>1, <2>2
<1> HIDE DEF a, b
<1>3. a # <<>>
  BY <1>1
<1>4. l = a \o b
  <2>1. a \in Seq(S) /\ b \in Seq(S)
    BY <1>1, <1>2
  <2>2. (a \o b) \in Seq(S) /\ Len(a \o b) = Len(a) + Len(b)
    BY <2>1
  <2>3. Len(a \o b) = Len(l)
    BY <1>0, <1>1, <1>2, <2>2
  <2>4. ASSUME NEW i \in 1 .. Len(l) PROVE (a \o b)[i] = l[i]
    <3>1. CASE i \in 1 .. n
      BY <1>1, <2>1, <3>1
    <3>2. CASE i \notin 1 .. n
      <4>1. i - n \in 1 .. Len(l) - n /\ i - n + n = i /\ i \in Len(a) + 1 .. Len(a) + Len(b)
        BY <1>0, <1>1, <1>2, <3>2
      <4>2. (a \o b)[i] = b[i - Len(a)]
        BY <2>1, <4>1
      <4>0. Len(a) = n
        BY <1>1
      <4>3. (a \o b)[i] = b[i - n]
        BY <4>0, <4>2
      <4>5. b[i - n] = l[i - n + n]
        BY <1>2, <4>1
      <4>4. b[i - n] = l[i]
        BY <4>1, <4>5
      <4> QED BY <4>3, <4>4
    <3> QED BY <3>1, <3>2
  <2> DEFINE c == a \o b
  <2>5. c \in Seq(S) /\ Len(c) = Len(l) /\ \A i \in 1 .. Len(l) : c[i] = l[i]
    BY <2>2, <2>3, <2>4
  <2> HIDE DEF c
  <2>6. c = l
    BY <2>5
  <2> QED BY <2>6 DEF c
<1>5. NoRepeats(a)
  BY <1>0, <1>1 DEF NoRepeats
<1>6. NoRepeats(b)
  <2> SUFFICES ASSUME NEW i \in 1 .. Len(l) - n, NEW j \in 1 .. Len(l) - n, b[i] = b[j] PROVE i = j
    BY <1>2 DEF NoRepeats
  <2>1. i + n \in DOMAIN l /\ j + n \in DOMAIN l /\ l[i + n] = l[j + n]
    BY <1>0, <1>2
  <2>2. i + n = j + n
    BY <2>1 DEF NoRepeats
  <2> QED BY <1>0, <2>2
<1>7. On(a) \union On(b) = On(l)
  BY <1>1, <1>2, <1>4, JoinIs
<1>8. ASSUME NEW x \in On(a), x \in On(b) PROVE FALSE
  <2>1. PICK i \in 1 .. n : l[i] = x
    BY <1>1 DEF On
  <2>2. PICK j \in 1 .. Len(l) - n : l[j + n] = x
    BY <1>2, <1>8 DEF On
  <2>3. i \in DOMAIN l /\ j + n \in DOMAIN l /\ i # j + n
    BY <1>0
  <2> QED BY <2>1, <2>2, <2>3 DEF NoRepeats
<1> QED BY <1>1, <1>2, <1>3, <1>4, <1>5, <1>6, <1>7, <1>8 DEF a, b

\* An empty list.
LEMMA EmptyIs == On(<<>>) = {} /\ NoRepeats(<<>>)
BY DEF On, NoRepeats

\* Only members have an order.
LEMMA PrecedesOn ==
  ASSUME NEW l, NEW r, NEW q, Precedes(l, r, q)
  PROVE  r \in On(l) /\ q \in On(l)
BY DEF Precedes, On

--------------------------------------------------------------------------------
(***************************************************************************)
(* The ids and the completion of requests.  request_end returns the id       *)
(* after the callback, when the tag may already carry another IO: a call     *)
(* of request_end is accounted for apart from the request it was for.        *)
(***************************************************************************)

\* a call of request_end past list_del
Calls == [by : Threads \union {Worker, Sender}, req : Slots, uid : Idx,
          err : Errors \union {"answer"}, called : BOOLEAN]

\* The types of what the ids are about.
IdTypes ==
  /\ spc \in [Slots -> SlotStages] /\ unique \in [Slots -> Idx \union {NoId}]
  /\ request_map \in [Idx -> Slots \union {NoReq}] /\ holders \in [Idx -> SUBSET Slots]
  /\ ends \subseteq Calls /\ load \in [Slots -> 0 .. 1]

\* IdsAccounted, member by member
HolderIs(i, s) == (s \in InFlight /\ unique[s] = i) \/ \E e \in ends : e.uid = i /\ e.req = s
Accounted ==
  /\ \A i \in Idx, s \in Slots : s \in holders[i] <=> HolderIs(i, s)
  /\ \A r, s \in InFlight : unique[r] = unique[s] => r = s
  /\ \A e, f \in ends : e.uid = f.uid => e = f
  /\ \A e \in ends, s \in InFlight : unique[s] = e.uid => e.req = s /\ ~e.called

\* Every request in flight has an id and is what the map has for it.
MapExact == \A s \in InFlight : unique[s] \in Idx /\ request_map[unique[s]] = s

\* The ids, the map and the calls of request_end.
IdInv == IdTypes /\ CompletedOnce /\ Accounted /\ MapExact

\* A request is ended by somebody.
EndStep ==
  \E by \in Threads \union {Worker, Sender}, s \in Slots, err \in Errors \union {"answer"} :
    /\ spc[s] \in {"sent", "refused"}
    /\ BeginEnd(by, s, err)
    /\ UNCHANGED <<id_vars, load>>

\* The steps that concern the ids and the completion of requests.
IdStep ==
  \/ \E s \in Slots : Submit(s) \/ AssignUnique(s) \/ SendCheck(s) \/ Enqueue(s)
  \/ \E e \in ends : EndNext(e)
  \/ EndStep
  \/ UNCHANGED <<slot_vars, id_vars, load, ends>>

\* Accounted says what IdsAccounted says.
LEMMA AccountedIs == IdTypes => (Accounted <=> IdsAccounted)
<1> SUFFICES ASSUME IdTypes PROVE Accounted <=> IdsAccounted
  OBVIOUS
<1>1. ASSUME NEW i \in Idx
      PROVE  (\A s \in Slots : s \in holders[i] <=> HolderIs(i, s)) <=>
             holders[i] = {s \in InFlight : unique[s] = i} \union {e.req : e \in {f \in ends : f.uid = i}}
  BY DEF IdTypes, HolderIs, InFlight, Calls
<1> QED BY <1>1 DEF Accounted, IdsAccounted

\* Who is in flight after a step that takes tag s to a stage.
LEMMA InFlightMoved ==
  ASSUME IdTypes, NEW s \in Slots, NEW x \in SlotStages, spc' = [spc EXCEPT ![s] = x]
  PROVE  /\ spc' \in [Slots -> SlotStages] /\ spc'[s] = x /\ \A r \in Slots : r # s => spc'[r] = spc[r]
         /\ x \in {"idle", "started"} => InFlight' = InFlight \ {s}
         /\ x \notin {"idle", "started"} => InFlight' = InFlight \union {s}
BY DEF IdTypes, InFlight

\* A new IO takes the tag of a finished one, whose id may still be out.
LEMMA SubmitKeepsIds ==
  ASSUME IdInv, NEW s \in Slots, Submit(s)
  PROVE  IdInv'
<1> USE DEF IdInv
<1>1. /\ spc[s] = "idle" /\ spc' = [spc EXCEPT ![s] = "started"] /\ unique' = [unique EXCEPT ![s] = NoId]
      /\ load' = [load EXCEPT ![s] = @ + 1] /\ UNCHANGED <<request_map, holders, ends>>
  BY DEF Submit, SlotStep, id_vars
<1>2. InFlight' = InFlight /\ s \notin InFlight
  BY <1>1 DEF InFlight, SlotStages, IdTypes
<1>3. \A r \in InFlight : unique'[r] = unique[r] /\ r \in Slots
  BY <1>1, <1>2 DEF IdTypes, InFlight
<1>4. load[s] = 0 /\ load'[s] = 1 /\ load' \in [Slots -> 0 .. 1]
  BY <1>1 DEF IdTypes, CompletedOnce
<1>5. IdTypes'
  BY <1>1, <1>4 DEF IdTypes, SlotStages
<1>6. CompletedOnce'
  BY <1>1, <1>4 DEF CompletedOnce, IdTypes, Calls
<1>7. Accounted'
  BY <1>1, <1>2, <1>3 DEF Accounted, HolderIs
<1>8. MapExact'
  BY <1>1, <1>2, <1>3 DEF MapExact
<1> QED BY <1>5, <1>6, <1>7, <1>8

\* A new id is nobody else's.
LEMMA AssignKeepsIds ==
  ASSUME IdInv, NEW s \in Slots, AssignUnique(s)
  PROVE  IdInv'
<1> USE DEF IdInv
<1>1. PICK i \in Idx : /\ holders[i] = {} /\ holders' = [holders EXCEPT ![i] = {s}]
                       /\ unique' = [unique EXCEPT ![s] = i]
                       /\ request_map' = [request_map EXCEPT ![i] = s]
  BY DEF AssignUnique, Pool!Get
<1>2. /\ spc[s] = "started" /\ spc' = [spc EXCEPT ![s] = "mapped"] /\ UNCHANGED <<load, ends>>
  BY DEF AssignUnique, SlotStep
<1>3. InFlight' = InFlight \union {s} /\ s \notin InFlight /\ InFlight \subseteq Slots
  BY <1>2 DEF InFlight, SlotStages, IdTypes
<1>4. unique'[s] = i /\ \A r \in InFlight : unique'[r] = unique[r]
  BY <1>1, <1>3 DEF IdTypes
<1>5. (\A r \in InFlight : unique[r] # i) /\ (\A e \in ends : e.uid # i)
  BY <1>1, <1>3 DEF Accounted, HolderIs, IdTypes, Calls
<1>6. IdTypes'
  BY <1>1, <1>2 DEF IdTypes, SlotStages
<1>7. CompletedOnce'
  BY <1>1, <1>2 DEF CompletedOnce, IdTypes, Calls
<1>8. Accounted'
  <2>1. ASSUME NEW j \in Idx, NEW r \in Slots PROVE (r \in holders'[j] <=> HolderIs(j, r)')
    BY <1>1, <1>2, <1>3, <1>4, <1>5 DEF Accounted, HolderIs, IdTypes
  <2>2. \A q, r \in InFlight' : unique'[q] = unique'[r] => q = r
    BY <1>3, <1>4, <1>5 DEF Accounted
  <2>3. \A e \in ends', r \in InFlight' : unique'[r] = e.uid => e.req = r /\ ~e.called
    BY <1>2, <1>3, <1>4, <1>5 DEF Accounted
  <2> QED BY <1>2, <2>1, <2>2, <2>3 DEF Accounted
<1>9. MapExact'
  BY <1>1, <1>3, <1>4, <1>5 DEF MapExact, IdTypes
<1> QED BY <1>6, <1>7, <1>8, <1>9

\* The stages of a sender that has its id.
LEMMA SenderKeepsIds ==
  ASSUME IdInv, NEW s \in Slots, SendCheck(s) \/ Enqueue(s)
  PROVE  IdInv'
<1> USE DEF IdInv
<1>1. PICK x \in {"rcu", "refused", "sent"} : spc[s] \in {"mapped", "rcu"} /\ spc' = [spc EXCEPT ![s] = x]
  BY DEF SendCheck, Enqueue, SlotStep
<1>2. UNCHANGED <<unique, request_map, holders, ends, load>>
  BY DEF SendCheck, Enqueue, id_vars
<1>3. InFlight' = InFlight
  BY <1>1 DEF InFlight, SlotStages, IdTypes
<1>4. IdTypes'
  BY <1>1, <1>2 DEF IdTypes, SlotStages
<1>5. CompletedOnce'
  BY <1>1, <1>2 DEF CompletedOnce, IdTypes, Calls
<1>6. Accounted' /\ MapExact'
  BY <1>2, <1>3 DEF Accounted, HolderIs, MapExact
<1> QED BY <1>4, <1>5, <1>6

\* list_del of request_end: the call takes the id along.
LEMMA EndKeepsIds ==
  ASSUME IdInv, EndStep
  PROVE  IdInv'
<1> USE DEF IdInv
<1>1. PICK by \in Threads \union {Worker, Sender}, s \in Slots, err \in Errors \union {"answer"} :
        /\ spc[s] \in {"sent", "refused"} /\ BeginEnd(by, s, err) /\ UNCHANGED <<id_vars, load>>
  BY DEF EndStep
<1> DEFINE e == [by |-> by, req |-> s, uid |-> unique[s], err |-> err, called |-> FALSE]
<1>2. /\ spc' = [spc EXCEPT ![s] = "ending"] /\ ends' = ends \union {e}
      /\ UNCHANGED <<unique, request_map, holders, load>>
  BY <1>1 DEF BeginEnd, id_vars
<1>3. InFlight' = InFlight /\ s \in InFlight
  BY <1>1, <1>2 DEF InFlight, SlotStages, IdTypes
<1>4. e \in Calls /\ e.req = s /\ e.uid = unique[s] /\ ~e.called
  BY <1>1, <1>3 DEF MapExact, Calls
<1>5. \A f \in ends : f.uid # unique[s] /\ (f.called \/ f.req # s)
  BY <1>1, <1>3 DEF Accounted, CompletedOnce
<1> HIDE DEF e
<1>6. IdTypes'
  BY <1>2, <1>4 DEF IdTypes, SlotStages
<1>7. CompletedOnce'
  <2>1. ASSUME NEW f \in ends', ~f.called
        PROVE  /\ spc'[f.req] = "ending" /\ unique'[f.req] = f.uid
               /\ \A g \in ends' : ~g.called /\ g.req = f.req => g = f
    BY <1>2, <1>4, <1>5, <2>1 DEF CompletedOnce, IdTypes, Calls
  <2>2. \A r \in Slots : load'[r] = IF spc'[r] = "idle" THEN 0 ELSE 1
    BY <1>1, <1>2 DEF CompletedOnce, IdTypes
  <2> QED BY <2>1, <2>2 DEF CompletedOnce
<1>8. Accounted'
  <2>1. ASSUME NEW j \in Idx, NEW r \in Slots PROVE r \in holders'[j] <=> HolderIs(j, r)'
    BY <1>2, <1>3, <1>4 DEF Accounted, HolderIs
  <2>2. \A f, g \in ends' : f.uid = g.uid => f = g
    BY <1>2, <1>4, <1>5 DEF Accounted
  <2>3. \A f \in ends', r \in InFlight' : unique'[r] = f.uid => f.req = r /\ ~f.called
    BY <1>2, <1>3, <1>4 DEF Accounted
  <2> QED BY <1>2, <1>3, <2>1, <2>2, <2>3 DEF Accounted
<1>9. MapExact'
  BY <1>2, <1>3 DEF MapExact
<1> QED BY <1>6, <1>7, <1>8, <1>9

\* The callback frees the tag, and fuse_put_unique the id.
LEMMA CallbackKeepsIds ==
  ASSUME IdInv, NEW e \in ends, EndCallback(e)
  PROVE  IdInv'
<1> USE DEF IdInv
<1> DEFINE s == e.req
           d == [e EXCEPT !.called = TRUE]
<1>1. /\ ~e.called /\ spc' = [spc EXCEPT ![s] = "idle"] /\ load' = [load EXCEPT ![s] = @ - 1]
      /\ ends' = (ends \ {e}) \union {d} /\ UNCHANGED <<unique, request_map, holders>>
  BY DEF EndCallback, id_vars
<1>2. s \in Slots /\ e.uid \in Idx /\ spc[s] = "ending" /\ unique[s] = e.uid
  BY <1>1 DEF CompletedOnce, IdTypes, Calls
<1>3. d \in Calls /\ d.req = s /\ d.uid = e.uid /\ d.called
  BY DEF IdTypes, Calls
<1>4. InFlight' = InFlight \ {s} /\ s \in InFlight
  BY <1>1, <1>2 DEF InFlight, SlotStages, IdTypes
<1>5. load[s] = 1 /\ load'[s] = 0 /\ load' \in [Slots -> 0 .. 1]
  BY <1>1, <1>2 DEF IdTypes, CompletedOnce
<1>6. \A f \in ends : f # e => f.uid # e.uid /\ (f.called \/ f.req # s)
  BY <1>1 DEF Accounted, CompletedOnce
<1> HIDE DEF d
<1>7. IdTypes'
  BY <1>1, <1>2, <1>3, <1>5 DEF IdTypes, SlotStages
<1>8. CompletedOnce'
  <2>1. ASSUME NEW f \in ends', ~f.called
        PROVE  /\ spc'[f.req] = "ending" /\ unique'[f.req] = f.uid
               /\ \A g \in ends' : ~g.called /\ g.req = f.req => g = f
    BY <1>1, <1>3, <1>6, <2>1 DEF CompletedOnce, IdTypes, Calls
  <2>2. \A r \in Slots : load'[r] = IF spc'[r] = "idle" THEN 0 ELSE 1
    BY <1>1, <1>2, <1>5 DEF CompletedOnce, IdTypes
  <2> QED BY <2>1, <2>2 DEF CompletedOnce
<1>9. Accounted'
  <2>1. ASSUME NEW j \in Idx, NEW r \in Slots PROVE r \in holders'[j] <=> HolderIs(j, r)'
    BY <1>1, <1>2, <1>3, <1>4 DEF Accounted, HolderIs
  <2>2. \A f, g \in ends' : f.uid = g.uid => f = g
    BY <1>1, <1>3, <1>6 DEF Accounted
  <2>3. \A f \in ends', r \in InFlight' : unique'[r] = f.uid => f.req = r /\ ~f.called
    BY <1>1, <1>2, <1>3, <1>4 DEF Accounted
  <2> QED BY <1>1, <1>4, <2>1, <2>2, <2>3 DEF Accounted
<1>10. MapExact'
  BY <1>1, <1>4 DEF MapExact
<1> QED BY <1>7, <1>8, <1>9, <1>10

\* The id is returned by the only call that has it.
LEMMA PutKeepsIds ==
  ASSUME IdInv, NEW e \in ends, PutUnique(e)
  PROVE  IdInv'
<1> USE DEF IdInv
<1>1. /\ e.called /\ holders' = [holders EXCEPT ![e.uid] = {}]
      /\ request_map' = [request_map EXCEPT ![e.uid] = NoReq] /\ ends' = ends \ {e}
      /\ UNCHANGED <<spc, unique, load>>
  BY DEF PutUnique, Pool!Put, slot_vars
<1>2. e.uid \in Idx /\ (\A f \in ends' : f.uid # e.uid) /\ \A r \in InFlight : unique[r] # e.uid
  BY <1>1 DEF Accounted, IdTypes, Calls
<1>3. InFlight' = InFlight
  BY <1>1 DEF InFlight
<1>4. IdTypes'
  BY <1>1 DEF IdTypes
<1>5. CompletedOnce'
  BY <1>1 DEF CompletedOnce
<1>6. Accounted'
  <2>1. ASSUME NEW j \in Idx, NEW r \in Slots PROVE r \in holders'[j] <=> HolderIs(j, r)'
    BY <1>1, <1>2, <1>3 DEF Accounted, HolderIs, IdTypes
  <2> QED BY <1>1, <1>3, <2>1 DEF Accounted
<1>7. MapExact'
  BY <1>1, <1>2, <1>3 DEF MapExact, IdTypes
<1> QED BY <1>4, <1>5, <1>6, <1>7

\* Whichever of these steps is taken.
LEMMA IdsKept == IdInv /\ IdStep => IdInv'
<1> SUFFICES ASSUME IdInv, IdStep PROVE IdInv'
  OBVIOUS
<1>1. CASE UNCHANGED <<slot_vars, id_vars, load, ends>>
  BY <1>1 DEF slot_vars, id_vars, IdInv, IdTypes, CompletedOnce, Accounted, HolderIs, InFlight, MapExact
<1> QED BY <1>1, SubmitKeepsIds, AssignKeepsIds, SenderKeepsIds, EndKeepsIds, CallbackKeepsIds, PutKeepsIds
        DEF IdStep, EndNext

--------------------------------------------------------------------------------
(***************************************************************************)
(* The lists, the threads of the daemon and what the daemon has in hand.     *)
(* That a request is in one place at a time is what keeps the list_del of    *)
(* a reply, of a failed read and of the abort off each other.                *)
(***************************************************************************)

\* Requests that were queued and not ended.
Sent == {s \in Slots : spc[s] = "sent"}

\* The types of the lists and the threads.
ListTypes ==
  /\ pending \in Seq(Slots) /\ processing \in Seq(Slots)
  /\ tpc \in [Threads -> {"run", "sleep", "copy", "found", "fill"}]
  /\ batch \in [Threads -> Seq(Slots)] /\ target \in [Threads -> Slots \union {NoReq}]
  /\ hands \subseteq Idx

\* ListsSound, in terms of Sent
Listed ==
  /\ NoRepeats(pending) /\ NoRepeats(processing)
  /\ On(pending) \intersect On(processing) = {}
  /\ On(pending) \subseteq Sent /\ On(processing) \subseteq Sent

\* What a thread of the daemon is at.
ThreadOK(t) ==
  /\ tpc[t] = "copy" <=> batch[t] # <<>>
  /\ tpc[t] \in {"found", "fill"} <=> target[t] # NoReq
  /\ NoRepeats(batch[t]) /\ On(batch[t]) \subseteq On(processing)
  /\ target[t] # NoReq => target[t] \in Sent \ On(pending)
  /\ tpc[t] = "fill" => target[t] \notin On(processing)

\* A request that the daemon is given is waiting, being copied, in the daemon's
\* hands or being answered, one of these and with one thread.
OneHolder ==
  /\ \A s \in On(pending) : unique[s] \notin hands
  /\ \A t \in Threads : \A s \in On(batch[t]) :
       /\ unique[s] \notin hands
       /\ \A u \in Threads : target[u] # s /\ (s \in On(batch[u]) => u = t)
  /\ \A t \in Threads : target[t] # NoReq =>
       /\ unique[target[t]] \notin hands
       /\ \A u \in Threads : target[u] = target[t] => u = t

\* What the daemon has is queued.
HandsSent == \A u \in hands : \E s \in Sent : unique[s] = u

\* Without an open file no thread is in a call and the daemon has nothing.
QuietWhenClosed == ~SessionOpen => hands = {} /\ \A t \in Threads : tpc[t] = "run"

\* RequestsSound says where a request may be; this says it is in one place.
ListInv ==
  ListTypes /\ Listed /\ (\A t \in Threads : ThreadOK(t)) /\ OneHolder /\ HandsSent /\ QuietWhenClosed

\* A queued request is in flight and found by its id.
LEMMA SentFacts ==
  ASSUME IdInv
  PROVE  /\ Sent \subseteq InFlight /\ Sent \subseteq Slots /\ NoReq \notin Sent
         /\ \A s \in Sent : unique[s] \in Idx /\ request_map[unique[s]] = s
         /\ \A r, s \in Sent : unique[r] = unique[s] => r = s
BY ConnAssumption DEF IdInv, IdTypes, Sent, InFlight, SlotStages, MapExact, Accounted

\* request_find finds it.
LEMMA FindIs ==
  ASSUME IdInv, NEW s \in Sent
  PROVE  RequestFind(unique[s]) = s
BY SentFacts, ConnAssumption DEF RequestFind

\* The list invariant says what ListsSound and HandsFound say.
LEMMA ListedIs == IdInv /\ ListInv => ListsSound /\ HandsFound
<1> SUFFICES ASSUME IdInv, ListInv PROVE ListsSound /\ HandsFound
  OBVIOUS
<1>1. ListsSound
  BY DEF ListInv, Listed, ListsSound, Sent
<1>2. HandsFound
  BY FindIs, SentFacts DEF ListInv, HandsSent, HandsFound, Sent
<1> QED BY <1>1, <1>2

\* A step that changes neither the lists nor what the daemon has.
LEMMA ElsewhereKeepsLists ==
  ASSUME ListInv, Sent' = Sent, \A s \in Sent : unique'[s] = unique[s], SessionOpen => SessionOpen',
         UNCHANGED <<pending, processing, tpc, batch, target, hands>>
  PROVE  ListInv'
<1>1. ListTypes'
  BY DEF ListInv, ListTypes
<1>2. Listed'
  BY DEF ListInv, Listed
<1>3. \A t \in Threads : ThreadOK(t)'
  BY DEF ListInv, ThreadOK
<1>4. On(pending)' = On(pending) /\ On(pending) \subseteq Sent /\ \A t \in Threads : On(batch[t])' = On(batch[t]) /\ On(batch[t]) \subseteq Sent
  BY DEF ListInv, Listed, ThreadOK
<1>5. \A t \in Threads : target[t] # NoReq => target[t] \in Sent
  BY DEF ListInv, ThreadOK
<1>6. OneHolder'
  BY <1>4, <1>5 DEF ListInv, OneHolder
<1>7. HandsSent'
  BY DEF ListInv, HandsSent
<1>8. QuietWhenClosed'
  BY DEF ListInv, QuietWhenClosed
<1> QED BY <1>1, <1>2, <1>3, <1>6, <1>7, <1>8 DEF ListInv

\* A thread falls asleep or wakes up.
LEMMA SleepKeepsLists ==
  ASSUME ListInv, NEW t \in Threads, tpc[t] \in {"run", "sleep"}, NEW x \in {"run", "sleep"}, tpc' = [tpc EXCEPT ![t] = x],
         x = "sleep" => SessionOpen, UNCHANGED <<opc, spc, unique, pending, processing, batch, target, hands>>
  PROVE  ListInv'
<1>1. Sent' = Sent /\ SessionOpen' = SessionOpen
  BY DEF Sent, SessionOpen
<1>2. ListTypes'
  BY DEF ListInv, ListTypes
<1>3. \A u \in Threads : ThreadOK(u)'
  BY <1>1 DEF ListInv, ListTypes, ThreadOK
<1>4. Listed' /\ OneHolder' /\ HandsSent'
  BY <1>1 DEF ListInv, Listed, OneHolder, HandsSent
<1>5. QuietWhenClosed'
  BY <1>1 DEF ListInv, QuietWhenClosed, ListTypes
<1> QED BY <1>2, <1>3, <1>4, <1>5 DEF ListInv

\* What the steps below rely on, of one thread.
LEMMA ThreadFacts ==
  ASSUME IdInv, ListInv, NEW t \in Threads
  PROVE  /\ On(batch[t]) \subseteq On(processing) /\ On(batch[t]) \subseteq Sent /\ batch[t] \in Seq(Slots)
         /\ NoRepeats(batch[t])
         /\ tpc[t] = "copy" => Head(batch[t]) \in On(batch[t])
         /\ tpc[t] \in {"found", "fill"} => target[t] \in Sent
<1>1. batch[t] \in Seq(Slots) /\ NoRepeats(batch[t]) /\ On(batch[t]) \subseteq On(processing)
  BY DEF ListInv, ListTypes, ThreadOK
<1>2. ASSUME tpc[t] = "copy" PROVE Head(batch[t]) \in On(batch[t])
  <2>1. batch[t] # <<>>
    BY <1>2 DEF ListInv, ThreadOK
  <2> QED BY <1>1, <2>1, TailIs
<1>3. On(processing) \subseteq Sent
  BY DEF ListInv, Listed
<1>4. ASSUME tpc[t] \in {"found", "fill"} PROVE target[t] \in Sent
  BY <1>4 DEF ListInv, ThreadOK
<1> QED BY <1>1, <1>2, <1>3, <1>4

\* queue_request.
LEMMA EnqueueKeepsLists ==
  ASSUME IdInv, ListInv, NEW s \in Slots, Enqueue(s)
  PROVE  ListInv'
<1> USE DEF ListInv
<1>1. /\ spc[s] = "rcu" /\ spc' = [spc EXCEPT ![s] = "sent"] /\ pending' = Append(pending, s)
      /\ UNCHANGED <<opc, unique, processing, tpc, batch, target, hands>>
  BY DEF Enqueue, SlotStep, control_vars, daemon_vars
<1>2. Sent' = Sent \union {s} /\ s \notin Sent /\ s \in InFlight
  BY <1>1 DEF Sent, IdInv, IdTypes, InFlight, SlotStages
<1>3. s \notin On(pending) /\ s \notin On(processing)
  BY <1>2 DEF Listed
<1>4. pending' \in Seq(Slots) /\ On(pending') = On(pending) \union {s} /\ NoRepeats(pending')
  BY <1>1, <1>3, AppendIs DEF ListTypes, Listed
<1>5. unique[s] \notin hands
  <2>1. \A r \in InFlight : unique[r] = unique[s] => r = s
    BY <1>2 DEF IdInv, Accounted
  <2> QED BY <1>2, <2>1, SentFacts DEF HandsSent
<1>6. ListTypes'
  BY <1>1, <1>4 DEF ListTypes
<1>7. Listed'
  BY <1>1, <1>2, <1>3, <1>4 DEF Listed
<1>8. ASSUME NEW t \in Threads PROVE ThreadOK(t)'
  BY <1>1, <1>2, <1>4 DEF ThreadOK
<1>9. OneHolder'
  BY <1>1, <1>4, <1>5 DEF OneHolder
<1>10. HandsSent' /\ QuietWhenClosed'
  BY <1>1, <1>2 DEF HandsSent, QuietWhenClosed, SessionOpen
<1> QED BY <1>6, <1>7, <1>8, <1>9, <1>10

\* A reader takes a batch.
LEMMA CutKeepsLists ==
  ASSUME IdInv, ListInv, NEW t \in Threads, ReadCut(t)
  PROVE  ListInv'
<1> USE DEF ListInv
<1>1. PICK n \in 1 .. Len(pending) :
        /\ batch' = [batch EXCEPT ![t] = SubSeq(pending, 1, n)]
        /\ processing' = processing \o SubSeq(pending, 1, n)
        /\ pending' = SubSeq(pending, n + 1, Len(pending))
  BY DEF ReadCut
<1>2. /\ SessionOpen /\ tpc[t] = "run" /\ tpc' = [tpc EXCEPT ![t] = "copy"]
      /\ UNCHANGED <<opc, spc, unique, target, hands>>
  BY DEF ReadCut, InCall, control_vars, slot_vars
<1> DEFINE a == SubSeq(pending, 1, n)
           b == SubSeq(pending, n + 1, Len(pending))
<1>3. /\ a \in Seq(Slots) /\ b \in Seq(Slots) /\ a # <<>> /\ NoRepeats(a) /\ NoRepeats(b)
      /\ On(a) \intersect On(b) = {} /\ On(a) \union On(b) = On(pending)
  BY SplitIs DEF ListTypes, Listed
<1>4. batch' = [batch EXCEPT ![t] = a] /\ processing' = processing \o a /\ pending' = b
  BY <1>1
<1> HIDE DEF a, b
<1>5. Sent' = Sent /\ SessionOpen' = SessionOpen
  BY <1>2 DEF Sent, SessionOpen
<1>6. On(pending) \intersect On(processing) = {} /\ processing \in Seq(Slots) /\ NoRepeats(processing)
  BY DEF Listed, ListTypes
<1>7. processing' \in Seq(Slots) /\ On(processing') = On(processing) \union On(a) /\ NoRepeats(processing')
  BY <1>3, <1>4, <1>6, JoinIs
<1>8. ListTypes'
  BY <1>2, <1>3, <1>4, <1>7 DEF ListTypes
<1>9. Listed'
  BY <1>3, <1>4, <1>5, <1>6, <1>7 DEF Listed
<1>10. batch'[t] = a /\ (\A u \in Threads : u # t => batch'[u] = batch[u])
  BY <1>4 DEF ListTypes
<1>11. ASSUME NEW u \in Threads PROVE ThreadOK(u)'
  <2>1. CASE u = t
    <3>1. tpc'[t] = "copy" /\ target[t] = NoReq
      BY <1>2 DEF ListTypes, ThreadOK
    <3> QED BY <1>2, <1>3, <1>7, <1>10, <2>1, <3>1 DEF ThreadOK
  <2>2. CASE u # t
    <3>1. tpc'[u] = tpc[u] /\ target'[u] = target[u]
      BY <1>2, <2>2 DEF ListTypes
    <3>2. target[u] # NoReq => target[u] \notin On(a)
      BY <1>3 DEF ThreadOK
    <3> QED BY <1>3, <1>4, <1>5, <1>7, <1>10, <2>2, <3>1, <3>2 DEF ThreadOK
  <2> QED BY <2>1, <2>2
<1>12. OneHolder'
  <2>1. \A s \in On(pending') : unique'[s] \notin hands'
    BY <1>2, <1>3, <1>4 DEF OneHolder
  <2>2. ASSUME NEW u \in Threads, NEW s \in On(batch'[u])
        PROVE  /\ unique'[s] \notin hands'
               /\ \A v \in Threads : target'[v] # s /\ (s \in On(batch'[v]) => v = u)
    <3>1. CASE u = t
      <4>1. s \in On(a) /\ s \in On(pending) /\ s \notin On(processing)
        BY <1>3, <1>6, <1>10, <3>1
      <4>2. \A v \in Threads : target[v] # s /\ s \notin On(batch[v])
        BY <4>1, SentFacts DEF ThreadOK, Listed
      <4> QED BY <1>2, <1>10, <3>1, <4>1, <4>2 DEF OneHolder
    <3>2. CASE u # t
      <4>1. s \in On(batch[u]) /\ s \in On(processing) /\ s \notin On(a)
        BY <1>3, <1>6, <1>10, <3>2 DEF ThreadOK
      <4> QED BY <1>2, <1>10, <3>2, <4>1 DEF OneHolder
    <3> QED BY <3>1, <3>2
  <2>3. \A u \in Threads : target'[u] # NoReq =>
          unique'[target'[u]] \notin hands' /\ \A v \in Threads : target'[v] = target'[u] => v = u
    BY <1>2 DEF OneHolder
  <2> QED BY <2>1, <2>2, <2>3 DEF OneHolder
<1>13. HandsSent' /\ QuietWhenClosed'
  BY <1>2, <1>5 DEF HandsSent, QuietWhenClosed
<1> QED BY <1>8, <1>9, <1>11, <1>12, <1>13

\* A thread has dealt with the head of its batch.
LEMMA NextCopyIs ==
  ASSUME IdInv, ListInv, NEW t \in Threads, tpc[t] = "copy", NextCopy(t)
  PROVE  /\ On(batch'[t]) = On(batch[t]) \ {Head(batch[t])} /\ NoRepeats(batch'[t])
         /\ batch' \in [Threads -> Seq(Slots)] /\ (tpc'[t] = "copy" <=> batch'[t] # <<>>)
         /\ tpc' \in [Threads -> {"run", "sleep", "copy", "found", "fill"}] /\ tpc'[t] \in {"run", "copy"}
         /\ \A u \in Threads : u # t => batch'[u] = batch[u] /\ tpc'[u] = tpc[u]
<1>1. batch[t] \in Seq(Slots) /\ NoRepeats(batch[t]) /\ batch[t] # <<>>
  BY DEF ListInv, ListTypes, ThreadOK
<1>2. Tail(batch[t]) \in Seq(Slots) /\ NoRepeats(Tail(batch[t]))
      /\ On(Tail(batch[t])) = On(batch[t]) \ {Head(batch[t])}
  BY <1>1, TailIs
<1>3. Tail(batch[t]) = <<>> <=> Len(batch[t]) = 1
  <2>1. ASSUME NEW l \in Seq(Slots), l # <<>> PROVE Tail(l) = <<>> <=> Len(l) = 1
    <3> DEFINE m == Tail(l)
    <3>0. Len(l) \in Nat /\ 1 \in 1 .. Len(l)
      BY <2>1
    <3>1. m \in Seq(Slots) /\ Len(m) = Len(l) - 1 /\ Len(l) \in Nat
      BY <2>1, <3>0
    <3> HIDE DEF m
    <3>2. m = <<>> <=> Len(m) = 0
      BY <3>1
    <3> QED BY <3>1, <3>2 DEF m
  <2> QED BY <1>1, <2>1
<1>4. batch'[t] = Tail(batch[t]) /\ batch' = [batch EXCEPT ![t] = Tail(batch[t])]
      /\ tpc' = [tpc EXCEPT ![t] = IF Len(batch[t]) = 1 THEN "run" ELSE "copy"]
  BY DEF NextCopy, ListInv, ListTypes
<1> QED BY <1>2, <1>3, <1>4 DEF ListInv, ListTypes

\* A request is copied to the daemon.
LEMMA CopyKeepsLists ==
  ASSUME IdInv, ListInv, NEW t \in Threads, CopyOk(t)
  PROVE  ListInv'
<1> USE DEF ListInv
<1> DEFINE s == Head(batch[t])
<1>1. /\ SessionOpen /\ tpc[t] = "copy" /\ NextCopy(t) /\ hands' = hands \union {unique[s]}
      /\ UNCHANGED <<opc, spc, unique, pending, processing, target>>
  BY DEF CopyOk, InCall, control_vars, slot_vars, list_vars
<1>2. s \in On(batch[t]) /\ s \in Sent /\ s \in On(processing) /\ unique[s] \in Idx
  BY <1>1, ThreadFacts, SentFacts
<1> HIDE DEF s
<1>3. /\ On(batch'[t]) = On(batch[t]) \ {s} /\ NoRepeats(batch'[t])
      /\ batch' \in [Threads -> Seq(Slots)] /\ (tpc'[t] = "copy" <=> batch'[t] # <<>>)
      /\ tpc' \in [Threads -> {"run", "sleep", "copy", "found", "fill"}] /\ tpc'[t] \in {"run", "copy"}
      /\ \A u \in Threads : u # t => batch'[u] = batch[u] /\ tpc'[u] = tpc[u]
  BY <1>1, NextCopyIs DEF s
<1>4. Sent' = Sent /\ SessionOpen' = SessionOpen
  BY <1>1 DEF Sent, SessionOpen
<1>5. ListTypes'
  BY <1>1, <1>2, <1>3 DEF ListTypes
<1>6. Listed'
  BY <1>1, <1>4 DEF Listed
<1>7. ASSUME NEW u \in Threads PROVE ThreadOK(u)'
  BY <1>1, <1>3, <1>4 DEF ThreadOK
<1>8. \A r \in Sent : unique[r] = unique[s] => r = s
  BY <1>2, SentFacts
<1>9. OneHolder'
  <2>1. \A r \in On(pending') : unique'[r] \notin hands'
    BY <1>1, <1>2, <1>8 DEF OneHolder, Listed
  <2>2. ASSUME NEW u \in Threads, NEW r \in On(batch'[u])
        PROVE  /\ unique'[r] \notin hands'
               /\ \A v \in Threads : target'[v] # r /\ (r \in On(batch'[v]) => v = u)
    <3>1. r \in On(batch[u]) /\ r # s
      <4>1. CASE u = t
        BY <1>3, <4>1
      <4>2. CASE u # t
        BY <1>2, <1>3, <4>2 DEF OneHolder
      <4> QED BY <4>1, <4>2
    <3>2. r \in Sent /\ unique[r] # unique[s]
      BY <1>8, <3>1, ThreadFacts
    <3>3. ASSUME NEW v \in Threads PROVE target[v] # r /\ (r \in On(batch'[v]) => v = u)
      <4>1. r \in On(batch'[v]) => r \in On(batch[v])
        BY <1>3
      <4> QED BY <3>1, <4>1 DEF OneHolder
    <3>4. unique[r] \notin hands
      BY <3>1 DEF OneHolder
    <3> QED BY <1>1, <3>2, <3>3, <3>4
  <2>3. \A u \in Threads : target'[u] # NoReq =>
          unique'[target'[u]] \notin hands' /\ \A v \in Threads : target'[v] = target'[u] => v = u
    BY <1>1, <1>2, <1>8 DEF OneHolder, ThreadOK
  <2> QED BY <2>1, <2>2, <2>3 DEF OneHolder
<1>10. HandsSent' /\ QuietWhenClosed'
  BY <1>1, <1>2, <1>4 DEF HandsSent, QuietWhenClosed
<1> QED BY <1>5, <1>6, <1>7, <1>9, <1>10

\* A request is taken off whichever list has it.
LEMMA UnlinkIs ==
  ASSUME ListInv, NEW s, Unlink(s)
  PROVE  /\ pending' \in Seq(Slots) /\ On(pending') = On(pending) \ {s} /\ NoRepeats(pending')
         /\ processing' \in Seq(Slots) /\ On(processing') = On(processing) \ {s} /\ NoRepeats(processing')
<1>1. pending \in Seq(Slots) /\ NoRepeats(pending) /\ processing \in Seq(Slots) /\ NoRepeats(processing)
  BY DEF ListInv, ListTypes, Listed
<1>2. /\ Without(pending, s) \in Seq(Slots) /\ On(Without(pending, s)) = On(pending) \ {s}
      /\ NoRepeats(Without(pending, s))
  BY <1>1, WithoutIs
<1>3. /\ Without(processing, s) \in Seq(Slots) /\ On(Without(processing, s)) = On(processing) \ {s}
      /\ NoRepeats(Without(processing, s))
  BY <1>1, WithoutIs
<1> QED BY <1>2, <1>3 DEF Unlink

\* Who is still queued when a request_end has begun.
LEMMA EndedIs ==
  ASSUME IdInv, NEW by, NEW s \in Sent, NEW err, BeginEnd(by, s, err)
  PROVE  Sent' = Sent \ {s} /\ unique' = unique
BY DEF BeginEnd, Sent, IdInv, IdTypes

\* A request that could not be copied is failed.
LEMMA CopyFaultKeepsLists ==
  ASSUME IdInv, ListInv, NEW t \in Threads, CopyFault(t)
  PROVE  ListInv'
<1> USE DEF ListInv
<1> DEFINE s == Head(batch[t])
<1>1. /\ SessionOpen /\ tpc[t] = "copy" /\ NextCopy(t) /\ Unlink(s) /\ BeginEnd(t, s, "EIO")
      /\ UNCHANGED <<opc, target, hands>>
  BY DEF CopyFault, InCall, control_vars
<1>2. s \in On(batch[t]) /\ s \in Sent /\ s \in On(processing)
  BY <1>1, ThreadFacts
<1> HIDE DEF s
<1>3. /\ On(batch'[t]) = On(batch[t]) \ {s} /\ NoRepeats(batch'[t])
      /\ batch' \in [Threads -> Seq(Slots)] /\ (tpc'[t] = "copy" <=> batch'[t] # <<>>)
      /\ tpc' \in [Threads -> {"run", "sleep", "copy", "found", "fill"}] /\ tpc'[t] \in {"run", "copy"}
      /\ \A u \in Threads : u # t => batch'[u] = batch[u] /\ tpc'[u] = tpc[u]
  BY <1>1, NextCopyIs DEF s
<1>4. Sent' = Sent \ {s} /\ unique' = unique /\ SessionOpen' = SessionOpen
  BY <1>1, <1>2, EndedIs DEF SessionOpen
<1>5. /\ pending' \in Seq(Slots) /\ On(pending') = On(pending) \ {s} /\ NoRepeats(pending')
      /\ processing' \in Seq(Slots) /\ On(processing') = On(processing) \ {s} /\ NoRepeats(processing')
  BY <1>1, UnlinkIs
<1>6. ListTypes'
  BY <1>1, <1>3, <1>5 DEF ListTypes
<1>7. Listed'
  BY <1>4, <1>5 DEF Listed
<1>8. ASSUME NEW u \in Threads PROVE On(batch'[u]) = On(batch[u]) \ {s} /\ target[u] # s
  <2>1. target[u] # s
    BY <1>2 DEF OneHolder
  <2>2. u # t => s \notin On(batch[u])
    BY <1>2 DEF OneHolder
  <2> QED BY <1>3, <2>1, <2>2
<1>9. ASSUME NEW u \in Threads PROVE ThreadOK(u)'
  <2>1. NoRepeats(batch'[u]) /\ (tpc'[u] = "copy" <=> batch'[u] # <<>>)
    BY <1>3 DEF ThreadOK
  <2>2. On(batch'[u]) \subseteq On(processing')
    BY <1>5, <1>8 DEF ThreadOK
  <2>3. tpc'[u] \in {"found", "fill"} <=> target'[u] # NoReq
    BY <1>1, <1>3 DEF ThreadOK
  <2>4. /\ target'[u] # NoReq => target'[u] \in Sent' \ On(pending')
        /\ tpc'[u] = "fill" => target'[u] \notin On(processing')
    BY <1>1, <1>3, <1>4, <1>5, <1>8 DEF ThreadOK
  <2> QED BY <2>1, <2>2, <2>3, <2>4 DEF ThreadOK
<1>10. OneHolder'
  BY <1>1, <1>4, <1>5, <1>8 DEF OneHolder
<1>11. unique[s] \notin hands
  BY <1>2 DEF OneHolder
<1>12. HandsSent' /\ QuietWhenClosed'
  BY <1>1, <1>4, <1>11 DEF HandsSent, QuietWhenClosed
<1> QED BY <1>6, <1>7, <1>9, <1>10, <1>12

\* A reply finds its request.
LEMMA FindKeepsLists ==
  ASSUME IdInv, ListInv, NEW t \in Threads, NEW v \in hands, ReplyFind(t, v)
  PROVE  ListInv'
<1> USE DEF ListInv
<1>1. PICK s \in Sent : unique[s] = v
  BY DEF HandsSent
<1>2. /\ SessionOpen /\ tpc[t] = "run" /\ target' = [target EXCEPT ![t] = s] /\ hands' = hands \ {unique[s]}
      /\ tpc' = [tpc EXCEPT ![t] = "found"]
      /\ UNCHANGED <<opc, spc, unique, pending, processing, batch>>
  BY <1>1, FindIs DEF ReplyFind, InCall, control_vars, slot_vars, list_vars
<1>3. Sent' = Sent /\ SessionOpen' = SessionOpen
  BY <1>2 DEF Sent, SessionOpen
<1>4. s \notin On(pending) /\ \A u \in Threads : target[u] # s /\ s \notin On(batch[u])
  BY <1>1, SentFacts DEF OneHolder
<1>5. s \in Slots /\ s # NoReq /\ \A r \in Sent : unique[r] = unique[s] => r = s
  BY SentFacts
<1>6. target'[t] = s /\ tpc'[t] = "found" /\ \A u \in Threads : u # t => target'[u] = target[u] /\ tpc'[u] = tpc[u]
  BY <1>2 DEF ListTypes
<1>7. ListTypes'
  BY <1>2, <1>5 DEF ListTypes
<1>8. Listed'
  BY <1>2, <1>3 DEF Listed
<1>9. ASSUME NEW u \in Threads PROVE ThreadOK(u)'
  <2>1. CASE u = t
    BY <1>2, <1>3, <1>4, <1>5, <1>6, <2>1 DEF ThreadOK
  <2>2. CASE u # t
    BY <1>2, <1>3, <1>6, <2>2 DEF ThreadOK
  <2> QED BY <2>1, <2>2
<1>10. OneHolder'
  <2>1. \A r \in On(pending') : unique'[r] \notin hands'
    BY <1>2 DEF OneHolder
  <2>2. ASSUME NEW u \in Threads, NEW r \in On(batch'[u])
        PROVE  /\ unique'[r] \notin hands'
               /\ \A w \in Threads : target'[w] # r /\ (r \in On(batch'[w]) => w = u)
    BY <1>2, <1>4, <1>6 DEF OneHolder
  <2>3. ASSUME NEW u \in Threads, target'[u] # NoReq
        PROVE  unique'[target'[u]] \notin hands' /\ \A w \in Threads : target'[w] = target'[u] => w = u
    BY <1>2, <1>4, <1>6, <2>3 DEF OneHolder
  <2> QED BY <2>1, <2>2, <2>3 DEF OneHolder
<1>11. HandsSent' /\ QuietWhenClosed'
  BY <1>2, <1>3 DEF HandsSent, QuietWhenClosed
<1> QED BY <1>7, <1>8, <1>9, <1>10, <1>11

\* A reply takes its request off the lists.
LEMMA ReplyUnlinkKeepsLists ==
  ASSUME IdInv, ListInv, NEW t \in Threads, ReplyUnlink(t)
  PROVE  ListInv'
<1> USE DEF ListInv
<1> DEFINE s == target[t]
<1>1. /\ SessionOpen /\ tpc[t] = "found" /\ Unlink(s) /\ tpc' = [tpc EXCEPT ![t] = "fill"]
      /\ UNCHANGED <<opc, spc, unique, batch, target, hands>>
  BY DEF ReplyUnlink, InCall, control_vars, slot_vars
<1>2. /\ pending' \in Seq(Slots) /\ On(pending') = On(pending) \ {s} /\ NoRepeats(pending')
      /\ processing' \in Seq(Slots) /\ On(processing') = On(processing) \ {s} /\ NoRepeats(processing')
  BY <1>1, UnlinkIs
<1>3. Sent' = Sent /\ SessionOpen' = SessionOpen
  BY <1>1 DEF Sent, SessionOpen
<1>4. \A u \in Threads : s \notin On(batch[u])
  BY <1>1 DEF OneHolder
<1>5. ListTypes'
  BY <1>1, <1>2 DEF ListTypes
<1>6. Listed'
  BY <1>2, <1>3 DEF Listed
<1>7. ASSUME NEW u \in Threads PROVE ThreadOK(u)'
  <2>1. On(batch'[u]) \subseteq On(processing') /\ NoRepeats(batch'[u])
    BY <1>1, <1>2, <1>4 DEF ThreadOK
  <2>2. target'[u] # NoReq => target'[u] \in Sent' \ On(pending')
    BY <1>1, <1>2, <1>3 DEF ThreadOK
  <2>3. CASE u = t
    <3>1. tpc'[t] = "fill" /\ target'[t] = s /\ target[t] # NoReq /\ batch[t] = <<>>
      BY <1>1 DEF ListTypes, ThreadOK
    <3> QED BY <1>1, <1>2, <2>1, <2>2, <2>3, <3>1 DEF ThreadOK
  <2>4. CASE u # t
    <3>1. tpc'[u] = tpc[u]
      BY <1>1, <2>4 DEF ListTypes
    <3> QED BY <1>1, <1>2, <2>1, <2>2, <3>1 DEF ThreadOK
  <2> QED BY <2>3, <2>4
<1>8. OneHolder'
  BY <1>1, <1>2 DEF OneHolder
<1>9. HandsSent' /\ QuietWhenClosed'
  BY <1>1, <1>3 DEF HandsSent, QuietWhenClosed
<1> QED BY <1>5, <1>6, <1>7, <1>8, <1>9

\* The reply of thread t is over, with or without a fault.
LEMMA ReplyKeepsLists ==
  ASSUME IdInv, ListInv, NEW t \in Threads, ReplyFill(t) \/ ReplyFault(t)
  PROVE  ListInv'
<1> USE DEF ListInv
<1> DEFINE s == target[t]
<1>1. /\ SessionOpen /\ tpc[t] = "fill" /\ tpc' = [tpc EXCEPT ![t] = "run"]
      /\ target' = [target EXCEPT ![t] = NoReq] /\ UNCHANGED <<opc, pending, processing, batch>>
  BY DEF ReplyFill, ReplyFault, InCall, control_vars, list_vars
<1>2. /\ s \in Sent /\ s \notin On(pending) /\ s \notin On(processing) /\ unique[s] \in Idx /\ unique[s] \notin hands
      /\ \A r \in Sent : unique[r] = unique[s] => r = s
  BY <1>1, SentFacts DEF ThreadOK, OneHolder
<1>3. \/ Sent' = Sent \ {s} /\ unique' = unique /\ hands' = hands
      \/ Sent' = Sent /\ unique' = unique /\ hands' = hands \union {unique[s]}
  <2>1. CASE ReplyFill(t)
    BY <1>2, <2>1, EndedIs DEF ReplyFill
  <2>2. CASE ReplyFault(t)
    BY <2>2 DEF ReplyFault, Sent
  <2> QED BY <2>1, <2>2
<1>4. SessionOpen' = SessionOpen
  BY <1>1 DEF SessionOpen
<1>5. /\ \A u \in Threads : s \notin On(batch[u])
      /\ \A u \in Threads : u # t => target[u] # s
  BY <1>1, <1>2 DEF OneHolder, ThreadOK
<1>6. target'[t] = NoReq /\ tpc'[t] = "run" /\ \A u \in Threads : u # t => target'[u] = target[u] /\ tpc'[u] = tpc[u]
  BY <1>1 DEF ListTypes
<1> HIDE DEF s
<1>7. ListTypes'
  BY <1>1, <1>2, <1>3 DEF ListTypes
<1>8. Listed'
  BY <1>1, <1>2, <1>3 DEF Listed
<1>9. ASSUME NEW u \in Threads PROVE ThreadOK(u)'
  <2>1. CASE u = t
    BY <1>1, <1>6, <2>1 DEF ThreadOK
  <2>2. CASE u # t
    BY <1>1, <1>3, <1>5, <1>6, <2>2 DEF ThreadOK
  <2> QED BY <2>1, <2>2
<1>10. OneHolder'
  <2>1. \A r \in On(pending') : unique'[r] \notin hands'
    BY <1>1, <1>2, <1>3 DEF OneHolder, Listed
  <2>2. ASSUME NEW u \in Threads, NEW r \in On(batch'[u])
        PROVE  /\ unique'[r] \notin hands'
               /\ \A w \in Threads : target'[w] # r /\ (r \in On(batch'[w]) => w = u)
    <3>1. r \in On(batch[u]) /\ r # s /\ r \in Sent /\ r # NoReq
      BY <1>1, <1>5, ThreadFacts, SentFacts
    <3> QED BY <1>1, <1>2, <1>3, <1>6, <3>1 DEF OneHolder
  <2>3. ASSUME NEW u \in Threads, target'[u] # NoReq
        PROVE  unique'[target'[u]] \notin hands' /\ \A w \in Threads : target'[w] = target'[u] => w = u
    <3>1. u # t /\ target'[u] = target[u] /\ target[u] # s /\ target[u] \in Sent
      BY <1>5, <1>6, <2>3 DEF ThreadOK
    <3> QED BY <1>2, <1>3, <1>6, <2>3, <3>1 DEF OneHolder
  <2> QED BY <2>1, <2>2, <2>3 DEF OneHolder
<1>11. HandsSent'
  BY <1>2, <1>3 DEF HandsSent
<1>12. QuietWhenClosed'
  BY <1>1, <1>4 DEF QuietWhenClosed
<1> QED BY <1>7, <1>8, <1>9, <1>10, <1>11, <1>12

\* Without a session the threads have nothing in hand.
LEMMA ClosedFacts ==
  ASSUME ListInv, ~SessionOpen
  PROVE  hands = {} /\ \A t \in Threads : tpc[t] = "run" /\ batch[t] = <<>> /\ target[t] = NoReq
BY DEF ListInv, QuietWhenClosed, ThreadOK

\* A step on the lists while the file is closed.
LEMMA ClosedKeepsLists ==
  ASSUME ListInv, ~SessionOpen, pending' \in Seq(Slots), processing' \in Seq(Slots), Listed', unique' = unique,
         UNCHANGED <<tpc, batch, target, hands>>
  PROVE  ListInv'
<1>1. hands = {} /\ \A t \in Threads : tpc[t] = "run" /\ batch[t] = <<>> /\ target[t] = NoReq
  BY ClosedFacts
<1>2. ListTypes'
  BY DEF ListInv, ListTypes
<1>3. \A t \in Threads : ThreadOK(t)'
  BY <1>1, EmptyIs DEF ThreadOK
<1>4. OneHolder' /\ HandsSent' /\ QuietWhenClosed'
  BY <1>1, EmptyIs DEF OneHolder, HandsSent, QuietWhenClosed
<1> QED BY <1>2, <1>3, <1>4 DEF ListInv

\* What was being processed goes back in front.
LEMMA RestartKeepsLists ==
  ASSUME ListInv, NEW p \in Openers, Restart(p)
  PROVE  ListInv'
<1>1. ~SessionOpen
  BY OneDaemon DEF Restart, OpenRestart, OpenStep, SessionOpen
<1>2. pending' = processing \o pending /\ processing' = <<>> /\ UNCHANGED <<spc, unique, tpc, batch, target, hands>>
  BY DEF Restart, slot_vars, daemon_vars
<1>3. /\ pending \in Seq(Slots) /\ processing \in Seq(Slots) /\ NoRepeats(pending) /\ NoRepeats(processing)
      /\ On(processing) \intersect On(pending) = {} /\ On(pending) \subseteq Sent /\ On(processing) \subseteq Sent
  BY DEF ListInv, ListTypes, Listed
<1>4. pending' \in Seq(Slots) /\ On(pending') = On(processing) \union On(pending) /\ NoRepeats(pending')
  BY <1>2, <1>3, JoinIs
<1>5. Sent' = Sent
  BY <1>2 DEF Sent
<1>6. Listed'
  BY <1>2, <1>3, <1>4, <1>5, EmptyIs DEF Listed
<1>7. processing' \in Seq(Slots)
  BY <1>2
<1> QED BY <1>1, <1>2, <1>4, <1>6, <1>7, ClosedKeepsLists

\* The daemon closes the file or dies.
LEMMA CloseKeepsLists ==
  ASSUME ListInv, NEW p \in Openers, Close(p)
  PROVE  ListInv'
<1>1. /\ \A t \in Threads : tpc[t] = "run"
      /\ hands' = {} /\ UNCHANGED <<spc, unique, pending, processing, tpc, batch, target>>
  BY DEF Close, slot_vars, list_vars
<1>2. \A t \in Threads : batch[t] = <<>> /\ target[t] = NoReq
  BY <1>1 DEF ListInv, ThreadOK
<1>3. Sent' = Sent
  BY <1>1 DEF Sent
<1>4. ListTypes' /\ Listed'
  BY <1>1, <1>3 DEF ListInv, ListTypes, Listed
<1>5. \A t \in Threads : ThreadOK(t)'
  BY <1>1, <1>2, EmptyIs DEF ThreadOK
<1>6. OneHolder' /\ HandsSent' /\ QuietWhenClosed'
  BY <1>1, <1>2, EmptyIs DEF OneHolder, HandsSent, QuietWhenClosed
<1> QED BY <1>4, <1>5, <1>6 DEF ListInv

\* end_requests takes the head of a list.
LEMMA AbortOneIs ==
  ASSUME IdInv, ListInv, AbortOne
  PROVE  \E s \in Sent : /\ BeginEnd(Worker, s, "ECONNABORTED") /\ Unlink(s)
                         /\ UNCHANGED <<id_vars, daemon_vars, load>>
<1>1. /\ pending \in Seq(Slots) /\ NoRepeats(pending) /\ processing \in Seq(Slots) /\ NoRepeats(processing)
      /\ On(pending) \intersect On(processing) = {} /\ On(pending) \subseteq Sent /\ On(processing) \subseteq Sent
  BY DEF ListInv, ListTypes, Listed
<1>2. CASE pending # <<>> /\ pending' = Tail(pending) /\ UNCHANGED processing /\ BeginEnd(Worker, Head(pending), "ECONNABORTED")
  <2>1. Head(pending) \in On(pending) /\ Tail(pending) = Without(pending, Head(pending))
    BY <1>1, <1>2, TailIs
  <2>2. Without(processing, Head(pending)) = processing
    BY <1>1, <2>1 DEF Without
  <2>3. Head(pending) \in Sent /\ Unlink(Head(pending))
    BY <1>1, <1>2, <2>1, <2>2 DEF Unlink
  <2> QED BY <1>2, <2>3 DEF AbortOne
<1>3. CASE pending = <<>> /\ processing # <<>> /\ processing' = Tail(processing) /\ UNCHANGED pending
           /\ BeginEnd(Worker, Head(processing), "ECONNABORTED")
  <2>1. Head(processing) \in On(processing) /\ Tail(processing) = Without(processing, Head(processing))
    BY <1>1, <1>3, TailIs
  <2>2. Without(pending, Head(processing)) = pending
    BY <1>1, <2>1 DEF Without
  <2>3. Head(processing) \in Sent /\ Unlink(Head(processing))
    BY <1>1, <1>3, <2>1, <2>2 DEF Unlink
  <2> QED BY <1>3, <2>3 DEF AbortOne
<1> QED BY <1>2, <1>3 DEF AbortOne

\* Which leaves the lists sound.
LEMMA AbortKeepsLists ==
  ASSUME IdInv, ListInv, ~SessionOpen, AbortOne
  PROVE  ListInv'
<1>1. PICK s \in Sent : BeginEnd(Worker, s, "ECONNABORTED") /\ Unlink(s) /\ UNCHANGED <<id_vars, daemon_vars, load>>
  BY AbortOneIs
<1>2. /\ pending' \in Seq(Slots) /\ On(pending') = On(pending) \ {s} /\ NoRepeats(pending')
      /\ processing' \in Seq(Slots) /\ On(processing') = On(processing) \ {s} /\ NoRepeats(processing')
  BY <1>1, UnlinkIs
<1>3. Sent' = Sent \ {s} /\ unique' = unique
  BY <1>1, EndedIs
<1>4. Listed'
  BY <1>2, <1>3 DEF ListInv, Listed
<1> QED BY <1>1, <1>2, <1>3, <1>4, ClosedKeepsLists DEF daemon_vars

\* Every step is one that IdInv was shown to survive.
LEMMA StepIsId ==
  ASSUME IdInv, ListInv, [Next]_vars
  PROVE  IdStep
<1>1. ASSUME NEW s \in Slots, SubmitNext(s) PROVE IdStep
  <2>1. CASE SendRefused(s)
    BY <2>1 DEF SendRefused, EndStep, IdStep, Errors
  <2> QED BY <1>1, <2>1 DEF SubmitNext, IdStep
<1>2. ASSUME NEW e \in ends, EndNext(e) PROVE IdStep
  BY <1>2 DEF IdStep
<1>3. CASE Wake
  BY <1>3 DEF Wake, IdStep
<1>4. ASSUME NEW t \in Readers, ReadNext(t) PROVE IdStep
  <2>0. t \in Threads
    BY DEF Threads
  <2>1. CASE CopyFault(t)
    <3>1. Head(batch[t]) \in Sent
      BY <2>0, <2>1, ThreadFacts DEF CopyFault, InCall
    <3> QED BY <2>0, <2>1, <3>1 DEF CopyFault, EndStep, IdStep, Errors, Sent
  <2> QED BY <1>4, <2>1 DEF ReadNext, ReadSleep, ReadInterrupted, ReadCut, CopyOk, IdStep
<1>5. ASSUME NEW t \in Repliers, ReplyNext(t) PROVE IdStep
  <2>0. t \in Threads
    BY DEF Threads
  <2>1. CASE ReplyFill(t)
    <3>1. target[t] \in Sent
      BY <2>0, <2>1, ThreadFacts DEF ReplyFill, InCall
    <3> QED BY <2>0, <2>1, <3>1 DEF ReplyFill, EndStep, IdStep, Sent
  <2> QED BY <1>5, <2>1 DEF ReplyNext, ReplyFind, ReplyUnlink, ReplyFault, IdStep, slot_vars
<1>6. ASSUME NEW p \in Openers, ControlFileNext(p) PROVE IdStep
  BY <1>6 DEF ControlFileNext, Restart, OpenOther, Close, IdStep, request_vars
<1>7. CASE AbortWorkNext
  <2>1. CASE AbortOne
    BY <2>1, AbortOneIs DEF EndStep, IdStep, Errors, Sent
  <2> QED BY <1>7, <2>1 DEF AbortWorkNext, AbortOther, AbortBegin, AbortGrace, AbortDone, IdStep, request_vars
<1>8. CASE UNCHANGED vars
  BY <1>8 DEF vars, request_vars, IdStep
<1> QED BY <1>1, <1>2, <1>3, <1>4, <1>5, <1>6, <1>7, <1>8 DEF Next

\* Whichever step is taken.
LEMMA ListsKept ==
  ASSUME ControlInv, IdInv, ListInv, [Next]_vars
  PROVE  ListInv'
<1>1. ASSUME NEW s \in Slots, SubmitNext(s) PROVE ListInv'
  <2>1. CASE Enqueue(s)
    BY <2>1, EnqueueKeepsLists
  <2>2. CASE Submit(s) \/ AssignUnique(s) \/ SendCheck(s) \/ SendRefused(s)
    <3>1. Sent' = Sent
      BY <2>2 DEF Submit, AssignUnique, SendCheck, SendRefused, SlotStep, BeginEnd, Sent, IdInv, IdTypes
    <3>2. \A r \in Sent : unique'[r] = unique[r]
      BY <2>2 DEF Submit, AssignUnique, SendCheck, SendRefused, SlotStep, BeginEnd, Sent, IdInv, IdTypes
    <3>3. UNCHANGED <<opc, pending, processing, tpc, batch, target, hands>>
      BY <2>2 DEF Submit, AssignUnique, SendCheck, SendRefused, control_vars, list_vars, daemon_vars
    <3> QED BY <3>1, <3>2, <3>3, ElsewhereKeepsLists DEF SessionOpen
  <2> QED BY <1>1, <2>1, <2>2 DEF SubmitNext
<1>2. ASSUME NEW e \in ends, EndNext(e) PROVE ListInv'
  <2>1. Sent' = Sent /\ unique' = unique
    BY <1>2 DEF EndNext, EndCallback, PutUnique, Sent, IdInv, IdTypes, CompletedOnce, slot_vars
  <2>2. UNCHANGED <<opc, pending, processing, tpc, batch, target, hands>>
    BY <1>2 DEF EndNext, EndCallback, PutUnique, control_vars, list_vars, daemon_vars
  <2> QED BY <2>1, <2>2, ElsewhereKeepsLists DEF SessionOpen
<1>3. CASE Wake
  <2>1. UNCHANGED <<opc, spc, unique, pending, processing, batch, target, hands>>
    BY <1>3 DEF Wake, control_vars, list_vars, slot_vars
  <2>2. CASE UNCHANGED tpc
    BY <2>1, <2>2, ElsewhereKeepsLists DEF Sent, SessionOpen
  <2>3. ASSUME NEW t \in Threads, tpc[t] = "sleep", tpc' = [tpc EXCEPT ![t] = "run"] PROVE ListInv'
    BY <2>1, <2>3, SleepKeepsLists
  <2> QED BY <1>3, <2>2, <2>3 DEF Wake
<1>4. ASSUME NEW t \in Readers, ReadNext(t) PROVE ListInv'
  <2>0. t \in Threads
    BY DEF Threads
  <2>1. CASE ReadSleep(t)
    BY <2>0, <2>1, SleepKeepsLists DEF ReadSleep, InCall, control_vars, slot_vars, list_vars
  <2>2. CASE ReadInterrupted(t)
    BY <2>0, <2>2, SleepKeepsLists DEF ReadInterrupted, InCall, control_vars, slot_vars, list_vars
  <2> QED BY <1>4, <2>0, <2>1, <2>2, CutKeepsLists, CopyKeepsLists, CopyFaultKeepsLists DEF ReadNext
<1>5. ASSUME NEW t \in Repliers, ReplyNext(t) PROVE ListInv'
  <2>0. t \in Threads
    BY DEF Threads
  <2> QED BY <1>5, <2>0, FindKeepsLists, ReplyUnlinkKeepsLists, ReplyKeepsLists DEF ReplyNext
<1>6. ASSUME NEW p \in Openers, ControlFileNext(p) PROVE ListInv'
  <2>1. CASE OpenOther(p)
    <3>1. UNCHANGED <<spc, unique, pending, processing, tpc, batch, target, hands>>
      BY <2>1 DEF OpenOther, request_vars, slot_vars, list_vars, daemon_vars
    <3>2. SessionOpen => SessionOpen'
      BY <2>1, OneDaemon DEF OpenOther, OpenCheck, OpenCancel, OpenConnect, OpenAllow, OpenSetup, OpenStep, SessionOpen
    <3> QED BY <3>1, <3>2, ElsewhereKeepsLists DEF Sent
  <2> QED BY <1>6, <2>1, RestartKeepsLists, CloseKeepsLists DEF ControlFileNext
<1>7. CASE AbortWorkNext
  <2>1. CASE AbortOne
    <3>1. ~SessionOpen
      BY <2>1, AbortMeansClosed DEF AbortOne
    <3> QED BY <2>1, <3>1, AbortKeepsLists
  <2>2. CASE AbortOther \/ AbortBegin \/ AbortGrace \/ AbortDone
    <3>1. UNCHANGED <<opc, spc, unique, pending, processing, tpc, batch, target, hands>>
      BY <2>2 DEF AbortOther, AbortBegin, AbortGrace, AbortDone, AbortFire, AbortSetup, AbortDisallow, AbortSync,
                  AbortDrained, WorkStep, request_vars, slot_vars, list_vars, daemon_vars
    <3> QED BY <3>1, ElsewhereKeepsLists DEF Sent, SessionOpen
  <2> QED BY <1>7, <2>1, <2>2 DEF AbortWorkNext
<1>8. CASE UNCHANGED vars
  <2>1. UNCHANGED <<opc, spc, unique, pending, processing, tpc, batch, target, hands>>
    BY <1>8 DEF vars, request_vars, control_vars, slot_vars, list_vars, daemon_vars
  <2> QED BY <2>1, ElsewhereKeepsLists DEF Sent, SessionOpen
<1> QED BY <1>1, <1>2, <1>3, <1>4, <1>5, <1>6, <1>7, <1>8 DEF Next

--------------------------------------------------------------------------------
(***************************************************************************)
(* The order of the requests                                                 *)
(***************************************************************************)

\* r is before q in what the daemon is, or will be, given
Before(r, q) ==
  Precedes(processing, r, q) \/ Precedes(pending, r, q) \/ (r \in On(processing) /\ q \in On(pending))

\* order has the requests in flight, once each, and the lists follow it.
OrderInv ==
  /\ order \in Seq(Slots) /\ NoRepeats(order) /\ On(order) = Sent
  /\ \A r, q : Before(r, q) => Precedes(order, r, q)

\* Only listed requests have an order.
LEMMA BeforeListed ==
  ASSUME NEW r, NEW q, Before(r, q), ListInv
  PROVE  r \in Sent /\ q \in Sent /\ r \in On(processing) \union On(pending) /\ q \in On(processing) \union On(pending)
BY PrecedesOn DEF Before, ListInv, Listed

\* A request leaves the lists, or had left them, and has ended.
LEMMA EndKeepsOrder ==
  ASSUME OrderInv, ListInv, ListInv', NEW s, order' = Without(order, s),
         Sent' = Sent \ {s}, Unlink(s) \/ UNCHANGED <<pending, processing>>
  PROVE  OrderInv'
<1>1. /\ order' \in Seq(Slots) /\ NoRepeats(order') /\ On(order') = On(order) \ {s}
      /\ \A r, q : Precedes(order', r, q) <=> Precedes(order, r, q) /\ r # s /\ q # s
  BY WithoutIs DEF OrderInv
<1>2. ASSUME NEW r, NEW q, Before(r, q)' PROVE Precedes(order', r, q)
  <2>1. r # s /\ q # s
    <3>1. r \in Sent' /\ q \in Sent'
      BY <1>2, PrecedesOn DEF Before, ListInv, Listed
    <3> QED BY <3>1
  <2>2. Before(r, q)
    <3>1. CASE Unlink(s)
      <4>1. pending \in Seq(Slots) /\ NoRepeats(pending) /\ processing \in Seq(Slots) /\ NoRepeats(processing)
        BY DEF ListInv, ListTypes, Listed
      <4>2. /\ Precedes(Without(pending, s), r, q) => Precedes(pending, r, q)
            /\ Precedes(Without(processing, s), r, q) => Precedes(processing, r, q)
            /\ On(Without(pending, s)) = On(pending) \ {s} /\ On(Without(processing, s)) = On(processing) \ {s}
        BY <4>1, WithoutIs
      <4> QED BY <1>2, <3>1, <4>2 DEF Before, Unlink
    <3>2. CASE UNCHANGED <<pending, processing>>
      BY <1>2, <3>2 DEF Before
    <3> QED BY <3>1, <3>2
  <2> QED BY <1>1, <2>1, <2>2 DEF OrderInv
<1> QED BY <1>1, <1>2 DEF OrderInv

\* A step that does not touch lists or order.
LEMMA SameKeepsOrder ==
  ASSUME OrderInv, UNCHANGED <<order, pending, processing>>, Sent' = Sent
  PROVE  OrderInv'
BY DEF OrderInv, Before

\* A new request is the last.
LEMMA EnqueueKeepsOrder ==
  ASSUME IdInv, ListInv, OrderInv, NEW s \in Slots, Enqueue(s)
  PROVE  OrderInv'
<1>1. /\ spc[s] = "rcu" /\ spc' = [spc EXCEPT ![s] = "sent"] /\ pending' = Append(pending, s)
      /\ order' = Append(order, s) /\ UNCHANGED processing
  BY DEF Enqueue, SlotStep
<1>2. Sent' = Sent \union {s} /\ s \notin Sent
  BY <1>1 DEF Sent, IdInv, IdTypes
<1>3. pending \in Seq(Slots) /\ order \in Seq(Slots) /\ NoRepeats(order) /\ On(order) = Sent
  BY DEF ListInv, ListTypes, OrderInv
<1>4. /\ order' \in Seq(Slots) /\ On(order') = On(order) \union {s} /\ NoRepeats(order')
      /\ \A r, q : Precedes(order', r, q) <=> Precedes(order, r, q) \/ (r \in On(order) /\ q = s)
  BY <1>1, <1>2, <1>3, AppendIs
<1>5. /\ On(pending') = On(pending) \union {s}
      /\ \A r, q : Precedes(pending', r, q) <=> Precedes(pending, r, q) \/ (r \in On(pending) /\ q = s)
  BY <1>1, <1>3, AppendIs
<1>6. ASSUME NEW r, NEW q, Before(r, q)' PROVE Precedes(order', r, q)
  <2>1. Before(r, q) \/ (q = s /\ r \in On(processing) \union On(pending))
    BY <1>1, <1>5, <1>6 DEF Before
  <2>2. On(processing) \union On(pending) \subseteq On(order)
    BY <1>3 DEF ListInv, Listed
  <2> QED BY <1>4, <2>1, <2>2 DEF OrderInv
<1> QED BY <1>2, <1>3, <1>4, <1>6 DEF OrderInv

\* A batch moves from the head of pending to the tail of processing.
LEMMA CutKeepsOrder ==
  ASSUME ListInv, OrderInv, NEW t, ReadCut(t)
  PROVE  OrderInv'
<1>1. PICK n \in 1 .. Len(pending) :
        /\ processing' = processing \o SubSeq(pending, 1, n)
        /\ pending' = SubSeq(pending, n + 1, Len(pending))
  BY DEF ReadCut
<1>2. UNCHANGED <<order, spc>>
  BY DEF ReadCut, slot_vars
<1> DEFINE a == SubSeq(pending, 1, n)
           b == SubSeq(pending, n + 1, Len(pending))
<1>3. /\ a \in Seq(Slots) /\ b \in Seq(Slots) /\ pending = a \o b
  BY SplitIs DEF ListInv, ListTypes, Listed
<1>4. processing' = processing \o a /\ pending' = b
  BY <1>1
<1> HIDE DEF a, b
<1>5. /\ On(pending) = On(a) \union On(b)
      /\ \A r, q : Precedes(pending, r, q) <=> (Precedes(a, r, q) \/ Precedes(b, r, q) \/ (r \in On(a) /\ q \in On(b)))
  BY <1>3, JoinIs
<1>6. processing \in Seq(Slots)
  BY DEF ListInv, ListTypes
<1>7. /\ On(processing') = On(processing) \union On(a)
      /\ \A r, q : Precedes(processing', r, q) <=>
                     (Precedes(processing, r, q) \/ Precedes(a, r, q) \/ (r \in On(processing) /\ q \in On(a)))
  BY <1>3, <1>4, <1>6, JoinIs
<1>8. ASSUME NEW r, NEW q, Before(r, q)' PROVE Before(r, q)
  BY <1>4, <1>5, <1>7, <1>8 DEF Before
<1>9. Sent' = Sent
  BY <1>2 DEF Sent
<1> QED BY <1>2, <1>8, <1>9 DEF OrderInv

\* fuse_restart_requests puts processing in front of pending.
LEMMA RestartKeepsOrder ==
  ASSUME ListInv, OrderInv, NEW p, Restart(p)
  PROVE  OrderInv'
<1>1. pending' = processing \o pending /\ processing' = <<>> /\ UNCHANGED <<order, spc>>
  BY DEF Restart, slot_vars
<1>2. processing \in Seq(Slots) /\ pending \in Seq(Slots)
  BY DEF ListInv, ListTypes
<1>3. \A r, q : Precedes(pending', r, q) <=>
        (Precedes(processing, r, q) \/ Precedes(pending, r, q) \/ (r \in On(processing) /\ q \in On(pending)))
  BY <1>1, <1>2, JoinIs
<1>4. On(processing') = {} /\ \A r, q : ~Precedes(processing', r, q)
  BY <1>1, EmptyIs, PrecedesOn
<1>5. ASSUME NEW r, NEW q, Before(r, q)' PROVE Before(r, q)
  BY <1>3, <1>4, <1>5 DEF Before
<1>6. Sent' = Sent
  BY <1>1 DEF Sent
<1> QED BY <1>1, <1>5, <1>6 DEF OrderInv

\* list_del of a reply
LEMMA ReplyUnlinkKeepsOrder ==
  ASSUME ListInv, OrderInv, NEW t, ReplyUnlink(t)
  PROVE  OrderInv'
<1>1. Unlink(target[t]) /\ UNCHANGED <<order, spc>>
  BY DEF ReplyUnlink, slot_vars
<1>2. pending \in Seq(Slots) /\ NoRepeats(pending) /\ processing \in Seq(Slots) /\ NoRepeats(processing)
  BY DEF ListInv, ListTypes, Listed
<1>3. /\ \A r, q : Precedes(Without(pending, target[t]), r, q) => Precedes(pending, r, q)
      /\ \A r, q : Precedes(Without(processing, target[t]), r, q) => Precedes(processing, r, q)
      /\ On(Without(pending, target[t])) \subseteq On(pending)
      /\ On(Without(processing, target[t])) \subseteq On(processing)
  BY <1>2, WithoutIs
<1>4. ASSUME NEW r, NEW q, Before(r, q)' PROVE Before(r, q)
  BY <1>1, <1>3, <1>4 DEF Before, Unlink
<1>5. Sent' = Sent
  BY <1>1 DEF Sent
<1> QED BY <1>1, <1>4, <1>5 DEF OrderInv

\* Whichever step is taken.
LEMMA OrderIsKept ==
  ASSUME IdInv, ListInv, ListInv', OrderInv, [Next]_vars
  PROVE  OrderInv'
<1>1. ASSUME NEW s \in Slots, SubmitNext(s) PROVE OrderInv'
  <2>1. CASE Enqueue(s)
    BY <2>1, EnqueueKeepsOrder
  <2>2. CASE SendRefused(s)
    <3>1. s \notin Sent /\ Sent' = Sent /\ UNCHANGED <<pending, processing>> /\ order' = Without(order, s)
      BY <2>2 DEF SendRefused, BeginEnd, Sent, IdInv, IdTypes
    <3>2. Sent' = Sent \ {s}
      BY <3>1
    <3> QED BY <3>1, <3>2, EndKeepsOrder
  <2>3. CASE Submit(s) \/ AssignUnique(s) \/ SendCheck(s)
    <3>1. Sent' = Sent
      BY <2>3 DEF Submit, AssignUnique, SendCheck, SlotStep, Sent, IdInv, IdTypes
    <3>2. UNCHANGED <<order, pending, processing>>
      BY <2>3 DEF Submit, AssignUnique, SendCheck, list_vars
    <3> QED BY <3>1, <3>2, SameKeepsOrder
  <2> QED BY <1>1, <2>1, <2>2, <2>3 DEF SubmitNext
<1>2. ASSUME NEW e \in ends, EndNext(e) PROVE OrderInv'
  <2>1. Sent' = Sent
    BY <1>2 DEF EndNext, EndCallback, PutUnique, Sent, IdInv, IdTypes, CompletedOnce, slot_vars
  <2>2. UNCHANGED <<order, pending, processing>>
    BY <1>2 DEF EndNext, EndCallback, PutUnique, list_vars
  <2> QED BY <2>1, <2>2, SameKeepsOrder
<1>3. CASE Wake
  BY <1>3, SameKeepsOrder DEF Wake, list_vars, slot_vars, Sent
<1>4. ASSUME NEW t \in Readers, ReadNext(t) PROVE OrderInv'
  <2>0. t \in Threads
    BY DEF Threads
  <2>1. CASE CopyFault(t)
    <3>1. Head(batch[t]) \in Sent
      BY <2>0, <2>1, ThreadFacts DEF CopyFault, InCall
    <3>2. Sent' = Sent \ {Head(batch[t])} /\ order' = Without(order, Head(batch[t])) /\ Unlink(Head(batch[t]))
      BY <2>1, <3>1, EndedIs DEF CopyFault, BeginEnd
    <3> QED BY <3>2, EndKeepsOrder
  <2>2. CASE ReadSleep(t) \/ ReadInterrupted(t) \/ CopyOk(t)
    BY <2>2, SameKeepsOrder DEF ReadSleep, ReadInterrupted, CopyOk, list_vars, slot_vars, Sent
  <2> QED BY <1>4, <2>1, <2>2, CutKeepsOrder DEF ReadNext
<1>5. ASSUME NEW t \in Repliers, ReplyNext(t) PROVE OrderInv'
  <2>0. t \in Threads
    BY DEF Threads
  <2>1. CASE ReplyFill(t)
    <3>1. target[t] \in Sent
      BY <2>0, <2>1, ThreadFacts DEF ReplyFill, InCall
    <3>2. Sent' = Sent \ {target[t]} /\ order' = Without(order, target[t]) /\ UNCHANGED <<pending, processing>>
      BY <2>1, <3>1, EndedIs DEF ReplyFill, BeginEnd
    <3> QED BY <3>2, EndKeepsOrder
  <2>2. CASE ReplyFault(t) \/ \E u \in hands : ReplyFind(t, u)
    BY <2>2, SameKeepsOrder DEF ReplyFault, ReplyFind, list_vars, slot_vars, Sent
  <2> QED BY <1>5, <2>1, <2>2, ReplyUnlinkKeepsOrder DEF ReplyNext
<1>6. ASSUME NEW p \in Openers, ControlFileNext(p) PROVE OrderInv'
  <2>1. CASE OpenOther(p) \/ Close(p)
    BY <2>1, SameKeepsOrder DEF OpenOther, Close, request_vars, list_vars, slot_vars, Sent
  <2> QED BY <1>6, <2>1, RestartKeepsOrder DEF ControlFileNext
<1>7. CASE AbortWorkNext
  <2>1. CASE AbortOne
    <3>1. PICK s \in Sent : BeginEnd(Worker, s, "ECONNABORTED") /\ Unlink(s)
      BY <2>1, AbortOneIs
    <3>2. Sent' = Sent \ {s} /\ order' = Without(order, s)
      BY <3>1, EndedIs DEF BeginEnd
    <3> QED BY <3>1, <3>2, EndKeepsOrder
  <2>2. CASE AbortOther \/ AbortBegin \/ AbortGrace \/ AbortDone
    BY <2>2, SameKeepsOrder DEF AbortOther, AbortBegin, AbortGrace, AbortDone, request_vars, slot_vars, list_vars, Sent
  <2> QED BY <1>7, <2>1, <2>2 DEF AbortWorkNext
<1>8. CASE UNCHANGED vars
  BY <1>8, SameKeepsOrder DEF vars, request_vars, slot_vars, list_vars, Sent
<1> QED BY <1>1, <1>2, <1>3, <1>4, <1>5, <1>6, <1>7, <1>8 DEF Next

--------------------------------------------------------------------------------
(***************************************************************************)
(* The invariant of the composition, and what follows from it                *)
(***************************************************************************)

\* the rest of TypeOK
OtherTypes ==
  /\ connected \in BOOLEAN /\ allow_disconnected \in BOOLEAN /\ devs_connected \in BOOLEAN
  /\ armed \in BOOLEAN /\ opened \in BOOLEAN
  /\ apc \in [Admins -> {"idle", "cancel", "schedule"}]
  /\ wakes \in 0 .. MaxWakes /\ grace \subseteq Slots

\* The types of what no other part speaks of.
LEMMA OthersKept ==
  ASSUME OtherTypes, [Next]_vars
  PROVE  OtherTypes'
<1>1. wakes' \in 0 .. MaxWakes /\ grace' \subseteq Slots /\ apc' = apc
  <2> USE DEF OtherTypes, control_vars
  <2>1. ASSUME NEW s \in Slots, SubmitNext(s) PROVE wakes' \in 0 .. MaxWakes /\ grace' \subseteq Slots /\ apc' = apc
    BY <2>1, ConnAssumption DEF SubmitNext, Submit, AssignUnique, SendCheck, Enqueue, SendRefused
  <2>2. ASSUME NEW e \in ends, EndNext(e) PROVE wakes' \in 0 .. MaxWakes /\ grace' \subseteq Slots /\ apc' = apc
    BY <2>2 DEF EndNext, EndCallback, PutUnique
  <2>3. CASE Wake
    BY <2>3, ConnAssumption DEF Wake
  <2>4. ASSUME NEW t \in Readers, ReadNext(t) PROVE wakes' \in 0 .. MaxWakes /\ grace' \subseteq Slots /\ apc' = apc
    BY <2>4 DEF ReadNext, ReadSleep, ReadInterrupted, ReadCut, CopyOk, CopyFault
  <2>5. ASSUME NEW t \in Repliers, ReplyNext(t) PROVE wakes' \in 0 .. MaxWakes /\ grace' \subseteq Slots /\ apc' = apc
    BY <2>5 DEF ReplyNext, ReplyFind, ReplyUnlink, ReplyFill, ReplyFault
  <2>6. ASSUME NEW p \in Openers, ControlFileNext(p) PROVE wakes' \in 0 .. MaxWakes /\ grace' \subseteq Slots /\ apc' = apc
    BY <2>6 DEF ControlFileNext, Restart, OpenOther, Close, OpenRestart, OpenCheck, OpenCancel, OpenConnect, OpenAllow,
                OpenSetup, Release, request_vars
  <2>7. CASE AbortWorkNext
    BY <2>7 DEF AbortWorkNext, AbortOther, AbortBegin, AbortGrace, AbortOne, AbortDone, AbortFire, AbortSetup,
                AbortDisallow, AbortSync, AbortDrained, WorkStep, request_vars
  <2>8. CASE UNCHANGED vars
    BY <2>8 DEF vars, request_vars
  <2> QED BY <2>1, <2>2, <2>3, <2>4, <2>5, <2>6, <2>7, <2>8 DEF Next
<1>2. /\ connected' \in BOOLEAN /\ allow_disconnected' \in BOOLEAN /\ devs_connected' \in BOOLEAN
      /\ armed' \in BOOLEAN /\ opened' \in BOOLEAN
  <2>1. ControlStep
    BY StepIsControl
  <2>2. ASSUME NEW p \in Openers, OpenerNext(p)
        PROVE  /\ connected' \in BOOLEAN /\ allow_disconnected' \in BOOLEAN /\ devs_connected' \in BOOLEAN
               /\ armed' \in BOOLEAN /\ opened' \in BOOLEAN
    BY <2>2 DEF OpenerNext, OpenCheck, OpenCancel, OpenRestart, OpenConnect, OpenAllow, OpenSetup, Release, conn_vars,
                work_vars, OtherTypes
  <2>3. CASE AbortNext
    BY <2>3 DEF AbortNext, AbortFire, AbortDisallow, AbortSync, AbortDrained, AbortSetup, WorkStep, conn_vars,
                OtherTypes
  <2>4. CASE UNCHANGED control_vars
    BY <2>4 DEF control_vars, conn_vars, work_vars, OtherTypes
  <2> QED BY <2>1, <2>2, <2>3, <2>4 DEF ControlStep
<1> QED BY <1>1, <1>2 DEF OtherTypes

\* The invariant: no part is inductive without those before it.
ConnInv == ControlInv /\ IdInv /\ ListInv /\ OrderInv /\ OtherTypes

\* The invariant holds at first.
LEMMA ConnInitial == Init => ConnInv
<1> SUFFICES ASSUME Init PROVE ConnInv
  OBVIOUS
<1> USE DEF Init
<1>0. \A s \in Slots : spc[s] = "idle"
  OBVIOUS
<1>1. IdInv
  <2>1. InFlight = {}
    BY <1>0 DEF InFlight
  <2>2. IdTypes
    BY DEF IdTypes, SlotStages, Pool!Init
  <2> QED BY <1>0, <2>1, <2>2 DEF IdInv, CompletedOnce, Accounted, HolderIs, MapExact, Pool!Init
<1>2. Sent = {}
  BY <1>0 DEF Sent
<1>3. ListInv
  <2>1. ListTypes
    BY DEF ListTypes
  <2>2. Listed /\ HandsSent /\ QuietWhenClosed
    BY <1>2, EmptyIs DEF Listed, HandsSent, QuietWhenClosed
  <2>3. ASSUME NEW t \in Threads PROVE ThreadOK(t)
    BY <1>2, EmptyIs DEF ThreadOK
  <2>4. OneHolder
    BY EmptyIs DEF OneHolder
  <2> QED BY <2>1, <2>2, <2>3, <2>4 DEF ListInv
<1>4. OrderInv
  BY <1>2, EmptyIs, PrecedesOn DEF OrderInv, Before
<1>5. OtherTypes
  <2>1. wakes \in 0 .. MaxWakes
    <3>1. wakes = 0 /\ MaxWakes \in Nat
      BY ConnAssumption
    <3> QED BY <3>1
  <2> QED BY <2>1 DEF OtherTypes, ControlInit
<1> QED BY <1>1, <1>3, <1>4, <1>5, ControlInitial DEF ConnInv

\* And every step keeps it.
LEMMA ConnKept == ConnInv /\ [Next]_vars => ConnInv'
<1> SUFFICES ASSUME ConnInv, [Next]_vars PROVE ConnInv'
  OBVIOUS
<1>1. ControlInv /\ IdInv /\ ListInv /\ OrderInv /\ OtherTypes
  BY DEF ConnInv
<1>2. IdInv' /\ ListInv'
  BY <1>1, StepIsId, IdsKept, ListsKept
<1> QED BY <1>1, <1>2, ControlKept, OrderIsKept, OthersKept DEF ConnInv

\* The lists, the completions, the ids and the replies agree on every request: no
\* request is ended twice, on two lists or lost from the map, however readers,
\* replies, senders, restarts and the abort interleave (dev.c:228, 1064, 1137).
THEOREM RequestsSafe == Spec => []RequestsSound
<1>1. ConnInv => RequestsSound
  <2> SUFFICES ASSUME ConnInv PROVE RequestsSound
    OBVIOUS
  <2>1. ControlInv /\ IdInv /\ ListInv /\ OrderInv /\ OtherTypes
    BY DEF ConnInv
  <2>2. TypeOK
    <3>1. ControlTypeOK
      BY <2>1 DEF ControlTypeOK, ControlInv, OtherTypes
    <3> QED BY <2>1, <3>1 DEF TypeOK, IdInv, IdTypes, Calls, ListInv, ListTypes, OrderInv, OtherTypes
  <2>3. ListsSound /\ HandsFound
    BY <2>1, ListedIs
  <2>4. CompletedOnce /\ IdsAccounted
    BY <2>1, AccountedIs DEF IdInv
  <2> QED BY <2>2, <2>3, <2>4 DEF RequestsSound
<1> QED BY ConnInitial, ConnKept, <1>1, PTL DEF Spec

\* Requests are given to the daemon in the order they were queued, and a daemon
\* that comes back gets its predecessor's before newer ones (dev.c:1274).
THEOREM OrderSafe == Spec => []OrderKept
<1>1. ConnInv => OrderKept
  <2> SUFFICES ASSUME ConnInv PROVE OrderKept
    OBVIOUS
  <2> DEFINE handed == processing \o pending
             Pos(s) == CHOOSE k \in DOMAIN order : order[k] = s
  <2>1. processing \in Seq(Slots) /\ pending \in Seq(Slots)
    BY DEF ConnInv, ListInv, ListTypes
  <2>2. \A r, q : Precedes(handed, r, q) => Before(r, q)
    BY <2>1, JoinIs DEF Before
  <2> HIDE DEF handed
  <2>3. ASSUME NEW j \in DOMAIN handed, NEW k \in DOMAIN handed, j < k PROVE Pos(handed[j]) < Pos(handed[k])
    <3>1. Precedes(order, handed[j], handed[k])
      <4>1. Precedes(handed, handed[j], handed[k])
        BY <2>3 DEF Precedes
      <4> QED BY <2>2, <4>1 DEF ConnInv, OrderInv
    <3>2. PICK a, b \in DOMAIN order : a < b /\ order[a] = handed[j] /\ order[b] = handed[k]
      BY <3>1 DEF Precedes
    <3>3. Pos(handed[j]) = a /\ Pos(handed[k]) = b
      BY <3>2 DEF ConnInv, OrderInv, NoRepeats
    <3> QED BY <3>2, <3>3
  <2> QED BY <2>3 DEF OrderKept, handed
<1> QED BY ConnInitial, ConnKept, <1>1, PTL DEF Spec

--------------------------------------------------------------------------------
(***************************************************************************)
(* BlockIO                                                                   *)
(* Which steps of the code are which steps of what was promised.             *)
(***************************************************************************)

\* A request_end is about to complete s with the daemon's answer, or with an error.
Answering(s) == Completing(s, {"answer"})
Failing(s) == Completing(s, Errors)

\* What the block layer sees of tag s, as one value.
View(s) ==
  IF spc[s] = "idle" THEN "idle"
  ELSE IF Answering(s) THEN "answered"
  ELSE IF Failing(s) THEN "failed"
  ELSE IF Served(s) THEN "served" ELSE "queued"

\* a request_end about to call back is for a tag that is neither free nor served
LEMMA CompletingIs ==
  ASSUME IdInv, NEW s \in Slots, NEW errs, Completing(s, errs)
  PROVE  spc[s] = "ending"
BY DEF Completing, IdInv, CompletedOnce

\* IOState is the view of every tag.
Seen == IOState = [s \in Slots |-> View(s)]

\* The view is what IOState says, in this state.
LEMMA ViewIs == IdInv => Seen
<1> SUFFICES ASSUME IdInv PROVE Seen
  OBVIOUS
<1>1. ASSUME NEW s \in Slots
      PROVE  (CASE load[s] = 0 -> "idle"
                [] load[s] # 0 /\ Completing(s, {"answer"}) -> "answered"
                [] load[s] # 0 /\ Completing(s, Errors) -> "failed"
                [] OTHER -> IF Served(s) THEN "served" ELSE "queued") = View(s)
  <2>1. load[s] = IF spc[s] = "idle" THEN 0 ELSE 1
    BY DEF IdInv, CompletedOnce
  <2>2. ~(Answering(s) /\ Failing(s))
    <3> SUFFICES ASSUME Answering(s), Failing(s) PROVE FALSE
      OBVIOUS
    <3>1. PICK e \in ends : e.req = s /\ ~e.called /\ e.err = "answer"
      BY DEF Answering, Completing
    <3>2. PICK f \in ends : f.req = s /\ ~f.called /\ f.err \in Errors
      BY DEF Failing, Completing
    <3>3. e = f
      BY <3>1, <3>2 DEF IdInv, CompletedOnce
    <3> QED BY <3>1, <3>2, <3>3 DEF Errors
  <2>3. CASE load[s] = 0
    BY <2>1, <2>3 DEF View
  <2>4. CASE load[s] # 0 /\ Answering(s)
    BY <2>1, <2>2, <2>4 DEF View, Answering, Failing
  <2>5. CASE load[s] # 0 /\ Failing(s)
    BY <2>1, <2>2, <2>5 DEF View, Answering, Failing
  <2>6. CASE load[s] # 0 /\ ~Answering(s) /\ ~Failing(s)
    BY <2>1, <2>6 DEF View, Answering, Failing
  <2> QED BY <2>3, <2>4, <2>5, <2>6
<1> QED BY <1>1 DEF IOState, Seen

\* And in the next.
LEMMA ViewNext ==
  ASSUME IdInv, IdInv'
  PROVE  IOState = [s \in Slots |-> View(s)] /\ IOState' = [s \in Slots |-> View(s)']
<1>1. (IdInv => Seen) /\ (IdInv' => Seen')
  BY ViewIs, PTL
<1> QED BY <1>1 DEF Seen

\* The tags whose view a step leaves as it is.
SameView(r) ==
  /\ spc'[r] = "idle" <=> spc[r] = "idle"
  /\ Answering(r)' <=> Answering(r)
  /\ Failing(r)' <=> Failing(r)
  /\ Served(r)' <=> Served(r)

\* Such a tag looks the same.
LEMMA SameViewKeeps ==
  ASSUME NEW r \in Slots, SameView(r)
  PROVE  View(r)' = View(r)
BY DEF SameView, View

\* When all do, the block layer sees no step.
LEMMA Stutters ==
  ASSUME IdInv, IdInv', \A r \in Slots : SameView(r)
  PROVE  IOState' = IOState
<1>1. IOState = [s \in Slots |-> View(s)] /\ IOState' = [s \in Slots |-> View(s)']
  BY ViewNext
<1> QED BY <1>1, SameViewKeeps

\* When all but s do, it sees s move.
LEMMA Moves ==
  ASSUME IdInv, IdInv', NEW s \in Slots, NEW x, View(s)' = x, \A r \in Slots \ {s} : SameView(r)
  PROVE  IOState[s] = View(s) /\ IOState' = [IOState EXCEPT ![s] = x]
<1>1. IOState = [r \in Slots |-> View(r)] /\ IOState' = [r \in Slots |-> View(r)']
  BY ViewNext
<1>2. \A r \in Slots \ {s} : View(r)' = View(r)
  BY SameViewKeeps
<1> QED BY <1>1, <1>2

\* request_end is called for s, with an error of the kernel or with an answer.
LEMMA EndView ==
  ASSUME IdInv, IdInv', NEW by, NEW s \in Slots, NEW err \in Errors \union {"answer"}, spc[s] \in {"sent", "refused"},
         BeginEnd(by, s, err)
  PROVE  /\ View(s)' = IF err = "answer" THEN "answered" ELSE "failed"
         /\ View(s) = IF Served(s) THEN "served" ELSE "queued"
         /\ \A r \in Slots \ {s} : /\ spc'[r] = spc[r] /\ unique'[r] = unique[r]
                                   /\ (Answering(r)' <=> Answering(r)) /\ (Failing(r)' <=> Failing(r))
<1> DEFINE e == [by |-> by, req |-> s, uid |-> unique[s], err |-> err, called |-> FALSE]
<1>1. spc' = [spc EXCEPT ![s] = "ending"] /\ ends' = ends \union {e} /\ unique' = unique
  BY DEF BeginEnd
<1>2. e.req = s /\ e.err = err /\ ~e.called
  OBVIOUS
<1> HIDE DEF e
<1>3. spc'[s] = "ending" /\ \A r \in Slots \ {s} : spc'[r] = spc[r]
  BY <1>1 DEF IdInv, IdTypes
<1>4. ~Answering(s) /\ ~Failing(s)
  BY CompletingIs DEF Answering, Failing
<1>5. \A f \in ends : f.req = s => f.called
  BY DEF IdInv, CompletedOnce
<1>6. (Answering(s)' <=> err = "answer") /\ (Failing(s)' <=> err \in Errors)
  BY <1>1, <1>2, <1>5 DEF Answering, Failing, Completing
<1>7. \A r \in Slots \ {s} : (Answering(r)' <=> Answering(r)) /\ (Failing(r)' <=> Failing(r))
  BY <1>1, <1>2 DEF Answering, Failing, Completing
<1>8. err = "answer" <=> err \notin Errors
  BY DEF Errors
<1> QED BY <1>1, <1>3, <1>4, <1>6, <1>7, <1>8 DEF View

\* Served depends on what is sent, its id, the hands and the targets.
LEMMA ServedSame ==
  ASSUME NEW r, spc'[r] = spc[r], unique'[r] = unique[r], hands' = hands, target' = target
  PROVE  Served(r)' <=> Served(r)
BY DEF Served

\* No request_end begins or calls back.
LEMMA CompletingSame ==
  ASSUME ends' = ends, NEW r
  PROVE  (Answering(r)' <=> Answering(r)) /\ (Failing(r)' <=> Failing(r))
BY DEF Answering, Failing, Completing

\* A request that a step moves between the hands and a target is served as before.
LEMMA ServedMoved ==
  ASSUME UNCHANGED <<spc, unique>>, NEW r,
         spc[r] = "sent" => (/\ unique[r] \in hands' \/ \E u \in Threads : target'[u] = r
                             /\ unique[r] \in hands \/ \E u \in Threads : target[u] = r)
  PROVE  Served(r)' <=> Served(r)
BY DEF Served

\* A request whose id and targets a step leaves alone is served as before.
LEMMA ServedKept ==
  ASSUME NEW r, spc'[r] = spc[r], unique'[r] = unique[r], spc[r] = "sent" => (unique[r] \in hands' <=> unique[r] \in hands),
         \A u \in Threads : target'[u] = r <=> target[u] = r
  PROVE  Served(r)' <=> Served(r)
BY DEF Served

\* A request is served exactly when the daemon has it or answers it.
LEMMA ServedFacts ==
  ASSUME IdInv, ListInv
  PROVE  /\ \A s \in On(pending) : ~Served(s)
         /\ \A t \in Threads : \A s \in On(batch[t]) : ~Served(s)
         /\ ~SessionOpen => \A s \in Slots : ~Served(s)
<1>1. \A s \in On(pending) : ~Served(s)
  BY SentFacts DEF ListInv, OneHolder, ThreadOK, Listed, Served
<1>2. \A t \in Threads : \A s \in On(batch[t]) : ~Served(s)
  BY DEF ListInv, OneHolder, Served
<1>3. ASSUME ~SessionOpen, NEW s \in Slots PROVE ~Served(s)
  <2>1. s # NoReq
    BY ConnAssumption
  <2> QED BY <1>3, <2>1, ClosedFacts DEF Served
<1> QED BY <1>1, <1>2, <1>3

\* A step of BlockIO or none.
BlockStep == Abstract!Next \/ IOState' = IOState

\* Submission is Accept; a refused request Fail; the rest is not seen.
LEMMA SubmitImplements ==
  ASSUME IdInv, IdInv', ListInv, NEW s \in Slots, SubmitNext(s)
  PROVE  BlockStep
<1> USE DEF BlockStep
<1>1. CASE Submit(s)
  <2>1. /\ spc[s] = "idle" /\ spc' = [spc EXCEPT ![s] = "started"] /\ unique' = [unique EXCEPT ![s] = NoId]
        /\ UNCHANGED <<ends, hands, target>>
    BY <1>1 DEF Submit, SlotStep, daemon_vars
  <2>2. spc'[s] = "started" /\ \A r \in Slots \ {s} : spc'[r] = spc[r] /\ unique'[r] = unique[r]
    BY <2>1 DEF IdInv, IdTypes
  <2>3. \A r \in Slots \ {s} : SameView(r)
    BY <2>1, <2>2, ServedSame, CompletingSame DEF SameView
  <2>4. View(s) = "idle"
    BY <2>1 DEF View
  <2>5. View(s)' = "queued"
    <3>1. ~Answering(s) /\ ~Failing(s)
      BY <2>1, CompletingIs DEF Answering, Failing
    <3>2. ~Answering(s)' /\ ~Failing(s)'
      BY <2>1, <3>1, CompletingSame
    <3> QED BY <2>2, <3>2 DEF View, Served
  <2>6. IOState[s] = "idle" /\ IOState' = [IOState EXCEPT ![s] = "queued"]
    BY <2>3, <2>4, <2>5, Moves
  <2> QED BY <2>6 DEF Abstract!Next, Abstract!Accept, Abstract!Move
<1>2. CASE AssignUnique(s) \/ SendCheck(s)
  <2>1. /\ spc[s] \in {"started", "mapped"} /\ spc'[s] \in {"mapped", "rcu", "refused"}
        /\ \A r \in Slots \ {s} : spc'[r] = spc[r] /\ unique'[r] = unique[r]
    BY <1>2 DEF AssignUnique, SendCheck, SlotStep, IdInv, IdTypes
  <2>2. UNCHANGED <<ends, hands, target>>
    BY <1>2 DEF AssignUnique, SendCheck, daemon_vars
  <2>3. \A r \in Slots \ {s} : SameView(r)
    BY <2>1, <2>2, ServedSame, CompletingSame DEF SameView
  <2>4. SameView(s)
    BY <2>1, <2>2, CompletingSame DEF SameView, Served
  <2> QED BY <2>3, <2>4, Stutters
<1>3. CASE Enqueue(s)
  <2>1. spc[s] = "rcu" /\ spc' = [spc EXCEPT ![s] = "sent"] /\ UNCHANGED <<unique, ends, hands, target>>
    BY <1>3 DEF Enqueue, SlotStep, daemon_vars
  <2>2. spc'[s] = "sent" /\ \A r \in Slots \ {s} : spc'[r] = spc[r] /\ unique'[r] = unique[r]
    BY <2>1 DEF IdInv, IdTypes
  <2>3. \A r \in Slots \ {s} : SameView(r)
    BY <2>1, <2>2, ServedSame, CompletingSame DEF SameView
  <2>4. s \in InFlight /\ s \notin Sent
    BY <2>1 DEF InFlight, SlotStages, Sent
  <2>5. unique[s] \notin hands
    <3>1. \A r \in InFlight : unique[r] = unique[s] => r = s
      BY <2>4 DEF IdInv, Accounted
    <3> QED BY <2>4, <3>1, SentFacts DEF ListInv, HandsSent
  <2>6. \A t \in Threads : target[t] # s
    BY <2>4, ConnAssumption DEF ListInv, ThreadOK
  <2>7. SameView(s)
    BY <2>1, <2>2, <2>5, <2>6, CompletingSame DEF SameView, Served
  <2> QED BY <2>3, <2>7, Stutters
<1>4. CASE SendRefused(s)
  <2>1. spc[s] = "refused" /\ BeginEnd(Sender, s, "ENOTCONN") /\ UNCHANGED <<hands, target>>
    BY <1>4 DEF SendRefused, daemon_vars
  <2>2. /\ View(s)' = "failed" /\ View(s) = IF Served(s) THEN "served" ELSE "queued"
        /\ \A r \in Slots \ {s} : /\ spc'[r] = spc[r] /\ unique'[r] = unique[r]
                                  /\ (Answering(r)' <=> Answering(r)) /\ (Failing(r)' <=> Failing(r))
    BY <2>1, EndView DEF Errors
  <2>3. \A r \in Slots \ {s} : SameView(r)
    BY <2>1, <2>2, ServedSame DEF SameView
  <2>4. ~Served(s)
    BY <2>1 DEF Served
  <2>5. IOState[s] = "queued" /\ IOState' = [IOState EXCEPT ![s] = "failed"]
    BY <2>2, <2>3, <2>4, Moves
  <2> QED BY <2>5 DEF Abstract!Next, Abstract!Fail, Abstract!Move
<1> QED BY <1>1, <1>2, <1>3, <1>4 DEF SubmitNext

\* The callback is Complete; returning the id is not seen.
LEMMA EndImplements ==
  ASSUME IdInv, IdInv', NEW e \in ends, EndNext(e)
  PROVE  BlockStep
<1> USE DEF BlockStep
<1>1. CASE EndCallback(e)
  <2> DEFINE s == e.req
             d == [e EXCEPT !.called = TRUE]
  <2>1. /\ ~e.called /\ spc' = [spc EXCEPT ![s] = "idle"] /\ ends' = (ends \ {e}) \union {d}
        /\ UNCHANGED <<unique, hands, target>>
    BY <1>1 DEF EndCallback, daemon_vars
  <2>2. s \in Slots /\ e.err \in Errors \union {"answer"} /\ d.called /\ d.req = s
    BY DEF IdInv, IdTypes, Calls
  <2> HIDE DEF d
  <2>3. spc'[s] = "idle" /\ spc[s] = "ending" /\ \A r \in Slots \ {s} : spc'[r] = spc[r] /\ unique'[r] = unique[r]
    BY <2>1, <2>2 DEF IdInv, IdTypes, CompletedOnce
  <2>4. \A r \in Slots \ {s} : (Answering(r)' <=> Answering(r)) /\ (Failing(r)' <=> Failing(r))
    BY <2>1, <2>2 DEF Answering, Failing, Completing
  <2>5. \A r \in Slots \ {s} : SameView(r)
    BY <2>1, <2>3, <2>4, ServedSame DEF SameView
  <2>6. View(s)' = "idle" /\ View(s) \in {"answered", "failed"}
    <3>1. Answering(s) \/ Failing(s)
      BY <2>1, <2>2 DEF Answering, Failing, Completing
    <3> QED BY <2>3, <3>1 DEF View
  <2>7. IOState[s] \in {"answered", "failed"} /\ IOState' = [IOState EXCEPT ![s] = "idle"]
    BY <2>2, <2>5, <2>6, Moves
  <2> QED BY <2>2, <2>7 DEF Abstract!Next, Abstract!Complete, Abstract!Move
<1>2. CASE PutUnique(e)
  <2>1. e.called /\ ends' = ends \ {e} /\ UNCHANGED <<spc, unique, hands, target>>
    BY <1>2 DEF PutUnique, slot_vars, daemon_vars
  <2>2. \A r \in Slots : (Answering(r)' <=> Answering(r)) /\ (Failing(r)' <=> Failing(r))
    BY <2>1 DEF Answering, Failing, Completing
  <2>3. \A r \in Slots : SameView(r)
    BY <2>1, <2>2, ServedSame DEF SameView
  <2> QED BY <2>3, Stutters
<1> QED BY <1>1, <1>2 DEF EndNext

\* A step that touches neither the requests, nor their ends, nor the daemon's hands
\* and targets.
LEMMA ElsewhereImplements ==
  ASSUME IdInv, IdInv', UNCHANGED <<spc, unique, ends, hands, target>>
  PROVE  BlockStep
<1>1. \A r \in Slots : SameView(r)
  BY ServedSame, CompletingSame DEF SameView
<1> QED BY <1>1, Stutters DEF BlockStep

\* A copy to the daemon is Offer; one that fails is Fail.
LEMMA ReadImplements ==
  ASSUME IdInv, IdInv', ListInv, NEW t \in Threads, ReadNext(t)
  PROVE  BlockStep
<1>1. CASE ReadSleep(t) \/ ReadInterrupted(t) \/ ReadCut(t)
  BY <1>1, ElsewhereImplements DEF ReadSleep, ReadInterrupted, ReadCut, slot_vars
<1> USE DEF BlockStep
<1>0. PICK s : s = Head(batch[t])
  OBVIOUS
<1>2. ASSUME CopyOk(t) \/ CopyFault(t)
      PROVE s \in On(batch[t]) /\ s \in Sent /\ s \in Slots /\ spc[s] = "sent" /\ ~Served(s)
  <2>1. tpc[t] = "copy"
    BY <1>2 DEF CopyOk, CopyFault, InCall
  <2> QED BY <1>0, <2>1, ThreadFacts, ServedFacts DEF Sent
<1>3. CASE CopyOk(t)
  <2>1. hands' = hands \union {unique[s]} /\ UNCHANGED <<spc, unique, ends, target>>
    BY <1>0, <1>3 DEF CopyOk, slot_vars
  <2>2. s \in Sent /\ s \in Slots /\ spc[s] = "sent" /\ ~Served(s)
    BY <1>2, <1>3
  <2>3. \A r \in Slots \ {s} : Served(r)' <=> Served(r)
    <3>1. \A r \in Sent : unique[r] = unique[s] => r = s
      BY <2>2, SentFacts
    <3> QED BY <2>1, <3>1 DEF Served, Sent
  <2>4. \A r \in Slots \ {s} : SameView(r)
    BY <2>1, <2>3, CompletingSame DEF SameView
  <2>5. ~Answering(s) /\ ~Failing(s)
    BY <2>2, CompletingIs DEF Answering, Failing
  <2>6. View(s) = "queued"
    BY <2>2, <2>5 DEF View
  <2>7. View(s)' = "served"
    <3>1. ~Answering(s)' /\ ~Failing(s)'
      BY <2>1, <2>5, CompletingSame
    <3>2. Served(s)'
      BY <2>1, <2>2 DEF Served
    <3> QED BY <2>1, <2>2, <3>1, <3>2 DEF View
  <2>8. IOState[s] = "queued" /\ IOState' = [IOState EXCEPT ![s] = "served"]
    BY <2>2, <2>4, <2>6, <2>7, Moves
  <2> QED BY <2>2, <2>8 DEF Abstract!Next, Abstract!Offer, Abstract!Move
<1>4. CASE CopyFault(t)
  <2>1. BeginEnd(t, s, "EIO") /\ UNCHANGED <<hands, target>>
    BY <1>0, <1>4 DEF CopyFault
  <2>2. s \in Sent /\ s \in Slots /\ spc[s] = "sent" /\ ~Served(s)
    BY <1>2, <1>4
  <2>3. /\ View(s)' = "failed" /\ View(s) = IF Served(s) THEN "served" ELSE "queued"
        /\ \A r \in Slots \ {s} : /\ spc'[r] = spc[r] /\ unique'[r] = unique[r]
                                  /\ (Answering(r)' <=> Answering(r)) /\ (Failing(r)' <=> Failing(r))
    BY <2>1, <2>2, EndView DEF Errors
  <2>4. \A r \in Slots \ {s} : SameView(r)
    BY <2>1, <2>3, ServedSame DEF SameView
  <2>5. IOState[s] = "queued" /\ IOState' = [IOState EXCEPT ![s] = "failed"]
    BY <2>2, <2>3, <2>4, Moves
  <2> QED BY <2>2, <2>5 DEF Abstract!Next, Abstract!Fail, Abstract!Move
<1> QED BY <1>1, <1>3, <1>4 DEF ReadNext

\* An answer is Answer; finding, unlinking and a fault are not seen.
LEMMA ReplyImplements ==
  ASSUME IdInv, IdInv', ListInv, NEW t \in Threads, ReplyNext(t)
  PROVE  BlockStep
<1>1. CASE ReplyUnlink(t)
  BY <1>1, ElsewhereImplements DEF ReplyUnlink, slot_vars
<1> USE DEF BlockStep
<1>2. ASSUME NEW v \in hands, ReplyFind(t, v) PROVE BlockStep
  <2>1. PICK s \in Sent : unique[s] = v
    BY DEF ListInv, HandsSent
  <2>2. /\ tpc[t] = "run" /\ target' = [target EXCEPT ![t] = s] /\ hands' = hands \ {unique[s]}
        /\ UNCHANGED <<spc, unique, ends>>
    BY <1>2, <2>1, FindIs DEF ReplyFind, InCall, slot_vars
  <2>3. target[t] = NoReq /\ target'[t] = s /\ \A u \in Threads : u # t => target'[u] = target[u]
    BY <2>2 DEF ListInv, ListTypes, ThreadOK
  <2>4. ASSUME NEW r \in Slots PROVE Served(r)' <=> Served(r)
    <3>0. r # NoReq /\ (r \in Sent <=> spc[r] = "sent")
      BY ConnAssumption DEF Sent
    <3>1. CASE r = s
      <4>1. unique[r] \in hands /\ target'[t] = r
        BY <2>1, <2>3, <3>1
      <4> QED BY <2>2, <4>1, ServedMoved
    <3>2. CASE r # s
      <4>1. r \in Sent => unique[r] # unique[s]
        BY <3>2, SentFacts
      <4>2. \A u \in Threads : target'[u] = r <=> target[u] = r
        BY <2>3, <3>0, <3>2
      <4>3. spc[r] = "sent" => (unique[r] \in hands' <=> unique[r] \in hands)
        BY <2>2, <3>0, <4>1
      <4> QED BY <2>2, <4>2, <4>3, ServedKept
    <3> QED BY <3>1, <3>2
  <2>5. \A r \in Slots : SameView(r)
    BY <2>2, <2>4, CompletingSame DEF SameView
  <2> QED BY <2>5, Stutters
<1>0. PICK s : s = target[t]
  OBVIOUS
<1>3. ASSUME ReplyFill(t) \/ ReplyFault(t)
      PROVE  /\ s \in Sent /\ s \in Slots /\ spc[s] = "sent" /\ Served(s) /\ target' = [target EXCEPT ![t] = NoReq]
             /\ \A r \in Slots \ {s} : \A u \in Threads : target'[u] = r <=> target[u] = r
  <2>1. tpc[t] = "fill" /\ target' = [target EXCEPT ![t] = NoReq]
    BY <1>3 DEF ReplyFill, ReplyFault, InCall
  <2>2. s \in Sent /\ s \in Slots /\ spc[s] = "sent"
    BY <1>0, <2>1, ThreadFacts DEF Sent
  <2>3. NoReq \notin Slots
    BY ConnAssumption
  <2> QED BY <1>0, <2>1, <2>2, <2>3 DEF Served, ListInv, ListTypes
<1>4. CASE ReplyFill(t)
  <2>1. BeginEnd(t, s, "answer") /\ hands' = hands
    BY <1>0, <1>4 DEF ReplyFill
  <2>2. /\ s \in Sent /\ s \in Slots /\ spc[s] = "sent" /\ Served(s)
        /\ \A r \in Slots \ {s} : \A u \in Threads : target'[u] = r <=> target[u] = r
    BY <1>3, <1>4
  <2>3. /\ View(s)' = "answered" /\ View(s) = IF Served(s) THEN "served" ELSE "queued"
        /\ \A r \in Slots \ {s} : /\ spc'[r] = spc[r] /\ unique'[r] = unique[r]
                                  /\ (Answering(r)' <=> Answering(r)) /\ (Failing(r)' <=> Failing(r))
    BY <2>1, <2>2, EndView
  <2>4. \A r \in Slots \ {s} : SameView(r)
    <3>1. \A r \in Slots \ {s} : Served(r)' <=> Served(r)
      BY <2>1, <2>2, <2>3, ServedKept
    <3> QED BY <2>3, <3>1 DEF SameView
  <2>5. IOState[s] = "served" /\ IOState' = [IOState EXCEPT ![s] = "answered"]
    BY <2>2, <2>3, <2>4, Moves
  <2> QED BY <2>2, <2>5 DEF Abstract!Next, Abstract!Answer, Abstract!Move
<1>5. CASE ReplyFault(t)
  <2>1. hands' = hands \union {unique[s]} /\ UNCHANGED <<spc, unique, ends>>
    BY <1>0, <1>5 DEF ReplyFault
  <2>2. /\ s \in Sent /\ s \in Slots /\ spc[s] = "sent" /\ Served(s)
        /\ \A r \in Slots \ {s} : \A u \in Threads : target'[u] = r <=> target[u] = r
    BY <1>3, <1>5
  <2>3. \A r \in Sent : unique[r] = unique[s] => r = s
    BY <2>2, SentFacts
  <2>4. ASSUME NEW r \in Slots PROVE Served(r)' <=> Served(r)
    <3>1. CASE r = s
      <4>1. unique[r] \in hands' /\ target[t] = r
        BY <1>0, <2>1, <3>1
      <4> QED BY <2>1, <4>1, ServedMoved
    <3>2. CASE r # s
      <4>1. spc[r] = "sent" => (unique[r] \in hands' <=> unique[r] \in hands)
        BY <2>1, <2>3, <3>2 DEF Sent
      <4> QED BY <2>1, <2>2, <3>2, <4>1, ServedKept
    <3> QED BY <3>1, <3>2
  <2>5. \A r \in Slots : SameView(r)
    BY <2>1, <2>4, CompletingSame DEF SameView
  <2> QED BY <2>5, Stutters
<1> QED BY <1>1, <1>2, <1>4, <1>5 DEF ReplyNext

\* The daemon goes away and its hands are emptied.
LEMMA CloseImplements ==
  ASSUME IdInv, IdInv', ListInv, NEW p \in Openers, Close(p)
  PROVE  BlockStep
<1>1. (\A t \in Threads : tpc[t] = "run") /\ hands' = {} /\ UNCHANGED <<spc, unique, ends, target>>
  BY DEF Close, slot_vars
<1>2. \A t \in Threads : target[t] = NoReq
  BY <1>1 DEF ListInv, ThreadOK
<1>3. \A r \in Slots : ~Served(r)'
  BY <1>1, <1>2, ConnAssumption DEF Served
<1>4. \A r \in Slots : (Answering(r)' <=> Answering(r)) /\ (Failing(r)' <=> Failing(r))
  BY <1>1, CompletingSame
<1>5. ASSUME NEW r \in Slots PROVE View(r)' = IF View(r) = "served" THEN "queued" ELSE View(r)
  BY <1>1, <1>3, <1>4 DEF View
<1>6. IOState = [s \in Slots |-> View(s)] /\ IOState' = [s \in Slots |-> View(s)']
  BY ViewNext
<1>7. IOState' = [s \in Slots |-> IF IOState[s] = "served" THEN "queued" ELSE IOState[s]]
  BY <1>5, <1>6
<1> QED BY <1>7 DEF BlockStep, Abstract!Next, Abstract!Withdraw

\* The abort is Fail: no daemon is there to hold the request.
LEMMA AbortImplements ==
  ASSUME IdInv, IdInv', ListInv, ~SessionOpen, AbortOne
  PROVE  BlockStep
<1>1. PICK s \in Sent : BeginEnd(Worker, s, "ECONNABORTED") /\ UNCHANGED <<id_vars, daemon_vars, load>>
  BY AbortOneIs
<1>2. UNCHANGED <<hands, target>> /\ s \in Slots /\ spc[s] = "sent" /\ ~Served(s)
  BY <1>1, ServedFacts DEF daemon_vars, Sent
<1>3. /\ View(s)' = "failed" /\ View(s) = IF Served(s) THEN "served" ELSE "queued"
      /\ \A r \in Slots \ {s} : /\ spc'[r] = spc[r] /\ unique'[r] = unique[r]
                                /\ (Answering(r)' <=> Answering(r)) /\ (Failing(r)' <=> Failing(r))
  BY <1>1, <1>2, EndView DEF Errors
<1>4. \A r \in Slots \ {s} : SameView(r)
  BY <1>2, <1>3, ServedSame DEF SameView
<1>5. IOState[s] = "queued" /\ IOState' = [IOState EXCEPT ![s] = "failed"]
  BY <1>2, <1>3, <1>4, Moves
<1> QED BY <1>2, <1>5 DEF BlockStep, Abstract!Next, Abstract!Fail, Abstract!Move

\* Every step is a step of BlockIO or is not seen.
LEMMA StepImplements == ConnInv /\ [Next]_vars => BlockStep
<1> SUFFICES ASSUME ConnInv, [Next]_vars PROVE BlockStep
  OBVIOUS
<1>0. ControlInv /\ IdInv /\ ListInv /\ IdInv'
  BY ConnKept DEF ConnInv
<1>1. ASSUME NEW s \in Slots, SubmitNext(s) PROVE BlockStep
  BY <1>0, <1>1, SubmitImplements
<1>2. ASSUME NEW e \in ends, EndNext(e) PROVE BlockStep
  BY <1>0, <1>2, EndImplements
<1>3. CASE Wake
  BY <1>0, <1>3, ElsewhereImplements DEF Wake, slot_vars
<1>4. ASSUME NEW t \in Readers, ReadNext(t) PROVE BlockStep
  BY <1>0, <1>4, ReadImplements DEF Threads
<1>5. ASSUME NEW t \in Repliers, ReplyNext(t) PROVE BlockStep
  BY <1>0, <1>5, ReplyImplements DEF Threads
<1>6. ASSUME NEW p \in Openers, ControlFileNext(p) PROVE BlockStep
  <2>1. CASE Restart(p) \/ OpenOther(p)
    BY <1>0, <2>1, ElsewhereImplements DEF Restart, OpenOther, request_vars, slot_vars, daemon_vars
  <2> QED BY <1>0, <1>6, <2>1, CloseImplements DEF ControlFileNext
<1>7. CASE AbortWorkNext
  <2>1. CASE AbortOne
    <3>1. ~SessionOpen
      BY <1>0, <2>1, AbortMeansClosed DEF AbortOne
    <3> QED BY <1>0, <2>1, <3>1, AbortImplements
  <2>2. CASE AbortOther \/ AbortBegin \/ AbortGrace \/ AbortDone
    BY <1>0, <2>2, ElsewhereImplements DEF AbortOther, AbortBegin, AbortGrace, AbortDone, request_vars, slot_vars,
                                           daemon_vars
  <2> QED BY <1>7, <2>1, <2>2 DEF AbortWorkNext
<1>8. CASE UNCHANGED vars
  BY <1>0, <1>8, ElsewhereImplements DEF vars, request_vars, slot_vars, daemon_vars
<1> QED BY <1>1, <1>2, <1>3, <1>4, <1>5, <1>6, <1>7, <1>8 DEF Next

\* The slow path implements BlockIO: an accepted IO is completed once, answered
\* only by a daemon that holds it and failed by the kernel only while none does.
THEOREM BlockSafe == Spec => ImplementsBlockIO
<1>1. Init => Abstract!Init
  <2> SUFFICES ASSUME Init PROVE Abstract!Init
    OBVIOUS
  <2>1. IdInv
    BY ConnInitial DEF ConnInv
  <2>2. \A s \in Slots : View(s) = "idle"
    BY DEF Init, View
  <2> QED BY <2>1, <2>2, ViewIs DEF Seen, Abstract!Init
<1>2. ConnInv /\ [Next]_vars => [Abstract!Next]_IOState
  BY StepImplements DEF BlockStep
<1> QED BY <1>1, <1>2, ConnInitial, ConnKept, PTL DEF Spec, ImplementsBlockIO, Abstract!Spec

--------------------------------------------------------------------------------
(***************************************************************************)
(* The control file on its own, with any number of writers of the sysfs    *)
(* timeout.  AbortNeverConnected is false here: the work may run on a      *)
(* connection that is up, and IO may be admitted again behind it.          *)
(***************************************************************************)

\* An open under way ends with the connection up.  A work that is past the
\* clearing of allow_disconnected is not counted on to do it again: when IO is
\* admitted meanwhile, a close has armed the work anew, or none was needed.
TimerInv ==
  /\ opc \in [Openers -> OpenStages] /\ apc \in [Admins -> {"idle", "cancel", "schedule"}]
  /\ \A p \in Openers : opc[p] \in Up => connected
  /\ stage \in {"sync", "drain", "setup"} =>
       ~allow_disconnected \/ connected \/ armed \/ \E p \in Openers : Opening(p)
  /\ TimerNotLost

\* pxd_control_open and pxd_control_release keep the timer.
LEMMA OpenerKeepsTimer ==
  ASSUME TimerInv, NEW p \in Openers, OpenerNext(p)
  PROVE  TimerInv'
<1> USE DEF TimerInv, TimerNotLost, Opening, OpenStages, Up, OpenStep, conn_vars, work_vars
<1>0. \A q \in Openers : q = p
  BY OneDaemon
<1>1. CASE OpenCheck(p)
  BY <1>0, <1>1 DEF OpenCheck
<1>2. CASE OpenCancel(p)
  BY <1>0, <1>2 DEF OpenCancel
<1>3. CASE OpenRestart(p)
  BY <1>0, <1>3 DEF OpenRestart
<1>4. CASE OpenConnect(p)
  BY <1>0, <1>4 DEF OpenConnect
<1>5. CASE OpenAllow(p)
  BY <1>0, <1>5 DEF OpenAllow
<1>6. CASE OpenSetup(p)
  BY <1>0, <1>6 DEF OpenSetup
<1>7. CASE Release(p)
  BY <1>0, <1>7 DEF Release
<1> QED BY <1>1, <1>2, <1>3, <1>4, <1>5, <1>6, <1>7 DEF OpenerNext

\* pxd_timeout_store puts back the timer it takes down.
LEMMA AdminKeepsTimer ==
  ASSUME TimerInv, NEW a \in Admins, AdminNext(a)
  PROVE  TimerInv'
<1> USE DEF TimerInv, TimerNotLost, Opening, AdminStep, conn_vars, work_vars
<1>1. CASE TimeoutStore(a)
  BY <1>1 DEF TimeoutStore
<1>2. CASE TimeoutCancel(a)
  BY <1>2 DEF TimeoutCancel
<1>3. CASE TimeoutSchedule(a)
  BY <1>3 DEF TimeoutSchedule
<1> QED BY <1>1, <1>2, <1>3 DEF AdminNext

\* pxd_abort_context ends the disconnect before it ends itself.
LEMMA AbortKeepsTimer ==
  ASSUME TimerInv, AbortNext
  PROVE  TimerInv'
<1> USE DEF TimerInv, TimerNotLost, Opening, WorkStep, conn_vars
<1>1. CASE AbortFire
  BY <1>1 DEF AbortFire
<1>2. CASE AbortDisallow
  BY <1>2 DEF AbortDisallow
<1>3. CASE AbortSync
  BY <1>3 DEF AbortSync
<1>4. CASE AbortDrained
  BY <1>4 DEF AbortDrained
<1>5. CASE AbortSetup
  BY <1>5 DEF AbortSetup
<1> QED BY <1>1, <1>2, <1>3, <1>4, <1>5 DEF AbortNext

\* With one daemon and any number of writers of the sysfs timeout, a disconnect
\* that holds IO back always has somebody who will end it: the timer, the work,
\* an open, or a write that has yet to put the timer back (pxd.c:1943, 2424).
THEOREM TimerSafe == ControlSpec => []TimerNotLost
<1>1. ControlInit => TimerInv
  BY DEF ControlInit, TimerInv, TimerNotLost, OpenStages, Up
<1>2. TimerInv /\ [ControlNext]_control_vars => TimerInv'
  <2> SUFFICES ASSUME TimerInv, [ControlNext]_control_vars PROVE TimerInv'
    OBVIOUS
  <2>1. CASE UNCHANGED control_vars
    BY <2>1 DEF control_vars, conn_vars, work_vars, TimerInv, TimerNotLost, Opening
  <2> QED BY <2>1, OpenerKeepsTimer, AdminKeepsTimer, AbortKeepsTimer DEF ControlNext
<1>3. TimerInv => TimerNotLost
  BY DEF TimerInv
<1> QED BY <1>1, <1>2, <1>3, PTL DEF ControlSpec

================================================================================
