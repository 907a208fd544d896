----------------------------- MODULE PxdSyncProofs -----------------------------
(***************************************************************************)
(* The count of the syncers and what a suspend reports, for any number of  *)
(* threads that suspend and resume the device and any number of files.     *)
(***************************************************************************)
EXTENDS PxdSync, Counting

\* works that callers have still to queue
ToCome == UNION {toqueue[c] : c \in Callers}

\* works that have not passed the count
Left == ToCome \union queued \union running

\* A call that is between the check for an earlier sync and its last
\* queue_work, and its part before the first.
Starts == {"set", "reinit", "queue"}
Prepares == {"set", "reinit"}

\* While no two calls have passed the check together, one call at most starts
\* its works, the count stands for exactly the works that are to be queued,
\* queued or running, and a work is only in one of these.
OneStarts == \A c, d \in Callers : pc[c] \in Starts /\ pc[d] \in Starts => c = d

Counted ==
  /\ OneStarts
  /\ \A c \in Callers :
       /\ pc[c] = "set" => sync_done = 0
       /\ pc[c] = "reinit" => sync_done = Cardinality(Files)
       /\ pc[c] \in Prepares => queued = {} /\ running = {}
       /\ pc[c] = "queue" => toqueue[c] # {}
       /\ toqueue[c] \intersect (queued \union running) = {}
  /\ (\A c \in Callers : pc[c] \notin Prepares) => sync_done = Cardinality(Left)
  /\ queued \intersect running = {}
  /\ completed => Left = {}
  /\ bug = FALSE

\* what the result of the last sync of f says
Result(f) == IF f \in rc THEN "failed" ELSE "synced"

\* While a call waits, or has been woken and no other call has begun to sync,
\* what a work that ended in it has done is what its result says.
Answered(c) ==
  /\ pc[c] \in {"queue", "wait"} => \A f \in Files :
       /\ f \in running \ ended => fresh[c][f] = "begun" /\ f \notin rc
       /\ f \notin toqueue[c] \union queued \union (running \ ended) => fresh[c][f] = Result(f)
  /\ pc[c] = "read" /\ ~erased =>
       running = {} /\ \A f \in Files : fresh[c][f] = Result(f)

\* who suspends the device
Suspenders == {c \in Callers : pc[c] # "out"}

SyncInv ==
  /\ TypeOK
  /\ suspend = Cardinality(Suspenders)
  /\ \A c \in Callers : pc[c] # "queue" => toqueue[c] = {}
  /\ ~shared => Counted /\ \A c \in Callers : Answered(c)
  /\ SyncedWhenHeld

LEMMA Sizes ==
  ASSUME TypeOK
  PROVE  /\ IsFiniteSet(Left) /\ Cardinality(Left) \in Nat
         /\ Cardinality(Files) \in Nat /\ Cardinality(Files) # 0
         /\ Cardinality(Callers) \in Nat
         /\ IsFiniteSet(Suspenders) /\ Cardinality(Suspenders) \in 0 .. Cardinality(Callers)
<1>1. Left \in SUBSET Files
  BY DEF TypeOK, Left, ToCome
<1>2. IsFiniteSet(Left)
  BY <1>1, FS_Subset, SyncAssumption
<1>3. IsFiniteSet(Suspenders) /\ Cardinality(Suspenders) <= Cardinality(Callers)
  BY FS_Subset, SyncAssumption DEF Suspenders
<1>4. Cardinality(Suspenders) \in Nat /\ Cardinality(Callers) \in Nat
  BY <1>3, FS_CardinalityType, SyncAssumption
<1>5. Cardinality(Left) \in Nat /\ Cardinality(Files) \in Nat /\ Cardinality(Files) # 0
  BY <1>2, FS_CardinalityType, FS_EmptySet, SyncAssumption
<1> QED BY <1>2, <1>3, <1>4, <1>5

LEMMA SyncInitial == Init => SyncInv
<1> SUFFICES ASSUME Init PROVE SyncInv
  OBVIOUS
<1>1. Cardinality(Files) \in Nat /\ Cardinality(Callers) \in Nat
  BY SyncAssumption, FS_CardinalityType
<1>2. TypeOK
  <2>1. sync_done \in 0 .. Cardinality(Files) /\ suspend \in 0 .. Cardinality(Callers)
    BY <1>1 DEF Init
  <2>2. pc \in [Callers -> CallStages] /\ toqueue \in [Callers -> SUBSET Files]
    BY DEF Init, CallStages
  <2>3. fresh \in [Callers -> [Files -> {"none", "begun", "synced", "failed"}]]
    BY DEF Init
  <2> QED BY <2>1, <2>2, <2>3 DEF Init, TypeOK
<1>3. Suspenders = {} /\ Left = {}
  BY DEF Init, Suspenders, Left, ToCome
<1>4. suspend = Cardinality(Suspenders) /\ sync_done = Cardinality(Left)
  BY <1>3, FS_EmptySet DEF Init
<1>5. Counted
  BY <1>3, <1>4 DEF Init, Counted, OneStarts, Starts, Prepares
<1>6. \A c \in Callers : Answered(c)
  BY DEF Init, Answered
<1>7. SyncedWhenHeld
  BY DEF Init, SyncedWhenHeld, Flushed
<1> QED BY <1>2, <1>4, <1>5, <1>6, <1>7 DEF Init, SyncInv

--------------------------------------------------------------------------------
(***************************************************************************)
(* Types and suspensions                                                   *)
(***************************************************************************)

\* The suspensions follow the stage of the one caller that moves.
LEMMA SuspendersMove ==
  ASSUME TypeOK, NEW c \in Callers, NEW s, pc' = [pc EXCEPT ![c] = s]
  PROVE  /\ IsFiniteSet(Suspenders')
         /\ Cardinality(Suspenders') + (IF pc[c] # "out" THEN 1 ELSE 0)
              = Cardinality(Suspenders) + (IF s # "out" THEN 1 ELSE 0)
         /\ Cardinality(Suspenders') \in 0 .. Cardinality(Callers)
<1>1. pc'[c] = s /\ \A d \in Callers \ {c} : pc'[d] = pc[d]
  BY DEF TypeOK
<1>2. Suspenders \ {c} = Suspenders' \ {c}
  BY <1>1 DEF Suspenders
<1>3. IsFiniteSet(Suspenders) /\ IsFiniteSet(Suspenders') /\ Cardinality(Suspenders') <= Cardinality(Callers)
  BY FS_Subset, SyncAssumption DEF Suspenders
<1>4. /\ Cardinality(Suspenders) \in Nat /\ Cardinality(Suspenders') \in Nat
      /\ Cardinality(Suspenders') + Share(c, Suspenders) = Cardinality(Suspenders) + Share(c, Suspenders')
  BY <1>2, <1>3, CountOne
<1>5. /\ Share(c, Suspenders) = (IF pc[c] # "out" THEN 1 ELSE 0)
      /\ Share(c, Suspenders') = (IF s # "out" THEN 1 ELSE 0)
  BY <1>1 DEF Share, Suspenders
<1>6. Cardinality(Callers) \in Nat
  BY FS_CardinalityType, SyncAssumption
<1> QED BY <1>3, <1>4, <1>5, <1>6

CallerTyped == TypeOK /\ suspend = Cardinality(Suspenders)
               /\ \A c \in Callers : pc[c] # "queue" => toqueue[c] = {}

Flags == completed \in BOOLEAN /\ shared \in BOOLEAN /\ erased \in BOOLEAN /\ bug \in BOOLEAN

LEMMA FlagTypes == TypeOK /\ Next => Flags'
<1> SUFFICES ASSUME TypeOK, Next PROVE Flags'
  OBVIOUS
<1>0. completed \in BOOLEAN /\ shared \in BOOLEAN /\ erased \in BOOLEAN /\ bug \in BOOLEAN
  BY DEF TypeOK
<1>1. ASSUME NEW c \in Callers, CallerNext(c) PROVE Flags'
  BY <1>0, <1>1, Zenon
     DEF CallerNext, CheckPending, SuspendOnly, SetCount, Reinit, QueueWork, WaitDone,
         Consolidate, WaitTimeout, Fail, Resume, history, Flags
<1>2. ASSUME NEW f \in Files, SyncerNext(f) PROVE Flags'
  BY <1>0, <1>2, Zenon DEF SyncerNext, SyncerBegin, SyncerSynced, SyncerDone, history, Flags
<1> QED BY <1>1, <1>2 DEF Next

LEMMA CallerTypes ==
  ASSUME CallerTyped, NEW c \in Callers, CallerNext(c)
  PROVE  CallerTyped'
<1>0. /\ Cardinality(Files) \in Nat /\ Cardinality(Callers) \in Nat
      /\ Cardinality(Suspenders) \in 0 .. Cardinality(Callers)
  BY Sizes DEF CallerTyped
<1> USE DEF CallerTyped
<1>1. PICK s \in CallStages : pc' = [pc EXCEPT ![c] = s] /\ s = pc'[c]
  BY DEF CallerNext, CheckPending, SuspendOnly, SetCount, Reinit, QueueWork, WaitDone,
         Consolidate, WaitTimeout, Fail, Resume, CallerStep, CallStages, TypeOK
<1>2. pc' \in [Callers -> CallStages]
  BY <1>1 DEF TypeOK
<1>3. /\ Cardinality(Suspenders') + (IF pc[c] # "out" THEN 1 ELSE 0)
           = Cardinality(Suspenders) + (IF s # "out" THEN 1 ELSE 0)
      /\ Cardinality(Suspenders') \in 0 .. Cardinality(Callers)
  BY <1>1, SuspendersMove
<1>4. SUFFICES /\ suspend' = Cardinality(Suspenders')
               /\ toqueue' \in [Callers -> SUBSET Files]
               /\ \A d \in Callers : pc'[d] # "queue" => toqueue'[d] = {}
               /\ sync_done' \in 0 .. Cardinality(Files)
               /\ queued' \subseteq Files /\ running' \subseteq Files
               /\ ended' \subseteq running' /\ rc' \subseteq Files
               /\ fresh' \in [Callers -> [Files -> {"none", "begun", "synced", "failed"}]]
  BY <1>2, <1>3, FlagTypes DEF TypeOK, Flags, Next
<1> USE DEF TypeOK, CallerStep, CallStages, Outside, work_vars, history
<1>5. CASE CheckPending(c)
  BY <1>0, <1>1, <1>3, <1>5 DEF CheckPending
<1>6. CASE SuspendOnly(c)
  BY <1>0, <1>1, <1>3, <1>6 DEF SuspendOnly
<1>7. CASE SetCount(c)
  <2>1. pc[c] # "out" /\ s # "out" /\ suspend' = suspend
    BY <1>1, <1>7 DEF SetCount
  <2>2. suspend' = Cardinality(Suspenders')
    BY <1>0, <1>3, <2>1
  <2> QED BY <1>0, <1>7, <2>2 DEF SetCount
<1>8. CASE Reinit(c)
  <2>1. pc[c] # "out" /\ s # "out" /\ suspend' = suspend
    BY <1>1, <1>8 DEF Reinit
  <2>2. suspend' = Cardinality(Suspenders')
    BY <1>0, <1>3, <2>1
  <2> QED BY <1>0, <1>8, <2>2 DEF Reinit
<1>9. CASE \E f \in Files : QueueWork(c, f)
  BY <1>0, <1>1, <1>3, <1>9 DEF QueueWork
<1>10. CASE WaitDone(c)
  <2>1. pc[c] # "out" /\ s # "out" /\ suspend' = suspend
    BY <1>1, <1>10 DEF WaitDone
  <2>2. suspend' = Cardinality(Suspenders')
    BY <1>0, <1>3, <2>1
  <2> QED BY <1>0, <1>10, <2>2 DEF WaitDone
<1>11. CASE Consolidate(c)
  BY <1>0, <1>1, <1>3, <1>11 DEF Consolidate
<1>12. CASE WaitTimeout(c)
  <2>1. pc[c] # "out" /\ s # "out" /\ suspend' = suspend
    BY <1>1, <1>12 DEF WaitTimeout
  <2>2. suspend' = Cardinality(Suspenders')
    BY <1>0, <1>3, <2>1
  <2> QED BY <1>0, <1>12, <2>2 DEF WaitTimeout
<1>13. CASE \E coe \in BOOLEAN : Fail(c, coe)
  BY <1>0, <1>1, <1>3, <1>13 DEF Fail
<1>14. CASE Resume(c)
  BY <1>0, <1>1, <1>3, <1>14 DEF Resume
<1> QED BY <1>5, <1>6, <1>7, <1>8, <1>9, <1>10, <1>11, <1>12, <1>13, <1>14 DEF CallerNext

LEMMA SyncerTypes ==
  ASSUME CallerTyped, NEW f \in Files, SyncerNext(f)
  PROVE  CallerTyped'
<1>0. Cardinality(Files) \in Nat
  BY Sizes DEF CallerTyped
<1> USE DEF CallerTyped
<1>1. UNCHANGED <<pc, toqueue, suspend>> /\ Suspenders' = Suspenders
  BY DEF SyncerNext, SyncerBegin, SyncerSynced, SyncerDone, caller_vars, Suspenders
<1>2. /\ sync_done' \in 0 .. Cardinality(Files)
      /\ queued' \subseteq Files /\ running' \subseteq Files
      /\ ended' \subseteq running' /\ rc' \subseteq Files
  BY <1>0 DEF SyncerNext, SyncerBegin, SyncerSynced, SyncerDone, TypeOK, history
<1>3. fresh' \in [Callers -> [Files -> {"none", "begun", "synced", "failed"}]]
  BY DEF SyncerNext, SyncerBegin, SyncerSynced, SyncerDone, SyncEnds, TypeOK, history
<1> QED BY <1>1, <1>2, <1>3, FlagTypes DEF TypeOK, Flags, Next

--------------------------------------------------------------------------------
(***************************************************************************)
(* The count                                                               *)
(***************************************************************************)

\* What is known of the other callers while c starts its works.
LEMMA Alone ==
  ASSUME SyncInv, ~shared, NEW c \in Callers, pc[c] \in Starts
  PROVE  \A d \in Callers \ {c} : pc[d] \notin Starts /\ toqueue[d] = {}
BY DEF SyncInv, Counted, OneStarts, Starts

LEMMA CallerCounts ==
  ASSUME SyncInv, ~shared, NEW c \in Callers, CallerNext(c), ~shared'
  PROVE  Counted'
<1>1. /\ TypeOK /\ Counted
      /\ \A d \in Callers : pc[d] # "queue" => toqueue[d] = {}
  BY DEF SyncInv
<1>2. /\ IsFiniteSet(Left) /\ Cardinality(Left) \in Nat
      /\ Cardinality(Files) \in Nat /\ Cardinality(Files) # 0
  BY <1>1, Sizes
<1>3. bug' = FALSE
  BY <1>1, Zenon
     DEF Counted, CallerNext, CheckPending, SuspendOnly, SetCount, Reinit, QueueWork, WaitDone,
         Consolidate, WaitTimeout, Fail, Resume
<1>4. ASSUME UNCHANGED <<sync_done, queued, running, toqueue>>, completed' => completed,
             pc[c] \notin Prepares \union {"queue"}, pc'[c] \notin Prepares \union {"queue"},
             \A d \in Callers \ {c} : pc'[d] = pc[d]
      PROVE  Counted'
  <2>1. Left' = Left
    BY <1>4 DEF Left, ToCome
  <2> QED BY <1>1, <1>3, <1>4, <2>1 DEF Counted, OneStarts, Starts, Prepares
<1>5. CASE CheckPending(c)
  <2>1. /\ pc' = [pc EXCEPT ![c] = "set"] /\ UNCHANGED <<sync_done, queued, running, toqueue>>
        /\ completed' = completed /\ sync_done = 0 /\ queued = {} /\ running = {}
        /\ pc[c] = "out" /\ \A d \in Callers \ {c} : pc[d] # "set"
    BY <1>5 DEF CheckPending, CallerStep, SyncWorkPending, work_vars
  <2>2. \A d \in Callers : pc[d] \notin Prepares
    BY <1>1, <1>2, <2>1 DEF Counted, Prepares
  <2>3. Left = {}
    BY <1>1, <1>2, <2>1, <2>2, FS_EmptySet DEF Counted
  <2>4. \A d \in Callers : toqueue[d] = {}
    BY <2>3 DEF Left, ToCome
  <2>5. \A d \in Callers : pc[d] \notin Starts
    BY <1>1, <2>2, <2>4 DEF Counted, Starts, Prepares
  <2>6. Left' = {}
    BY <2>1, <2>3 DEF Left, ToCome
  <2>7. pc'[c] = "set" /\ \A d \in Callers \ {c} : pc'[d] = pc[d]
    BY <1>1, <2>1 DEF TypeOK
  <2> QED BY <1>3, <2>1, <2>4, <2>5, <2>6, <2>7 DEF Counted, OneStarts, Starts, Prepares
<1>6. CASE SuspendOnly(c)
  BY <1>1, <1>4, <1>6 DEF SuspendOnly, CallerStep, TypeOK, work_vars, Prepares
<1>7. CASE SetCount(c)
  <2>1. /\ pc[c] = "set" /\ pc'[c] = "reinit" /\ \A d \in Callers \ {c} : pc'[d] = pc[d]
        /\ sync_done' = Cardinality(Files) /\ UNCHANGED <<completed, queued, running, toqueue>>
    BY <1>1, <1>7 DEF SetCount, CallerStep, TypeOK, work_vars
  <2>2. Left' = Left
    BY <2>1 DEF Left, ToCome
  <2> QED BY <1>1, <1>3, <2>1, <2>2, Alone DEF Counted, OneStarts, Starts, Prepares
<1>8. CASE Reinit(c)
  <2>1. /\ pc[c] = "reinit" /\ pc'[c] = "queue" /\ \A d \in Callers \ {c} : pc'[d] = pc[d]
        /\ completed' = FALSE /\ UNCHANGED <<sync_done, queued, running>>
        /\ toqueue'[c] = Files /\ \A d \in Callers \ {c} : toqueue'[d] = toqueue[d]
    BY <1>1, <1>8 DEF Reinit, CallerStep, TypeOK, work_vars
  <2>2. \A d \in Callers \ {c} : pc[d] \notin Starts /\ toqueue[d] = {}
    BY <2>1, Alone DEF Starts
  <2>3. queued = {} /\ running = {} /\ sync_done = Cardinality(Files)
    BY <1>1, <2>1 DEF Counted, Prepares
  <2>4. Left' = Files
    BY <2>1, <2>2, <2>3 DEF Left, ToCome
  <2> QED BY <1>3, <2>1, <2>2, <2>3, <2>4, SyncAssumption DEF Counted, OneStarts, Starts, Prepares
<1>9. CASE \E f \in Files : QueueWork(c, f)
  <2>1. PICK f \in Files : QueueWork(c, f)
    BY <1>9
  <2>2. /\ pc[c] = "queue" /\ pc'[c] = (IF toqueue[c] = {f} THEN "wait" ELSE "queue")
        /\ f \in toqueue[c] /\ \A d \in Callers \ {c} : pc'[d] = pc[d]
        /\ toqueue'[c] = toqueue[c] \ {f} /\ \A d \in Callers \ {c} : toqueue'[d] = toqueue[d]
        /\ queued' = queued \union {f} /\ UNCHANGED <<sync_done, completed, running>>
    BY <1>1, <2>1 DEF QueueWork, CallerStep, TypeOK
  <2>3. \A d \in Callers \ {c} : pc[d] \notin Starts /\ toqueue[d] = {}
    BY <2>2, Alone DEF Starts
  <2>4. Left' = Left
    BY <2>2 DEF Left, ToCome
  <2>5. f \notin running /\ f \notin queued
    BY <1>1, <2>2 DEF Counted
  <2>6. OneStarts' /\ \A d \in Callers : pc'[d] \notin Prepares
    BY <2>2, <2>3 DEF OneStarts, Starts, Prepares
  <2>7. \A d \in Callers : toqueue'[d] \intersect (queued' \union running') = {}
    BY <1>1, <2>2, <2>3 DEF Counted
  <2>8. \A d \in Callers : pc'[d] = "queue" => toqueue'[d] # {}
    BY <2>2, <2>3 DEF Starts
  <2>9. sync_done' = Cardinality(Left')
    BY <1>1, <2>2, <2>3, <2>4 DEF Counted, Starts, Prepares
  <2>10. queued' \intersect running' = {} /\ (completed' => Left' = {})
    BY <1>1, <2>2, <2>4, <2>5 DEF Counted
  <2>11. \A d \in Callers : pc'[d] # "set" /\ pc'[d] # "reinit"
    BY <2>6 DEF Prepares
  <2> QED BY <1>3, <2>6, <2>7, <2>8, <2>9, <2>10, <2>11 DEF Counted
<1>10. CASE WaitDone(c)
  BY <1>1, <1>4, <1>10 DEF WaitDone, CallerStep, TypeOK, work_vars, Prepares
<1>11. CASE Consolidate(c)
  BY <1>1, <1>4, <1>11 DEF Consolidate, CallerStep, TypeOK, work_vars, Prepares
<1>12. CASE WaitTimeout(c)
  BY <1>1, <1>4, <1>12 DEF WaitTimeout, CallerStep, TypeOK, work_vars, Prepares
<1>13. CASE \E coe \in BOOLEAN : Fail(c, coe)
  BY <1>1, <1>4, <1>13 DEF Fail, CallerStep, TypeOK, work_vars, Prepares
<1>14. CASE Resume(c)
  BY <1>1, <1>4, <1>14 DEF Resume, Outside, TypeOK, work_vars, Prepares
<1> QED BY <1>5, <1>6, <1>7, <1>8, <1>9, <1>10, <1>11, <1>12, <1>13, <1>14 DEF CallerNext

LEMMA SyncerCounts ==
  ASSUME SyncInv, ~shared, NEW f \in Files, SyncerNext(f)
  PROVE  Counted'
<1>1. TypeOK /\ Counted
  BY DEF SyncInv
<1>2. /\ IsFiniteSet(Left) /\ Cardinality(Left) \in Nat
  BY <1>1, Sizes
<1>3. UNCHANGED <<pc, toqueue>>
  BY DEF SyncerNext, SyncerBegin, SyncerSynced, SyncerDone, caller_vars
<1>4. OneStarts'
  BY <1>1, <1>3 DEF Counted, OneStarts
<1>5. CASE SyncerBegin(f)
  <2>1. /\ queued' = queued \ {f} /\ running' = running \union {f} /\ f \in queued
        /\ sync_done' = sync_done /\ completed' = completed
    BY <1>5 DEF SyncerBegin
  <2>2. bug' = FALSE
    BY <1>1, <1>5, Zenon DEF SyncerBegin, Counted
  <2>3. Left' = Left
    BY <1>3, <2>1 DEF Left, ToCome
  <2> QED BY <1>1, <1>3, <1>4, <2>1, <2>2, <2>3 DEF Counted
<1>6. CASE SyncerSynced(f)
  <2>1. UNCHANGED <<queued, running, sync_done, completed>>
    BY <1>6 DEF SyncerSynced
  <2>2. bug' = FALSE
    BY <1>1, <1>6, Zenon DEF SyncerSynced, Counted
  <2>3. Left' = Left
    BY <1>3, <2>1 DEF Left, ToCome
  <2> QED BY <1>1, <1>3, <1>4, <2>1, <2>2, <2>3 DEF Counted
<1>7. CASE SyncerDone(f)
  <2>1. /\ f \in running /\ running' = running \ {f} /\ queued' = queued
        /\ bug' = (sync_done = 0) /\ completed' = (completed \/ sync_done = 1)
        /\ sync_done' = IF sync_done = 0 THEN 0 ELSE sync_done - 1
    BY <1>7 DEF SyncerDone
  <2>2. \A d \in Callers : pc[d] \notin Prepares
    BY <1>1, <2>1 DEF Counted
  <2>3. sync_done = Cardinality(Left) /\ f \in Left /\ Left' = Left \ {f}
    BY <1>1, <1>3, <2>1, <2>2 DEF Counted, Left, ToCome
  <2>4. IsFiniteSet(Left') /\ Cardinality(Left') = Cardinality(Left) - 1 /\ Cardinality(Left') \in Nat
    BY <1>2, <2>3, FS_RemoveElement, FS_CardinalityType
  <2>5. sync_done # 0 /\ sync_done' = Cardinality(Left')
    BY <1>2, <2>1, <2>3, <2>4
  <2>6. ~completed
    BY <1>1, <2>3 DEF Counted
  <2>7. sync_done = 1 => Left' = {}
    BY <2>3, <2>4, FS_EmptySet
  <2>8. bug' = FALSE /\ (completed' => Left' = {})
    BY <2>1, <2>5, <2>6, <2>7, Zenon
  <2> QED BY <1>1, <1>3, <1>4, <2>1, <2>2, <2>5, <2>8 DEF Counted, Prepares
<1> QED BY <1>5, <1>6, <1>7 DEF SyncerNext

--------------------------------------------------------------------------------
(***************************************************************************)
(* The answers                                                             *)
(***************************************************************************)

\* A step of a caller changes no result and begins no sync, and the only works
\* it queues are its own.
LEMMA CallerLeaves ==
  ASSUME TypeOK, NEW c \in Callers, CallerNext(c)
  PROVE  /\ UNCHANGED <<running, ended, rc>> /\ (erased' <=> erased) /\ queued \subseteq queued'
         /\ \A d \in Callers \ {c} : pc'[d] = pc[d] /\ toqueue'[d] = toqueue[d] /\ fresh'[d] = fresh[d]
         /\ pc'[c] # "set" => fresh'[c] = fresh[c]
         /\ pc'[c] \in {"queue", "wait"} =>
              /\ pc[c] \in {"reinit", "queue"}
              /\ toqueue[c] \union queued \subseteq toqueue'[c] \union queued'
              /\ pc[c] = "reinit" => toqueue'[c] = Files
         /\ pc'[c] = "read" => pc[c] = "wait" /\ completed
         /\ pc'[c] = "held" => pc[c] = "read" /\ rc = {}
<1>1. erased' = erased
  BY Zenon
     DEF CallerNext, CheckPending, SuspendOnly, SetCount, Reinit, QueueWork, WaitDone,
         Consolidate, WaitTimeout, Fail, Resume, history
<1> USE DEF TypeOK, CallStages, CallerStep, work_vars, history
<1>2. CASE CheckPending(c)
  BY <1>1, <1>2 DEF CheckPending
<1>3. CASE SuspendOnly(c)
  BY <1>1, <1>3 DEF SuspendOnly
<1>4. CASE SetCount(c)
  BY <1>1, <1>4 DEF SetCount
<1>5. CASE Reinit(c)
  BY <1>1, <1>5 DEF Reinit
<1>6. CASE \E f \in Files : QueueWork(c, f)
  BY <1>1, <1>6 DEF QueueWork
<1>7. CASE WaitDone(c)
  BY <1>1, <1>7 DEF WaitDone
<1>8. CASE Consolidate(c)
  BY <1>1, <1>8 DEF Consolidate
<1>9. CASE WaitTimeout(c)
  BY <1>1, <1>9 DEF WaitTimeout
<1>10. CASE \E coe \in BOOLEAN : Fail(c, coe)
  BY <1>1, <1>10 DEF Fail
<1>11. CASE Resume(c)
  BY <1>1, <1>11 DEF Resume
<1> QED BY <1>2, <1>3, <1>4, <1>5, <1>6, <1>7, <1>8, <1>9, <1>10, <1>11 DEF CallerNext

LEMMA CallerAnswers ==
  ASSUME SyncInv, ~shared, NEW c \in Callers, CallerNext(c), NEW d \in Callers
  PROVE  Answered(d)'
<1>1. TypeOK /\ Counted /\ Answered(c) /\ Answered(d)
  BY DEF SyncInv
<1>2. /\ UNCHANGED <<running, ended, rc>> /\ (erased' <=> erased) /\ queued \subseteq queued'
      /\ \A e \in Callers \ {c} : pc'[e] = pc[e] /\ toqueue'[e] = toqueue[e] /\ fresh'[e] = fresh[e]
      /\ pc'[c] # "set" => fresh'[c] = fresh[c]
      /\ pc'[c] \in {"queue", "wait"} =>
           /\ pc[c] \in {"reinit", "queue"}
           /\ toqueue[c] \union queued \subseteq toqueue'[c] \union queued'
           /\ pc[c] = "reinit" => toqueue'[c] = Files
      /\ pc'[c] = "read" => pc[c] = "wait" /\ completed
  BY <1>1, CallerLeaves
<1>3. \A f \in Files : Result(f)' = Result(f)
  BY <1>2 DEF Result
<1>4. CASE d # c
  BY <1>1, <1>2, <1>3, <1>4 DEF Answered
<1>5. CASE d = c /\ pc'[c] = "read"
  <2>1. queued = {} /\ running = {} /\ toqueue[c] = {}
    BY <1>1, <1>2, <1>5 DEF Counted, Left, ToCome
  <2>2. \A f \in Files : fresh[c][f] = Result(f)
    BY <1>1, <1>2, <1>5, <2>1 DEF Answered
  <2>3. running' = {} /\ \A f \in Files : fresh'[c][f] = Result(f)'
    BY <1>2, <1>3, <1>5, <2>1, <2>2
  <2> QED BY <1>5, <2>3 DEF Answered
<1>6. CASE d = c /\ pc'[c] \in {"queue", "wait"} /\ pc[c] = "reinit"
  <2>1. running' = {}
    BY <1>1, <1>2, <1>6 DEF Counted, Prepares
  <2> QED BY <1>2, <1>6, <2>1 DEF Answered
<1>7. CASE d = c /\ pc'[c] \in {"queue", "wait"} /\ pc[c] = "queue"
  <2>1. ASSUME NEW f \in Files
        PROVE  /\ f \in running' \ ended' => fresh'[c][f] = "begun" /\ f \notin rc'
               /\ f \notin toqueue'[c] \union queued' \union (running' \ ended')
                    => fresh'[c][f] = Result(f)'
    BY <1>1, <1>2, <1>3, <1>7 DEF Answered
  <2> QED BY <1>7, <2>1 DEF Answered
<1>8. CASE pc'[c] \notin {"queue", "wait", "read"} /\ d = c
  BY <1>8 DEF Answered
<1> QED BY <1>2, <1>4, <1>5, <1>6, <1>7, <1>8

LEMMA SyncerAnswers ==
  ASSUME SyncInv, ~shared, NEW f \in Files, SyncerNext(f), NEW c \in Callers
  PROVE  Answered(c)'
<1>1. TypeOK /\ Counted /\ Answered(c)
  BY DEF SyncInv
<1>2. UNCHANGED <<pc, toqueue>>
  BY DEF SyncerNext, SyncerBegin, SyncerSynced, SyncerDone, caller_vars
<1>3. f \notin toqueue[c] /\ (f \in running => f \notin queued)
  BY <1>1 DEF Counted, SyncerNext, SyncerBegin, SyncerSynced, SyncerDone
<1>4. CASE SyncerBegin(f)
  <2>1. /\ queued' = queued \ {f} /\ running' = running \union {f} /\ rc' = rc \ {f}
        /\ ended' = ended /\ f \notin ended
    BY <1>1, <1>4 DEF SyncerBegin, TypeOK
  <2>2. pc[c] \in {"queue", "wait"} => fresh'[c] = [fresh[c] EXCEPT ![f] = "begun"]
    BY <1>4 DEF SyncerBegin, Outside
  <2>3. pc[c] = "read" => erased'
    BY <1>4, Zenon DEF SyncerBegin
  <2>4. ASSUME pc[c] \in {"queue", "wait"}, NEW g \in Files
        PROVE  /\ g \in running' \ ended' => fresh'[c][g] = "begun" /\ g \notin rc'
               /\ g \notin toqueue[c] \union queued' \union (running' \ ended')
                    => fresh'[c][g] = Result(g)'
    BY <1>1, <2>1, <2>2, <2>4 DEF Answered, Result, TypeOK
  <2> QED BY <1>2, <2>3, <2>4 DEF Answered
<1>5. CASE SyncerSynced(f)
  <2>1. /\ UNCHANGED <<queued, running>> /\ ended' = ended \union {f}
        /\ f \in running \ ended /\ (erased' <=> erased)
    BY <1>5 DEF SyncerSynced
  <2>2. PICK how \in {"synced", "failed"} :
          /\ fresh' = SyncEnds(f, how)
          /\ rc' = IF how = "synced" THEN rc ELSE rc \union {f}
    BY <1>5 DEF SyncerSynced
  <2>3. ~(pc[c] = "read" /\ ~erased)
    BY <1>1, <2>1 DEF Answered
  <2>4. ASSUME pc[c] \in {"queue", "wait"}
        PROVE  /\ f \notin rc /\ fresh[c][f] = "begun"
               /\ fresh'[c] = [fresh[c] EXCEPT ![f] = how]
    BY <1>1, <2>1, <2>2, <2>4 DEF Answered, SyncEnds
  <2>5. ASSUME pc[c] \in {"queue", "wait"}, NEW g \in Files
        PROVE  /\ g \in running' \ ended' => fresh'[c][g] = "begun" /\ g \notin rc'
               /\ g \notin toqueue[c] \union queued' \union (running' \ ended')
                    => fresh'[c][g] = Result(g)'
    BY <1>1, <2>1, <2>2, <2>4, <2>5 DEF Answered, Result, TypeOK
  <2> QED BY <1>2, <2>1, <2>3, <2>5 DEF Answered
<1>6. CASE SyncerDone(f)
  <2>1. /\ queued' = queued /\ running' = running \ {f} /\ ended' = ended \ {f}
        /\ f \in running \intersect ended /\ rc' = rc /\ fresh' = fresh
        /\ (erased' <=> erased)
    BY <1>6 DEF SyncerDone, history
  <2>2. ~(pc[c] = "read" /\ ~erased)
    BY <1>1, <2>1 DEF Answered
  <2>3. \A g \in Files : Result(g)' = Result(g)
    BY <2>1 DEF Result
  <2>4. running' \ ended' = running \ ended
    BY <2>1
  <2> QED BY <1>1, <1>2, <2>1, <2>2, <2>3, <2>4 DEF Answered
<1> QED BY <1>4, <1>5, <1>6 DEF SyncerNext

\* What a call reported stays so: later syncs belong to other calls.
LEMMA HeldKept ==
  ASSUME SyncInv, Next, ~shared, ~erased, ~shared', ~erased', NEW c \in Callers
  PROVE  Flushed(c)'
<1>1. TypeOK /\ Flushed(c) /\ Answered(c)
  BY DEF SyncInv, SyncedWhenHeld
<1>2. ASSUME NEW d \in Callers, CallerNext(d) PROVE Flushed(c)'
  <2>1. /\ \A e \in Callers \ {d} : pc'[e] = pc[e] /\ fresh'[e] = fresh[e]
        /\ pc'[d] = "held" => fresh'[d] = fresh[d] /\ pc[d] = "read" /\ rc = {}
    BY <1>1, <1>2, CallerLeaves
  <2>2. c = d /\ pc'[d] = "held" => \A f \in Files : fresh[c][f] = "synced"
    BY <1>1, <2>1 DEF Answered, Result
  <2> QED BY <1>1, <2>1, <2>2 DEF Flushed
<1>3. ASSUME NEW f \in Files, SyncerNext(f) PROVE Flushed(c)'
  <2>1. pc' = pc
    BY <1>3 DEF SyncerNext, SyncerBegin, SyncerSynced, SyncerDone, caller_vars
  <2>2. pc[c] = "held" => fresh'[c] = fresh[c]
    BY <1>1, <1>3 DEF SyncerNext, SyncerBegin, SyncerSynced, SyncerDone, SyncEnds, Outside,
                      Flushed, history
  <2> QED BY <1>1, <2>1, <2>2 DEF Flushed
<1> QED BY <1>2, <1>3 DEF Next

LEMMA SyncKept == SyncInv /\ [Next]_vars => SyncInv'
<1> SUFFICES ASSUME SyncInv, [Next]_vars PROVE SyncInv'
  OBVIOUS
<1>1. CASE Next
  <2>1. CallerTyped'
    BY <1>1, CallerTypes, SyncerTypes DEF Next, CallerTyped, SyncInv
  <2>2. (shared => shared') /\ (erased => erased')
    <3>1. ASSUME NEW c \in Callers, CallerNext(c)
          PROVE  (shared' = shared \/ CheckPending(c)) /\ erased' = erased
      BY <3>1, Zenon
         DEF CallerNext, CheckPending, SuspendOnly, SetCount, Reinit, QueueWork, WaitDone,
             Consolidate, WaitTimeout, Fail, Resume, history
    <3>2. ASSUME NEW f \in Files, SyncerNext(f)
          PROVE  shared' = shared /\ (erased' = erased \/ SyncerBegin(f))
      BY <3>2, Zenon DEF SyncerNext, SyncerBegin, SyncerSynced, SyncerDone, history
    <3>3. \A c \in Callers : CheckPending(c) => (shared => shared')
      BY Zenon DEF CheckPending
    <3>4. \A f \in Files : SyncerBegin(f) => (erased => erased')
      BY Zenon DEF SyncerBegin
    <3> QED BY <1>1, <3>1, <3>2, <3>3, <3>4, Zenon DEF Next
  <2>3. ~shared' => Counted' /\ \A c \in Callers : Answered(c)'
    BY <1>1, <2>2, CallerCounts, SyncerCounts, CallerAnswers, SyncerAnswers DEF Next
  <2>4. SyncedWhenHeld'
    BY <1>1, <2>2, HeldKept DEF SyncedWhenHeld
  <2> QED BY <2>1, <2>3, <2>4 DEF SyncInv, CallerTyped
<1>2. CASE UNCHANGED vars
  BY <1>2 DEF vars, work_vars, caller_vars, history, SyncInv, TypeOK, SyncedWhenHeld, Flushed,
              Counted, OneStarts, Answered, Result, Left, ToCome, Suspenders
<1> QED BY <1>1, <1>2

--------------------------------------------------------------------------------
\* The count, the completion and the works of a device stay well typed, for any
\* number of threads that suspend it: sync_done never exceeds
\* MAX_PXD_BACKING_DEVS and fp->suspend is never negative.
THEOREM SyncTypes == Spec => []TypeOK
<1>1. SyncInv => TypeOK
  BY DEF SyncInv
<1> QED BY SyncInitial, SyncKept, <1>1, PTL DEF Spec

\* The BUG_ON of __pxd_syncer (pxd_fastpath.c:231) fires only once two calls
\* have passed pxd_sync_work_pending together (line 296), whatever calls time
\* out, for any number of threads and backing files.
THEOREM SyncerSafe == Spec => []LateCounted
<1>1. SyncInv => LateCounted
  BY DEF SyncInv, Counted, LateCounted
<1> QED BY SyncInitial, SyncKept, <1>1, PTL DEF Spec

\* A suspend that reports the files flushed has had each of them synced after
\* it suspended the device, whoever else suspends it, until two calls pass the
\* check together or one begins to sync before another has read its results.
THEOREM FlushSafe == Spec => []SyncedWhenHeld
<1>1. SyncInv => SyncedWhenHeld
  BY DEF SyncInv
<1> QED BY SyncInitial, SyncKept, <1>1, PTL DEF Spec

================================================================================
