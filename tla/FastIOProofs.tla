------------------------------ MODULE FastIOProofs -----------------------------
(***************************************************************************)
(* For any number of IOs and of backing files: the counts of the fast path *)
(* (nactive, the references of the files, ncount) follow the IOs in both   *)
(* builds, and no submitter sleeps with nothing left to wake it.           *)
(***************************************************************************)
EXTENDS FastIO, Counting, FiniteSetTheorems, TLAPS

\* the clones of i that have not been handled
Unhandled(i) == {f \in Files : phase[i][f] \in {"ready", "flight", "ended"}}

\* Does i hold a reference to f?  The make_request build puts a file when its
\* clone is handled, the blk-mq build puts all of them when the IO ends.
Holds(i, f) ==
  phase[i][f] \in {"ready", "flight", "ended"} \/ (build = "blkmq" /\ phase[i][f] = "done")

Holders(f) == {i \in IOs : Holds(i, f)}

\* A file's references are those of its holders and the lost ones.
RefsCounted == \A f \in Files : refs[f] = Cardinality(Holders(f)) + leaked[f]

\* An IO has clones exactly while it is on the fast path, one for each of its
\* files, and nactive counts those that have not been handled.
CloneCounted(i) ==
  /\ nactive[i] = Cardinality(Unhandled(i))
  /\ Busy(i) => \A f \in Files : phase[i][f] = "none" <=> f \notin Targets(op[i])
  /\ pc[i] \in {"failing", "failed"} => Unhandled(i) = {}
  /\ ~Busy(i) => phase[i] = None

ClonesCounted == \A i \in IOs : CloneCounted(i)

\* Only submitters of the make_request build sleep.
SleepersWait ==
  /\ \A i \in asleep : pc[i] = "wait"
  /\ \A i \in IOs : pc[i] = "wait" => build = "makereq"

FastInv ==
  TypeOK /\ RefsCounted /\ ClonesCounted /\ CountedWhileActive /\ SleepersWait /\ SleeperIsWoken

--------------------------------------------------------------------------------
LEMMA FilesFinite == IsFiniteSet(Files) /\ Cardinality(Files) = NFiles
  BY FS_Interval, FastAssumption DEF Files

\* the holders and the IOs under way are sets of IOs
LEMMA HoldersFinite ==
  /\ \A f \in Files : IsFiniteSet(Holders(f)) /\ Cardinality(Holders(f)) \in Nat
  /\ IsFiniteSet(Underway) /\ Cardinality(Underway) \in Nat
<1>1. \A f \in Files : Holders(f) \in SUBSET IOs
  BY DEF Holders
<1>2. Underway \in SUBSET IOs
  BY DEF Underway
<1> QED BY <1>1, <1>2, FS_Subset, FS_CardinalityType, FastAssumption

\* A reference that is held is counted, and so is an IO that is under way: the
\* counts do not drop below zero.
LEMMA CountsPositive ==
  ASSUME FastInv, NEW i \in IOs
  PROVE  /\ \A f \in Files : Holds(i, f) => refs[f] >= leaked[f] + 1
         /\ i \in Underway => ncount >= 1
<1>1. \A f \in Files : Holds(i, f) => Cardinality(Holders(f)) # 0
  BY HoldersFinite, FS_EmptySet DEF Holders
<1>2. i \in Underway => Cardinality(Underway) # 0
  BY HoldersFinite, FS_EmptySet
<1> QED BY <1>1, <1>2, HoldersFinite, FastAssumption
        DEF FastInv, TypeOK, RefsCounted, CountedWhileActive

\* A step of IO i keeps the counts when it moves them by what i itself does.
LEMMA OneIO ==
  ASSUME FastInv, TypeOK', NEW i \in IOs, build' = build, CloneCounted(i)',
         \A j \in IOs \ {i} : /\ phase'[j] = phase[j] /\ nactive'[j] = nactive[j]
                              /\ pc'[j] = pc[j] /\ op'[j] = op[j],
         \A f \in Files : refs'[f] + leaked[f] + Share(i, Holders(f)) = refs[f] + leaked'[f] + Share(i, Holders(f)'),
         ncount' + uncounted + Share(i, Underway) = ncount + uncounted' + Share(i, Underway'),
         build = "makereq" => uncounted' = 0
  PROVE  RefsCounted' /\ ClonesCounted' /\ CountedWhileActive'
<1> USE FastAssumption DEF FastInv, TypeOK
<1>1. RefsCounted'
  <2> SUFFICES ASSUME NEW f \in Files PROVE refs'[f] = Cardinality(Holders(f)') + leaked'[f]
    BY DEF RefsCounted
  <2>1. Holders(f) \ {i} = Holders(f)' \ {i}
    <3>1. \A j \in IOs \ {i} : Holds(j, f)' <=> Holds(j, f)
      BY DEF Holds
    <3> QED BY <3>1 DEF Holders
  <2>3. IsFiniteSet(Holders(f)) /\ IsFiniteSet(Holders(f)')
    <3>1. Holders(f) \in SUBSET IOs /\ Holders(f)' \in SUBSET IOs
      BY DEF Holders
    <3> QED BY <3>1, FS_Subset
  <2>4. /\ Cardinality(Holders(f)) \in Nat /\ Cardinality(Holders(f)') \in Nat
        /\ Cardinality(Holders(f)') + Share(i, Holders(f)) = Cardinality(Holders(f)) + Share(i, Holders(f)')
    BY <2>1, <2>3, CountOne
  <2>5. refs[f] = Cardinality(Holders(f)) + leaked[f]
    BY DEF RefsCounted
  <2>6. Share(i, Holders(f)) \in Nat /\ Share(i, Holders(f)') \in Nat
    BY DEF Share
  <2>7. refs[f] \in Nat /\ refs'[f] \in Nat /\ leaked[f] \in Nat /\ leaked'[f] \in Nat
    OBVIOUS
  <2>8. refs'[f] + leaked[f] + Share(i, Holders(f)) = refs[f] + leaked'[f] + Share(i, Holders(f)')
    OBVIOUS
  <2> QED BY ONLY <2>4, <2>5, <2>6, <2>7, <2>8
<1>2. ClonesCounted'
  <2> SUFFICES ASSUME NEW j \in IOs, j # i PROVE CloneCounted(j)'
    BY DEF ClonesCounted
  <2>1. Unhandled(j)' = Unhandled(j) /\ (Busy(j)' <=> Busy(j)) /\ Targets(op[j])' = Targets(op[j])
    BY DEF Unhandled, Busy, Targets
  <2> QED BY <2>1 DEF ClonesCounted, CloneCounted, None
<1>3. CountedWhileActive'
  <2>1. Underway \ {i} = Underway' \ {i}
    BY DEF Underway
  <2>2. IsFiniteSet(Underway) /\ IsFiniteSet(Underway')
    <3>1. Underway \in SUBSET IOs /\ Underway' \in SUBSET IOs
      BY DEF Underway
    <3> QED BY <3>1, FS_Subset
  <2>3. /\ Cardinality(Underway) \in Nat /\ Cardinality(Underway') \in Nat
        /\ Cardinality(Underway') + Share(i, Underway) = Cardinality(Underway) + Share(i, Underway')
    BY <2>1, <2>2, CountOne
  <2>4. Share(i, Underway) \in Nat /\ Share(i, Underway') \in Nat
    BY DEF Share
  <2>5. ncount' + uncounted + Share(i, Underway) = ncount + uncounted' + Share(i, Underway')
    OBVIOUS
  <2>6. /\ ncount = Cardinality(Underway) + uncounted
        /\ ncount \in Nat /\ uncounted \in Nat /\ ncount' \in Nat /\ uncounted' \in Nat
    BY DEF CountedWhileActive
  <2>7. ncount' = Cardinality(Underway') + uncounted'
    BY ONLY <2>3, <2>4, <2>5, <2>6
  <2> QED BY <2>7 DEF CountedWhileActive
<1> QED BY <1>1, <1>2, <1>3

LEMMA FastInitial == Init => FastInv
<1> SUFFICES ASSUME Init PROVE FastInv
  OBVIOUS
<1> USE FastAssumption DEF Init
<1>1. TypeOK
  <2>1. 0 \in 0 .. NFiles /\ 0 \in 0 .. MaxLeaked
    OBVIOUS
  <2>2. phase \in [IOs -> [Files -> {"none", "ready", "flight", "ended", "done"}]]
    BY DEF None
  <2>3. st \in [IOs -> [Files -> Status]]
    BY DEF AllOk, Status
  <2>4. pc \in [IOs -> {"ok", "error", "wait", "queued", "cloned", "failing", "failed", "slow"}] /\ op \in [IOs -> Ops]
    BY DEF Ops
  <2>5. nactive \in [IOs -> 0 .. NFiles] /\ refs \in [Files -> Nat] /\ leaked \in [Files -> 0 .. MaxLeaked]
    BY <2>1
  <2>6. ncount \in Nat /\ uncounted \in Nat
    OBVIOUS
  <2> QED BY <2>2, <2>3, <2>4, <2>5, <2>6, Zenon DEF TypeOK
<1>2. \A f \in Files : Holders(f) = {}
  BY DEF Holders, Holds, None
<1>3. \A i \in IOs : Unhandled(i) = {}
  BY DEF Unhandled, None
<1>4. Underway = {}
  BY DEF Underway
<1>5. RefsCounted
  <2>1. \A f \in Files : refs[f] = 0 /\ leaked[f] = 0
    OBVIOUS
  <2> QED BY ONLY <1>2, <2>1, FS_EmptySet DEF RefsCounted
<1>6. ClonesCounted
  BY <1>3, FS_EmptySet DEF ClonesCounted, CloneCounted, Busy, None
<1>7. CountedWhileActive
  BY <1>4, FS_EmptySet DEF CountedWhileActive
<1> QED BY <1>1, <1>5, <1>6, <1>7 DEF FastInv, SleepersWait, SleeperIsWoken

--------------------------------------------------------------------------------
\* The steps of one IO i, one lemma for those that make clones and one for each
\* group of steps that ends them.
LEMMA CloneKeeps ==
  ASSUME FastInv, NEW i \in IOs, Clone(i)
  PROVE  FastInv'
<1> USE FastAssumption DEF FastInv, TypeOK, Clone, conf
<1>1. pc' = [pc EXCEPT ![i] = "cloned"] /\ pc[i] = "queued" /\ phase[i] = None
  BY DEF Busy, ClonesCounted, CloneCounted
<1>2. \A f \in Files : phase'[i][f] = IF f \in Targets(op[i]) THEN "ready" ELSE "none"
  OBVIOUS
<1>3. Targets(op[i]) \in SUBSET Files /\ Unhandled(i)' = Targets(op[i])
  BY <1>2 DEF Unhandled, Targets, Files
<1>4. Cardinality(Targets(op[i])) \in 0 .. NFiles
  BY <1>3, FilesFinite, FS_Subset, FS_CardinalityType
<1>5. TypeOK'
  <2>1. refs' \in [Files -> Nat]
    BY DEF Refs
  <2>2. phase' \in [IOs -> [Files -> {"none", "ready", "flight", "ended", "done"}]]
    OBVIOUS
  <2> QED BY <1>4, <2>1, <2>2
<1>6. /\ \A f \in Files : i \notin Holders(f) /\ (i \in Holders(f)' <=> f \in Targets(op[i]))
      /\ i \notin Underway /\ i \in Underway'
  BY <1>1, <1>2 DEF Holders, Holds, Underway, None
<1>7. \A f \in Files : refs'[f] = IF f \in Targets(op[i]) THEN refs[f] + 1 ELSE refs[f]
  BY DEF Refs
<1>8. CloneCounted(i)'
  BY <1>1, <1>2, <1>3 DEF CloneCounted, Busy
<1>9. RefsCounted' /\ ClonesCounted' /\ CountedWhileActive'
  <2>1. ASSUME NEW f \in Files
        PROVE  refs'[f] + leaked[f] + Share(i, Holders(f)) = refs[f] + leaked'[f] + Share(i, Holders(f)')
    <3>1. refs[f] \in Nat /\ leaked[f] \in Nat /\ leaked'[f] = leaked[f]
      OBVIOUS
    <3> QED BY ONLY <1>6, <1>7, <3>1 DEF Share
  <2>2. ncount' + uncounted + Share(i, Underway) = ncount + uncounted' + Share(i, Underway')
    BY <1>6 DEF Share
  <2>3. build = "makereq" => uncounted' = 0
    BY DEF CountedWhileActive
  <2> QED BY <1>5, <1>8, <2>1, <2>2, <2>3, OneIO
<1>10. SleepersWait' /\ SleeperIsWoken'
  BY <1>1 DEF SleepersWait, SleeperIsWoken, Underway
<1> QED BY <1>5, <1>9, <1>10

\* Min and Max of a non-empty set of files are files of it.
LEMMA FileMinMax ==
  ASSUME NEW S \in SUBSET Files, S # {}
  PROVE  Min(S) \in S /\ Max(S) \in S
<1>1. S \in SUBSET Nat /\ \A f \in S : f <= NFiles
  BY FastAssumption DEF Files
<1> QED BY <1>1, MinIn, MaxIn, FastAssumption

\* A step of i that leaves the counts alone and neither makes nor puts a clone.
LEMMA QuietIO ==
  ASSUME FastInv, TypeOK', NEW i \in IOs, build' = build, CloneCounted(i)',
         \A j \in IOs \ {i} : /\ phase'[j] = phase[j] /\ nactive'[j] = nactive[j]
                              /\ pc'[j] = pc[j] /\ op'[j] = op[j],
         \A f \in Files : Holds(i, f)' <=> Holds(i, f),
         i \in Underway' <=> i \in Underway,
         UNCHANGED count_vars
  PROVE  RefsCounted' /\ ClonesCounted' /\ CountedWhileActive'
<1>1. ASSUME NEW f \in Files
      PROVE  refs'[f] + leaked[f] + Share(i, Holders(f)) = refs[f] + leaked'[f] + Share(i, Holders(f)')
  <2>1. i \in Holders(f)' <=> i \in Holders(f)
    BY DEF Holders
  <2> QED BY <2>1 DEF Share, count_vars
<1>2. ncount' + uncounted + Share(i, Underway) = ncount + uncounted' + Share(i, Underway')
  BY DEF Share, count_vars
<1>3. build = "makereq" => uncounted' = 0
  BY DEF FastInv, CountedWhileActive, count_vars
<1> QED BY <1>1, <1>2, <1>3, OneIO

\* After a step whose sleepers are those that still find the device congested,
\* there is somebody to wake them.
LEMMA WokenAgain ==
  ASSUME TypeOK', CountedWhileActive', SleepersWait', asleep' # {} => Congested(ncount)'
  PROVE  SleeperIsWoken'
<1> SUFFICES ASSUME asleep' # {}, suspended' = FALSE
             PROVE  Underway' # {}
  BY DEF SleeperIsWoken, TypeOK
<1>1. build' = "makereq"
  BY DEF SleepersWait, TypeOK
<1>2. ncount' > qdepth' /\ qdepth' \in Nat
  BY FastAssumption DEF Congested, TypeOK
<1>3. IsFiniteSet(Underway') /\ Cardinality(Underway') \in Nat
  <2>1. Underway' \in SUBSET IOs
    BY DEF Underway
  <2> QED BY <2>1, FS_Subset, FS_CardinalityType, FastAssumption
<1>4. ncount' = Cardinality(Underway') + 0
  BY <1>1 DEF CountedWhileActive
<1>5. Cardinality(Underway') # 0
  BY <1>2, <1>3, <1>4
<1>6. Underway' # {}
  BY <1>5, FS_EmptySet
<1> QED BY <1>6

\* The last clone to be handled is the last of its IO.
LEMMA LastClone ==
  ASSUME FastInv, NEW i \in IOs, NEW f \in Files, phase[i][f] = "ended"
  PROVE  /\ pc[i] = "cloned" /\ f \in Unhandled(i) /\ f \in Targets(op[i])
         /\ nactive[i] = 1 => Unhandled(i) = {f}
         /\ nactive[i] \in 1 .. NFiles
<1>1. f \in Unhandled(i) /\ phase[i] # None
  BY DEF Unhandled, None
<1>2. pc[i] = "cloned" /\ f \in Targets(op[i])
  BY <1>1 DEF FastInv, ClonesCounted, CloneCounted, Busy
<1>3. IsFiniteSet(Unhandled(i))
  BY FilesFinite, FS_Subset DEF Unhandled
<1>4. nactive[i] = Cardinality(Unhandled(i)) /\ nactive[i] # 0
  BY <1>1, <1>3, FS_EmptySet DEF FastInv, ClonesCounted, CloneCounted
<1>5. nactive[i] = 1 => Unhandled(i) = {f}
  <2>1. Cardinality(Unhandled(i)) = 1 => \E g : Unhandled(i) = {g}
    BY <1>3, FS_Singleton
  <2> QED BY <1>1, <1>4, <2>1
<1> QED BY <1>1, <1>2, <1>4, <1>5, FastAssumption DEF FastInv, TypeOK

\* Submission and the sleep of a submitter.
LEMMA SubmitKeeps ==
  ASSUME FastInv, NEW i \in IOs, Recheck(i) \/ \E o \in Ops : Submit(i, o)
  PROVE  FastInv'
<1> USE FastAssumption DEF FastInv, TypeOK, conf, io_vars
<1>1. /\ pc[i] \in {"ok", "error", "wait"} /\ pc'[i] \in {"wait", "queued"}
      /\ pc' = [pc EXCEPT ![i] = pc'[i]] /\ op' = [op EXCEPT ![i] = op'[i]] /\ op'[i] \in Ops
      /\ asleep' \in SUBSET IOs
      /\ UNCHANGED <<conf, phase, st, nactive, count_vars>>
  BY DEF Recheck, Submit
<1>2. TypeOK'
  BY <1>1 DEF count_vars
<1>3. ~Busy(i) /\ ~Busy(i)' /\ phase[i] = None /\ phase'[i] = None
  BY <1>1 DEF Busy, ClonesCounted, CloneCounted
<1>4. Unhandled(i)' = Unhandled(i)
  BY <1>1 DEF Unhandled
<1>5. CloneCounted(i)'
  BY <1>1, <1>3, <1>4 DEF ClonesCounted, CloneCounted, None, Busy
<1>6. RefsCounted' /\ ClonesCounted' /\ CountedWhileActive'
  <2>1. \A f \in Files : Holds(i, f)' <=> Holds(i, f)
    BY <1>1 DEF Holds
  <2>2. i \notin Underway' /\ i \notin Underway
    BY <1>1 DEF Underway
  <2>3. \A j \in IOs \ {i} : /\ phase'[j] = phase[j] /\ nactive'[j] = nactive[j]
                              /\ pc'[j] = pc[j] /\ op'[j] = op[j]
    BY <1>1
  <2> QED BY <1>1, <1>2, <1>5, <2>1, <2>2, <2>3, QuietIO
<1>7. SleepersWait'
  BY <1>1 DEF SleepersWait, Recheck, Submit
<1>8. SleeperIsWoken'
  <2>1. CASE asleep' \subseteq asleep
    BY <1>1, <2>1 DEF SleeperIsWoken, Underway
  <2>2. CASE Congested(ncount)
    <3>1. Congested(ncount)'
      BY <1>1, <2>2 DEF Congested, count_vars
    <3> QED BY <1>2, <1>6, <1>7, <3>1, WokenAgain
  <2> QED BY <2>1, <2>2 DEF Recheck, Submit
<1> QED BY <1>2, <1>6, <1>7, <1>8

\* The block layer takes a clone, and ends it.
LEMMA FlightKeeps ==
  ASSUME FastInv, NEW i \in IOs,
         Dispatch(i) \/ \E f \in Files, s \in Status : BioEnd(i, f, s)
  PROVE  FastInv'
<1> USE FastAssumption DEF FastInv, TypeOK, conf, io_vars
<1>1. \E f \in Files : \E ph \in {"flight", "ended"} :
        /\ phase[i][f] \in {"ready", "flight"}
        /\ phase' = [phase EXCEPT ![i][f] = ph]
        /\ st' \in [IOs -> [Files -> Status]]
        /\ UNCHANGED <<conf, pc, op, nactive, count_vars, asleep>>
  <2>1. CASE Dispatch(i)
    <3> DEFINE ready == {f \in Files : phase[i][f] = "ready"}
               f == IF build = "makereq" /\ ready # {0} THEN Min(ready \ {0}) ELSE Min(ready)
    <3>1. ready # {} /\ phase' = [phase EXCEPT ![i][f] = "flight"]
      BY <2>1 DEF Dispatch
    <3>2. ready \in SUBSET Files /\ ready \ {0} \in SUBSET Files /\ (ready # {0} => ready \ {0} # {})
      BY <3>1
    <3>3. f \in ready
      BY <3>1, <3>2, FileMinMax
    <3>4. f \in Files /\ phase[i][f] = "ready"
      BY <3>3
    <3> HIDE DEF ready, f
    <3>5. UNCHANGED <<conf, pc, op, st, nactive, count_vars, asleep>>
      BY <2>1 DEF Dispatch
    <3> QED BY <3>1, <3>4, <3>5
  <2>2. CASE \E f \in Files, s \in Status : BioEnd(i, f, s)
    <3>1. PICK f \in Files, s \in Status : BioEnd(i, f, s)
      BY <2>2
    <3>2. phase[i][f] = "flight" /\ phase' = [phase EXCEPT ![i][f] = "ended"]
      BY <3>1 DEF BioEnd
    <3>3. st' \in [IOs -> [Files -> Status]]
      BY <3>1 DEF BioEnd
    <3> QED BY <3>1, <3>2, <3>3 DEF BioEnd
  <2> QED BY <2>1, <2>2
<1>2. PICK f \in Files, ph \in {"flight", "ended"} :
        /\ phase[i][f] \in {"ready", "flight"}
        /\ phase' = [phase EXCEPT ![i][f] = ph]
        /\ st' \in [IOs -> [Files -> Status]]
        /\ UNCHANGED <<conf, pc, op, nactive, count_vars, asleep>>
  BY <1>1
<1>3. TypeOK'
  BY <1>2 DEF count_vars
<1>4. \A g \in Files : phase'[i][g] = IF g = f THEN ph ELSE phase[i][g]
  BY <1>2
<1>5. Unhandled(i)' = Unhandled(i) /\ f \in Unhandled(i)
  BY <1>2, <1>4 DEF Unhandled
<1>6. CloneCounted(i) /\ phase[i] # None
  BY <1>2 DEF ClonesCounted, None
<1>7. CloneCounted(i)'
  BY <1>2, <1>4, <1>5, <1>6 DEF CloneCounted, Busy, Targets
<1>8. RefsCounted' /\ ClonesCounted' /\ CountedWhileActive'
  <2>1. \A g \in Files : Holds(i, g)' <=> Holds(i, g)
    BY <1>2, <1>4 DEF Holds
  <2>2. i \in Underway' <=> i \in Underway
    BY <1>2 DEF Underway
  <2>3. \A j \in IOs \ {i} : /\ phase'[j] = phase[j] /\ nactive'[j] = nactive[j]
                              /\ pc'[j] = pc[j] /\ op'[j] = op[j]
    BY <1>2
  <2> QED BY <1>2, <1>3, <1>7, <2>1, <2>2, <2>3, QuietIO
<1>9. SleepersWait' /\ SleeperIsWoken'
  BY <1>2 DEF SleepersWait, SleeperIsWoken, Underway
<1> QED BY <1>3, <1>8, <1>9

\* A clone is handled that is not the last.
LEMMA DoneKeeps ==
  ASSUME FastInv, NEW i \in IOs, NEW f \in Files, CloneDone(i, f)
  PROVE  FastInv'
<1> USE FastAssumption DEF FastInv, TypeOK, CloneDone, conf
<1>1. pc[i] = "cloned" /\ f \in Unhandled(i) /\ f \in Targets(op[i]) /\ nactive[i] \in 1 .. NFiles
  BY LastClone
<1>2. \A g \in Files : phase'[i][g] = IF g = f THEN "done" ELSE phase[i][g]
  OBVIOUS
<1>3. Unhandled(i)' = Unhandled(i) \ {f}
  BY <1>2 DEF Unhandled
<1>4. nactive'[i] = Cardinality(Unhandled(i)')
  <2>1. IsFiniteSet(Unhandled(i))
    BY FilesFinite, FS_Subset DEF Unhandled
  <2>2. Cardinality(Unhandled(i) \ {f}) = Cardinality(Unhandled(i)) - 1
    BY <1>1, <2>1, FS_RemoveElement
  <2>3. nactive[i] = Cardinality(Unhandled(i))
    BY DEF ClonesCounted, CloneCounted
  <2> QED BY <1>3, <2>2, <2>3
<1>5. CloneCounted(i) /\ CloneCounted(i)'
  BY <1>1, <1>2, <1>4 DEF ClonesCounted, CloneCounted, Busy, Targets
<1>6. Holds(i, f) /\ (Holds(i, f)' <=> build = "blkmq") /\ \A g \in Files \ {f} : Holds(i, g)' <=> Holds(i, g)
  BY <1>2 DEF Holds
<1>7. \A g \in Files : refs'[g] = IF g = f /\ build = "makereq" THEN refs[g] - 1 ELSE refs[g]
  BY DEF Refs
<1>8. refs[f] >= leaked[f] + 1
  BY <1>6, CountsPositive
<1>9. TypeOK'
  <2>1. ASSUME NEW g \in Files PROVE refs'[g] \in Nat
    <3>1. refs[g] \in Nat /\ leaked[f] \in Nat
      OBVIOUS
    <3> QED BY ONLY <1>7, <1>8, <3>1
  <2>2. refs' \in [Files -> Nat]
    BY <2>1 DEF Refs
  <2>3. phase' \in [IOs -> [Files -> {"none", "ready", "flight", "ended", "done"}]]
    OBVIOUS
  <2>4. nactive' \in [IOs -> 0 .. NFiles]
    BY <1>1
  <2> QED BY <2>2, <2>3, <2>4
<1>10. RefsCounted' /\ ClonesCounted' /\ CountedWhileActive'
  <2>1. ASSUME NEW g \in Files
        PROVE  refs'[g] + leaked[g] + Share(i, Holders(g)) = refs[g] + leaked'[g] + Share(i, Holders(g)')
    <3>1. refs[g] \in Nat /\ leaked[g] \in Nat /\ leaked'[g] = leaked[g] /\ build \in {"blkmq", "makereq"}
      OBVIOUS
    <3>2. (i \in Holders(g) <=> Holds(i, g)) /\ (i \in Holders(g)' <=> Holds(i, g)')
      BY DEF Holders
    <3> QED BY ONLY <1>6, <1>7, <3>1, <3>2 DEF Share
  <2>2. ncount' + uncounted + Share(i, Underway) = ncount + uncounted' + Share(i, Underway')
    <3>1. i \in Underway' <=> i \in Underway
      BY DEF Underway
    <3> QED BY <3>1 DEF Share
  <2>3. build = "makereq" => uncounted' = 0
    BY DEF CountedWhileActive
  <2> QED BY <1>5, <1>9, <2>1, <2>2, <2>3, OneIO
<1>11. SleepersWait' /\ SleeperIsWoken'
  BY DEF SleepersWait, SleeperIsWoken, Underway
<1> QED BY <1>9, <1>10, <1>11

\* The last clone of an IO is handled: the original ends or fails over.
LEMMA LastKeeps ==
  ASSUME FastInv, NEW i \in IOs, NEW f \in Files, IOEnds(i, f) \/ IOFails(i, f)
  PROVE  FastInv'
<1> USE FastAssumption DEF FastInv, TypeOK, conf
<1>1. /\ pc[i] = "cloned" /\ Unhandled(i) = {f} /\ f \in Targets(op[i])
      /\ pc'[i] \in {"ok", "error", "failing"} /\ pc' = [pc EXCEPT ![i] = pc'[i]]
      /\ nactive' = [nactive EXCEPT ![i] = 0] /\ build' = build
  BY LastClone DEF IOEnds, IOFails, Ended
<1>2. /\ pc'[i] = "failing" => /\ op' = op /\ st' = st
                               /\ phase' = [phase EXCEPT ![i][f] = "done"]
      /\ pc'[i] # "failing" => /\ op' = [op EXCEPT ![i] = "read"] /\ st' = [st EXCEPT ![i] = AllOk]
                               /\ phase' = [phase EXCEPT ![i] = None]
  BY DEF IOEnds, IOFails, Ended
<1>3. \A g \in Files \ {f} : phase[i][g] \in {"none", "done"}
  BY <1>1 DEF Unhandled
<1>4. \A g \in Files : Holds(i, g) <=> g = f \/ (build = "blkmq" /\ g \in Targets(op[i]))
  <2>1. \A g \in Files : phase[i][g] = "none" <=> g \notin Targets(op[i])
    BY <1>1 DEF ClonesCounted, CloneCounted, Busy
  <2> QED BY <1>1, <1>3, <2>1 DEF Holds, Unhandled
<1>5. \A g \in Files : Holds(i, g)' <=> pc'[i] = "failing" /\ build = "blkmq" /\ g \in Targets(op[i])
  <2>1. CASE pc'[i] = "failing"
    <3>1. \A g \in Files : phase'[i][g] = IF g = f THEN "done" ELSE phase[i][g]
      BY <1>2, <2>1
    <3> QED BY <1>1, <1>3, <1>4, <2>1, <3>1 DEF Holds
  <2>2. CASE pc'[i] # "failing"
    BY <1>2, <2>2 DEF Holds, None
  <2> QED BY <2>1, <2>2
<1>6. \A g \in Files : refs'[g] = IF Holds(i, g) /\ ~Holds(i, g)' THEN refs[g] - 1 ELSE refs[g]
  <2>1. CASE IOEnds(i, f)
    <3>1. pc'[i] # "failing" /\ refs' = Refs(Held(i, f), -1)
      BY <2>1 DEF IOEnds, Ended
    <3>2. \A g \in Files : g \in Held(i, f) <=> Holds(i, g)
      BY <1>1, <1>4 DEF Held
    <3> QED BY <1>5, <3>1, <3>2 DEF Refs
  <2>2. CASE IOFails(i, f)
    <3>1. pc'[i] = "failing" /\ refs' = IF build = "makereq" THEN Refs({f}, -1) ELSE refs
      BY <2>2 DEF IOFails
    <3>2. \A g \in Files : Holds(i, g) /\ ~Holds(i, g)' <=> g = f /\ build = "makereq"
      BY <1>1, <1>4, <1>5, <3>1
    <3> QED BY <3>1, <3>2 DEF Refs
  <2> QED BY <2>1, <2>2
<1>7. \A g \in Files : Holds(i, g) => refs[g] >= leaked[g] + 1
  BY CountsPositive
<1>8. i \in Underway /\ (i \in Underway' <=> pc'[i] = "failing" /\ build = "blkmq")
  BY <1>1 DEF Underway
<1>9. /\ ncount' = (IF i \in Underway' THEN ncount ELSE ncount - 1) /\ ncount' \in Nat
      /\ UNCHANGED <<leaked, uncounted, qdepth, can_failover, force_fail, suspended, fast>>
  <2>1. ncount >= 1
    BY <1>8, CountsPositive
  <2> QED BY <1>1, <1>8, <2>1 DEF IOEnds, IOFails, Ended
<1>10. asleep' \subseteq asleep /\ ((asleep' = asleep /\ build = "blkmq") \/ asleep' = Wake(ncount'))
  BY DEF IOEnds, IOFails, Wake
<1>11. TypeOK'
  <2>1. \A g \in Files : refs'[g] \in Nat
    BY <1>6, <1>7
  <2>2. refs' \in [Files -> Nat]
    BY <2>1 DEF Refs, IOEnds, IOFails
  <2>3. phase' \in [IOs -> [Files -> {"none", "ready", "flight", "ended", "done"}]]
    <3>1. CASE pc'[i] = "failing"
      <4>1. phase' = [phase EXCEPT ![i][f] = "done"]
        BY <1>2, <3>1
      <4> QED BY <4>1
    <3>2. CASE pc'[i] # "failing"
      <4>1. None \in [Files -> {"none", "ready", "flight", "ended", "done"}]
        BY DEF None
      <4> QED BY <1>2, <3>2, <4>1
    <3> QED BY <3>1, <3>2
  <2>4. nactive' \in [IOs -> 0 .. NFiles] /\ pc' \in [IOs -> {"ok", "error", "wait", "queued", "cloned", "failing", "failed", "slow"}]
    <3>1. /\ pc \in [IOs -> {"ok", "error", "wait", "queued", "cloned", "failing", "failed", "slow"}]
          /\ nactive \in [IOs -> 0 .. NFiles] /\ 0 \in 0 .. NFiles
      OBVIOUS
    <3> QED BY ONLY <1>1, <3>1
  <2>5. op' \in [IOs -> Ops] /\ st' \in [IOs -> [Files -> Status]]
    <3>1. CASE pc'[i] = "failing"
      BY <1>2, <3>1
    <3>2. CASE pc'[i] # "failing"
      <4>1. AllOk \in [Files -> Status] /\ "read" \in Ops
        BY DEF AllOk, Status, Ops
      <4>2. op' = [op EXCEPT ![i] = "read"] /\ st' = [st EXCEPT ![i] = AllOk]
        BY <1>2, <3>2
      <4>3. op \in [IOs -> Ops] /\ st \in [IOs -> [Files -> Status]]
        OBVIOUS
      <4> QED BY ONLY <4>1, <4>2, <4>3
    <3> QED BY <3>1, <3>2
  <2>6. /\ build' \in Builds /\ qdepth' \in Depths /\ asleep' \subseteq IOs /\ uncounted' \in Nat
        /\ leaked' \in [Files -> 0 .. MaxLeaked]
        /\ can_failover' \in BOOLEAN /\ force_fail' \in BOOLEAN /\ suspended' \in BOOLEAN /\ fast' \in BOOLEAN
    BY <1>1, <1>9, <1>10
  <2>7. ncount' \in Nat
    BY <1>9
  <2> QED BY ONLY <2>2, <2>3, <2>4, <2>5, <2>6, <2>7
<1>12. Unhandled(i)' = {} /\ CloneCounted(i)'
  <2>1. Unhandled(i)' = {}
    <3>1. CASE pc'[i] = "failing"
      <4>1. phase' = [phase EXCEPT ![i][f] = "done"]
        BY <1>2, <3>1
      <4>2. \A g \in Files : phase'[i][g] \in {"none", "done"}
        BY <1>3, <4>1
      <4> QED BY <4>2 DEF Unhandled
    <3>2. CASE pc'[i] # "failing"
      BY <1>2, <3>2 DEF Unhandled, None
    <3> QED BY <3>1, <3>2
  <2>2. Busy(i)' => \A g \in Files : phase'[i][g] = "none" <=> g \notin Targets(op'[i])
    BY <1>1, <1>2 DEF ClonesCounted, CloneCounted, Busy, Targets
  <2> QED BY <1>1, <1>2, <2>1, <2>2, FS_EmptySet DEF CloneCounted, Busy
<1>13. RefsCounted' /\ ClonesCounted' /\ CountedWhileActive'
  <2>1. ASSUME NEW g \in Files
        PROVE  refs'[g] + leaked[g] + Share(i, Holders(g)) = refs[g] + leaked'[g] + Share(i, Holders(g)')
    <3>1. refs[g] \in Nat /\ leaked[g] \in Nat /\ leaked'[g] = leaked[g] /\ (Holds(i, g)' => Holds(i, g))
      BY <1>1, <1>4, <1>5, <1>9
    <3>2. (i \in Holders(g) <=> Holds(i, g)) /\ (i \in Holders(g)' <=> Holds(i, g)')
      BY DEF Holders
    <3> QED BY ONLY <1>6, <3>1, <3>2 DEF Share
  <2>2. ncount' + uncounted + Share(i, Underway) = ncount + uncounted' + Share(i, Underway')
    BY <1>8, <1>9 DEF Share
  <2>3. build = "makereq" => uncounted' = 0
    BY <1>9 DEF CountedWhileActive
  <2>4. \A j \in IOs \ {i} : /\ phase'[j] = phase[j] /\ nactive'[j] = nactive[j]
                              /\ pc'[j] = pc[j] /\ op'[j] = op[j]
    BY <1>1, <1>2
  <2> QED BY <1>1, <1>11, <1>12, <2>1, <2>2, <2>3, <2>4, OneIO
<1>14. SleepersWait'
  BY <1>1, <1>10 DEF SleepersWait
<1>15. asleep' # {} => Congested(ncount)'
  <2>1. build = "blkmq" => asleep = {}
    BY DEF SleepersWait
  <2> QED BY <1>9, <1>10, <2>1 DEF Wake, Congested
<1> QED BY <1>11, <1>13, <1>14, <1>15, WokenAgain

\* pxd_io_failover queues an IO.
LEMMA FailQKeeps ==
  ASSUME FastInv, NEW i \in IOs, FailQ(i)
  PROVE  FastInv'
<1> USE FastAssumption DEF FastInv, TypeOK, FailQ, conf
<1>1. TypeOK'
  BY DEF Wake, count_vars
<1>2. Unhandled(i)' = Unhandled(i) /\ (\A f \in Files : Holds(i, f)' <=> Holds(i, f)) /\ (i \in Underway' <=> i \in Underway)
  BY DEF Unhandled, Holds, Underway
<1>3. CloneCounted(i)'
  BY <1>2 DEF ClonesCounted, CloneCounted, Busy, Targets
<1>4. RefsCounted' /\ ClonesCounted' /\ CountedWhileActive'
  BY <1>1, <1>2, <1>3, QuietIO
<1>5. SleepersWait'
  BY DEF SleepersWait, Wake
<1>6. asleep' # {} => Congested(ncount)'
  BY DEF Wake, Congested, count_vars
<1> QED BY <1>1, <1>4, <1>5, <1>6, WokenAgain

\* The steps that leave i without clones.
Unmaps(i) ==
  \/ \E b \in BOOLEAN : Reroute(i, b) \/ Reissue(i, b)
  \/ AbortFailQ(i)

OffPath(i) ==
  \/ SlowEnd(i) \/ Unmaps(i)
  \/ \E r \in {"notsupp", "nomem"} : MapFails(i, r)
  \/ \E k \in Files : InitHeadFails(i, k)
  \/ \E b \in BOOLEAN : RouteSlow(i, b)
  \/ \E o \in Ops, b \in BOOLEAN : SubmitSlow(i, o, b)

Failed(i) == pc[i] \in {"failing", "failed"}

\* An IO that is refused or out of memory, that is sent down the slow path or
\* ends there.
LEMMA OffPathKeeps ==
  ASSUME FastInv, NEW i \in IOs, OffPath(i)
  PROVE  FastInv'
<1> USE FastAssumption DEF FastInv, TypeOK, conf
<1>0. Unmaps(i) => /\ Failed(i) /\ build' = build
                   /\ \E b \in BOOLEAN : Unmap(i, b)
  BY DEF Unmaps, Reroute, Reissue, AbortFailQ, Unmap, Failed
<1>1. /\ pc[i] \in {"ok", "error", "queued", "failing", "failed", "slow"}
      /\ pc'[i] \in {"ok", "error", "slow"} /\ pc' = [pc EXCEPT ![i] = pc'[i]]
      /\ phase' = [phase EXCEPT ![i] = None] /\ st' \in {st, [st EXCEPT ![i] = AllOk]}
      /\ \E o \in Ops : op' = [op EXCEPT ![i] = o]
      /\ UNCHANGED <<conf, nactive>>
  <2>0. "read" \in Ops /\ op[i] \in Ops /\ op = [op EXCEPT ![i] = op[i]]
    BY DEF Ops
  <2>1. CASE Unmaps(i)
    <3>1. PICK b \in BOOLEAN : Unmap(i, b)
      BY <1>0, <2>1
    <3>2. pc[i] \in {"failing", "failed"}
      BY <1>0, <2>1 DEF Failed
    <3> QED BY <2>0, <3>1, <3>2 DEF Unmap, Ended
  <2>2. CASE SlowEnd(i) \/ (\E r \in {"notsupp", "nomem"} : MapFails(i, r)) \/ \E k \in Files : InitHeadFails(i, k)
    BY <2>0, <2>2 DEF SlowEnd, MapFails, InitHeadFails, Ended
  <2>3. CASE (\E b \in BOOLEAN : RouteSlow(i, b)) \/ \E o \in Ops, b \in BOOLEAN : SubmitSlow(i, o, b)
    <3>1. pc[i] \in {"ok", "error", "queued"}
      BY <2>3 DEF RouteSlow, SubmitSlow
    <3>2. phase[i] = None
      BY <3>1 DEF ClonesCounted, CloneCounted, Busy
    <3>3. phase = [phase EXCEPT ![i] = None]
      BY <3>2
    <3> QED BY <2>0, <2>3, <3>1, <3>3 DEF RouteSlow, SubmitSlow, Ended
  <2> QED BY <2>1, <2>2, <2>3 DEF OffPath
<1>2. Unhandled(i) = {} /\ Unhandled(i)' = {} /\ nactive[i] = 0
  <2>1. Unhandled(i) = {}
    <3>1. CASE Failed(i)
      BY <3>1 DEF ClonesCounted, CloneCounted, Failed
    <3>2. CASE ~Failed(i)
      <4>1. phase[i] = None
        BY <1>1, <3>2 DEF ClonesCounted, CloneCounted, Busy, Failed
      <4> QED BY <4>1 DEF Unhandled, None
    <3> QED BY <3>1, <3>2
  <2>2. Unhandled(i)' = {}
    BY <1>1 DEF Unhandled, None
  <2> QED BY <2>1, <2>2, FS_EmptySet DEF ClonesCounted, CloneCounted
<1>3. CloneCounted(i)'
  BY <1>1, <1>2, FS_EmptySet DEF CloneCounted, Busy
<1>4. /\ \A g \in Files : Holds(i, g) <=> Failed(i) /\ build = "blkmq" /\ g \in Targets(op[i])
      /\ \A g \in Files : ~Holds(i, g)'
  <2>1. \A g \in Files : ~Holds(i, g)'
    BY <1>1 DEF Holds, None
  <2>2. CASE Failed(i)
    <3>1. \A g \in Files : phase[i][g] \in {"none", "done"} /\ (phase[i][g] = "none" <=> g \notin Targets(op[i]))
      <4>1. \A g \in Files : phase[i][g] = "none" <=> g \notin Targets(op[i])
        BY <2>2 DEF ClonesCounted, CloneCounted, Busy, Failed
      <4>2. \A g \in Files : phase[i][g] \in {"none", "done"}
        BY <1>2 DEF Unhandled
      <4> QED BY <4>1, <4>2
    <3> QED BY <2>1, <2>2, <3>1 DEF Holds
  <2>3. CASE ~Failed(i)
    <3>1. phase[i] = None
      BY <1>1, <2>3 DEF ClonesCounted, CloneCounted, Busy, Failed
    <3> QED BY <2>1, <2>3, <3>1 DEF Holds, None
  <2> QED BY <2>2, <2>3
<1>5. ASSUME NEW g \in Files
      PROVE  /\ refs'[g] \in Nat /\ leaked'[g] \in 0 .. MaxLeaked
             /\ refs'[g] + leaked[g] + Share(i, Holders(g)) = refs[g] + leaked'[g] + Share(i, Holders(g)')
  <2>1. refs[g] \in Nat /\ leaked[g] \in 0 .. MaxLeaked
    OBVIOUS
  <2>2. (i \in Holders(g) <=> Holds(i, g)) /\ i \notin Holders(g)'
    BY <1>4 DEF Holders
  <2>3. CASE Unmaps(i)
    <3>1. /\ leaked' = leaked /\ Failed(i)
          /\ refs' = IF build = "blkmq" THEN Refs(Targets(op[i]), -1) ELSE refs
      BY <1>0, <2>3 DEF Unmap
    <3>2. refs'[g] = IF Holds(i, g) THEN refs[g] - 1 ELSE refs[g]
      BY <1>4, <3>1 DEF Refs
    <3>3. Holds(i, g) => refs[g] >= leaked[g] + 1
      BY CountsPositive
    <3> QED BY <2>1, <2>2, <3>1, <3>2, <3>3 DEF Share
  <2>4. CASE \E k \in Files : InitHeadFails(i, k)
    <3>1. PICK k \in Files : InitHeadFails(i, k)
      BY <2>4
    <3>2. /\ \A h \in 0 .. k - 1 : leaked[h] < MaxLeaked
          /\ refs' = Refs(0 .. k - 1, 1)
          /\ leaked' = [h \in Files |-> IF h < k THEN leaked[h] + 1 ELSE leaked[h]]
          /\ ~Failed(i)
      BY <3>1 DEF InitHeadFails, Failed
    <3>3. k \in Nat /\ g \in Nat /\ (g \in 0 .. k - 1 <=> g < k)
      BY DEF Files
    <3>4. /\ refs'[g] = IF g < k THEN refs[g] + 1 ELSE refs[g]
          /\ leaked'[g] = IF g < k THEN leaked[g] + 1 ELSE leaked[g]
          /\ g < k => leaked[g] < MaxLeaked
      BY <3>2, <3>3 DEF Refs
    <3>5. i \notin Holders(g)
      BY <1>4, <2>2, <3>2
    <3> QED BY ONLY FastAssumption, <2>1, <2>2, <3>3, <3>4, <3>5 DEF Share
  <2>5. CASE ~Unmaps(i) /\ ~\E k \in Files : InitHeadFails(i, k)
    <3>1. refs' = refs /\ leaked' = leaked /\ ~Failed(i)
      BY <2>5 DEF OffPath, SlowEnd, MapFails, RouteSlow, SubmitSlow, Failed
    <3> QED BY <1>4, <2>1, <2>2, <3>1 DEF Share
  <2> QED BY <2>3, <2>4, <2>5
<1>6. /\ ncount' \in Nat /\ uncounted' \in Nat
      /\ ncount' + uncounted + Share(i, Underway) = ncount + uncounted' + Share(i, Underway')
      /\ build = "makereq" => uncounted' = 0
  <2>1. (i \in Underway <=> pc[i] = "slow" \/ (build = "blkmq" /\ Failed(i))) /\ (i \in Underway' <=> pc'[i] = "slow")
    BY <1>1 DEF Underway, Failed
  <2>2. pc[i] = "slow" => ncount >= 1
    BY <2>1, CountsPositive
  <2>3. ncount \in Nat /\ uncounted \in Nat /\ (build = "makereq" => uncounted = 0) /\ build \in {"blkmq", "makereq"}
    BY DEF CountedWhileActive
  <2>4. CASE SlowEnd(i)
    <3>1. ncount' = ncount - 1 /\ uncounted' = uncounted /\ pc[i] = "slow" /\ pc'[i] # "slow"
      BY <2>4 DEF SlowEnd, Ended
    <3> QED BY ONLY <2>1, <2>2, <2>3, <3>1 DEF Share, Failed
  <2>5. CASE Unmaps(i)
    <3>1. /\ uncounted' = IF build = "blkmq" THEN uncounted + 1 ELSE uncounted
          /\ ncount' = IF pc'[i] = "slow" THEN ncount + 1 ELSE ncount
          /\ Failed(i)
      BY <1>0, <2>5 DEF Unmap, Ended
    <3>2. Failed(i) => pc[i] # "slow"
      BY DEF Failed
    <3> QED BY ONLY <2>1, <2>2, <2>3, <3>1, <3>2 DEF Share
  <2>6. CASE \E r \in {"notsupp", "nomem"} : MapFails(i, r)
    <3>1. ncount' = ncount + 1 /\ uncounted' = uncounted + 1 /\ pc[i] = "queued" /\ pc'[i] # "slow" /\ build = "blkmq"
      BY <2>6 DEF MapFails, Ended
    <3> QED BY ONLY <2>1, <2>3, <3>1 DEF Share, Failed
  <2>7. CASE \E k \in Files : InitHeadFails(i, k)
    <3>1. ncount' = ncount /\ uncounted' = uncounted /\ pc[i] = "queued" /\ pc'[i] # "slow"
      BY <2>7 DEF InitHeadFails, Ended
    <3> QED BY ONLY <2>1, <2>3, <3>1 DEF Share, Failed
  <2>8. CASE (\E b \in BOOLEAN : RouteSlow(i, b)) \/ \E o \in Ops, b \in BOOLEAN : SubmitSlow(i, o, b)
    <3>1. /\ uncounted' = uncounted /\ pc[i] \in {"ok", "error", "queued"}
          /\ ncount' = IF pc'[i] = "slow" THEN ncount + 1 ELSE ncount
      BY <2>8 DEF RouteSlow, SubmitSlow, Ended
    <3> QED BY ONLY <2>1, <2>3, <3>1 DEF Share, Failed
  <2> QED BY <2>4, <2>5, <2>6, <2>7, <2>8 DEF OffPath
<1>7. asleep' \subseteq asleep /\ (asleep' = Wake(ncount') \/ (asleep' = asleep /\ pc[i] # "slow"))
  <2>1. CASE Unmaps(i)
    <3>1. /\ pc[i] # "slow"
          /\ \/ asleep' = asleep
             \/ asleep' = Wake(ncount')
             \/ AbortFailQ(i) /\ asleep' = Wake(ncount)
      BY <2>1 DEF Unmaps, Reroute, Reissue, AbortFailQ
    <3>2. AbortFailQ(i) => ncount' = ncount
      BY DEF AbortFailQ, Unmap
    <3> QED BY <3>1, <3>2 DEF Wake
  <2>2. CASE ~Unmaps(i)
    BY <2>2 DEF OffPath, SlowEnd, MapFails, InitHeadFails, RouteSlow, SubmitSlow, Wake
  <2> QED BY <2>1, <2>2
<1>8. TypeOK'
  <2>1. refs' \in [Files -> Nat] /\ leaked' \in [Files -> 0 .. MaxLeaked]
    <3>1. /\ refs' = refs \/ \E fs, d : refs' = Refs(fs, d)
          /\ leaked' = leaked \/ \E k \in Files : leaked' = [h \in Files |-> IF h < k THEN leaked[h] + 1 ELSE leaked[h]]
      <4>1. CASE Unmaps(i)
        BY <1>0, <4>1 DEF Unmap
      <4>2. CASE ~Unmaps(i)
        BY <4>2 DEF OffPath, SlowEnd, MapFails, InitHeadFails, RouteSlow, SubmitSlow
      <4> QED BY <4>1, <4>2
    <3>2. refs' = [g \in Files |-> refs'[g]] /\ leaked' = [g \in Files |-> leaked'[g]]
      BY <3>1 DEF Refs
    <3> QED BY <1>5, <3>2
  <2>2. phase' \in [IOs -> [Files -> {"none", "ready", "flight", "ended", "done"}]]
    <3>1. None \in [Files -> {"none", "ready", "flight", "ended", "done"}]
      BY DEF None
    <3> QED BY <1>1, <3>1
  <2>3. op' \in [IOs -> Ops] /\ st' \in [IOs -> [Files -> Status]]
    <3>1. AllOk \in [Files -> Status]
      BY DEF AllOk, Status
    <3> QED BY <1>1, <3>1
  <2>4. pc' \in [IOs -> {"ok", "error", "wait", "queued", "cloned", "failing", "failed", "slow"}] /\ nactive' \in [IOs -> 0 .. NFiles]
    BY <1>1
  <2> QED BY <1>1, <1>6, <1>7, <2>1, <2>2, <2>3, <2>4
<1>9. RefsCounted' /\ ClonesCounted' /\ CountedWhileActive'
  <2>1. \A j \in IOs \ {i} : /\ phase'[j] = phase[j] /\ nactive'[j] = nactive[j]
                              /\ pc'[j] = pc[j] /\ op'[j] = op[j]
    BY <1>1
  <2> QED BY <1>1, <1>3, <1>5, <1>6, <1>8, <2>1, OneIO
<1>10. SleepersWait'
  BY <1>1, <1>7 DEF SleepersWait
<1>11. SleeperIsWoken'
  <2>1. CASE asleep' = Wake(ncount')
    <3>1. asleep' # {} => Congested(ncount)'
      BY <1>1, <2>1 DEF Wake, Congested
    <3> QED BY <1>8, <1>9, <1>10, <3>1, WokenAgain
  <2>2. CASE asleep' = asleep /\ pc[i] # "slow" /\ build = "makereq"
    <3>1. i \notin Underway
      BY <1>1, <2>2 DEF Underway
    <3>2. Underway \subseteq Underway'
      BY <1>1, <3>1 DEF Underway
    <3> QED BY <1>1, <2>2, <3>2 DEF SleeperIsWoken
  <2>3. CASE asleep' = asleep /\ build = "blkmq"
    <3>1. asleep = {}
      BY <2>3 DEF SleepersWait
    <3> QED BY <2>3, <3>1 DEF SleeperIsWoken
  <2> QED BY <1>7, <2>1, <2>2, <2>3
<1> QED BY <1>8, <1>9, <1>10, <1>11

\* The administrator's steps.
LEMMA AdminKeeps ==
  ASSUME FastInv, Suspend \/ Resume \/ ForceFail \/ PathOff \/ \E q \in Depths : CongestionSet(q)
  PROVE  FastInv'
<1> USE DEF FastInv, io_vars, count_vars
<1>1. UNCHANGED <<build, io_vars, count_vars>> /\ asleep' \subseteq asleep
  BY DEF Suspend, Resume, ForceFail, PathOff, CongestionSet, Wake
<1>2. TypeOK'
  BY <1>1 DEF TypeOK, Suspend, Resume, ForceFail, PathOff, CongestionSet
<1>3. RefsCounted'
  <2>1. \A f \in Files : Holders(f)' = Holders(f)
    BY <1>1 DEF Holders, Holds
  <2> QED BY <1>1, <2>1 DEF RefsCounted
<1>4. ClonesCounted'
  <2>1. \A i \in IOs : Unhandled(i)' = Unhandled(i) /\ (Busy(i)' <=> Busy(i))
    BY <1>1 DEF Unhandled, Busy
  <2> QED BY <1>1, <2>1 DEF ClonesCounted, CloneCounted
<1>5. CountedWhileActive'
  <2>1. Underway' = Underway
    BY <1>1 DEF Underway
  <2> QED BY <1>1, <2>1 DEF CountedWhileActive
<1>6. SleepersWait'
  BY <1>1 DEF SleepersWait
<1>7. SleeperIsWoken'
  <2>1. CASE Resume
    <3>1. asleep' # {} => Congested(ncount)'
      BY <2>1, <1>1 DEF Resume, Congested
    <3> QED BY <1>2, <1>5, <1>6, <3>1, WokenAgain
  <2>2. CASE ~Resume
    <3>1. suspended => suspended'
      BY <2>2 DEF Suspend, ForceFail, PathOff, CongestionSet
    <3>2. Underway' = Underway
      BY <1>1 DEF Underway
    <3> QED BY <1>1, <3>1, <3>2 DEF SleeperIsWoken
  <2> QED BY <2>1, <2>2
<1> QED BY <1>2, <1>3, <1>4, <1>5, <1>6, <1>7

LEMMA FastKept == FastInv /\ [Next]_vars => FastInv'
<1> SUFFICES ASSUME FastInv, [Next]_vars PROVE FastInv'
  OBVIOUS
<1>1. CASE UNCHANGED vars
  <2>1. UNCHANGED <<build, can_failover, force_fail, suspended, fast, qdepth>>
    BY <1>1, Zenon DEF vars, conf
  <2>2. UNCHANGED <<pc, op, phase, st, nactive, refs, ncount, leaked, uncounted, asleep>>
    BY <1>1 DEF vars, io_vars, count_vars
  <2>3. TypeOK'
    BY <2>1, <2>2, Zenon DEF FastInv, TypeOK
  <2>4. RefsCounted' /\ ClonesCounted' /\ CountedWhileActive'
    BY <2>1, <2>2 DEF FastInv, RefsCounted, Holders, Holds, ClonesCounted, CloneCounted, Unhandled, Busy, Targets,
                      CountedWhileActive, Underway
  <2>5. SleepersWait'
    BY <2>1, <2>2 DEF FastInv, SleepersWait
  <2>6. SleeperIsWoken'
    BY <2>1, <2>2, Zenon DEF FastInv, SleeperIsWoken, Underway
  <2> QED BY <2>3, <2>4, <2>5, <2>6 DEF FastInv
<1>2. ASSUME NEW i \in IOs, Step(i) \/ \E o \in Ops : Submit(i, o) \/ \E b \in BOOLEAN : SubmitSlow(i, o, b) PROVE FastInv'
  <2>1. CASE \E f \in Files : CloneDone(i, f) \/ IOEnds(i, f) \/ IOFails(i, f)
    BY <2>1, DoneKeeps, LastKeeps
  <2>2. CASE Recheck(i) \/ \E o \in Ops : Submit(i, o)
    BY <2>2, SubmitKeeps
  <2>3. CASE Dispatch(i) \/ \E f \in Files, s \in Status : BioEnd(i, f, s)
    BY <2>3, FlightKeeps
  <2>4. CASE OffPath(i)
    BY <2>4, OffPathKeeps
  <2> QED BY <1>2, <2>1, <2>2, <2>3, <2>4, CloneKeeps, FailQKeeps DEF Step, OffPath, Unmaps
<1> QED BY <1>1, <1>2, AdminKeeps DEF Next

--------------------------------------------------------------------------------
\* On every path of an IO, its error paths included, each reference that
\* get_file took is put once, except those __pxd_init_block_head loses, and
\* ncount is the number of IOs under way: for any number of IOs and files.
THEOREM CountsSafe == Spec => []CountsSound
<1>1. FastInv => CountsSound
  <2> SUFFICES ASSUME FastInv, \A i \in IOs : ~Busy(i) PROVE refs = leaked
    BY DEF CountsSound, FilesReleased, FastInv
  <2>1. \A f \in Files : Holders(f) = {}
    BY DEF FastInv, ClonesCounted, CloneCounted, Holders, Holds, None
  <2>2. ASSUME NEW f \in Files PROVE refs[f] = leaked[f]
    <3>1. leaked[f] \in Nat
      BY FastAssumption DEF FastInv, TypeOK
    <3>2. refs[f] = Cardinality(Holders(f)) + leaked[f] /\ Cardinality(Holders(f)) = 0
      BY <2>1, FS_EmptySet DEF FastInv, RefsCounted
    <3> QED BY <3>1, <3>2
  <2> QED BY <2>2 DEF FastInv, TypeOK
<1> QED BY FastInitial, FastKept, <1>1, PTL DEF Spec

\* Whoever sleeps in pxd_check_q_congested has an IO under way, or a suspend,
\* whose end wakes it, also after qdepth was changed under it.
THEOREM SleepersSafe == Spec => []SleeperIsWoken
<1>1. FastInv => SleeperIsWoken
  BY DEF FastInv
<1> QED BY FastInitial, FastKept, <1>1, PTL DEF Spec

\* An IO leaves the fast path by the end of its last clone only.
LEMMA LeavesLast ==
  ASSUME FastInv, [Next]_vars, NEW i \in IOs, pc[i] = "cloned", pc'[i] # "cloned"
  PROVE  \E f \in Files : IOEnds(i, f) \/ IOFails(i, f)
<1> USE DEF FastInv, TypeOK
<1>1. ASSUME NEW j \in IOs, Step(j) \/ \E o \in Ops : Submit(j, o) \/ \E b \in BOOLEAN : SubmitSlow(j, o, b), j # i PROVE FALSE
  BY <1>1 DEF Step, Recheck, Clone, Dispatch, SlowEnd, MapFails, InitHeadFails, BioEnd, CloneDone, IOEnds,
              IOFails, FailQ, AbortFailQ, Reroute, Reissue, RouteSlow, Unmap, Submit, SubmitSlow, Ended
<1>2. CASE UNCHANGED vars
  BY <1>2 DEF vars, io_vars
<1>3. CASE Suspend \/ Resume \/ ForceFail \/ PathOff \/ \E q \in Depths : CongestionSet(q)
  BY <1>3 DEF Suspend, Resume, ForceFail, PathOff, CongestionSet, io_vars
<1>4. CASE Step(i) \/ \E o \in Ops : Submit(i, o) \/ \E b \in BOOLEAN : SubmitSlow(i, o, b)
  BY <1>4 DEF Step, Recheck, Clone, Dispatch, SlowEnd, MapFails, InitHeadFails, BioEnd, CloneDone, FailQ,
              AbortFailQ, Reroute, Reissue, RouteSlow, Submit, SubmitSlow
<1> QED BY <1>1, <1>2, <1>3, <1>4 DEF Next

\* No clone is submitted or in flight when its original leaves the fast path.
THEOREM ClonesSafe == Spec => NoCloneOutlives
<1>1. FastInv /\ [Next]_vars =>
        [\A i \in IOs : pc[i] = "cloned" /\ pc'[i] # "cloned"
           => \A f \in Files : phase[i][f] \notin {"ready", "flight"}]_vars
  <2> SUFFICES ASSUME FastInv, [Next]_vars, NEW i \in IOs, pc[i] = "cloned", pc'[i] # "cloned"
               PROVE  \A f \in Files : phase[i][f] \notin {"ready", "flight"}
    OBVIOUS
  <2>1. PICK f \in Files : IOEnds(i, f) \/ IOFails(i, f)
    BY LeavesLast
  <2>2. Unhandled(i) = {f} /\ phase[i][f] = "ended"
    BY <2>1, LastClone DEF IOEnds, IOFails
  <2> QED BY <2>2 DEF Unhandled
<1> QED BY FastInitial, FastKept, <1>1, PTL DEF Spec, NoCloneOutlives

\* What the statuses of the files have to be when reconcile_status and
\* reconcile_io_status give success.
LEMMA ReconcileOk ==
  ASSUME NEW s \in [Files -> Status], NEW fs \in SUBSET Files, Reconcile(s, fs) = "ok"
  PROVE  \A f \in fs : s[f] = "ok"
<1>1. CASE build = "blkmq"
  <2> DEFINE bad == {f \in fs : s[f] # "ok"}
  <2>1. bad # {} => Max(bad) \in bad
    BY FileMinMax
  <2>2. bad # {} => Reconcile(s, fs) = s[Max(bad)]
    BY <1>1 DEF Reconcile, FirstError
  <2>3. bad = {}
    BY <2>1, <2>2
  <2> QED BY <2>3
<1>2. CASE build # "blkmq"
  <2> DEFINE all == {Remap(s[f]) : f \in fs}
  <2>1. "eio" \notin all /\ "nospc" \notin all
    BY <1>2 DEF Reconcile
  <2>2. \A f \in fs : Remap(s[f]) \in {"ok", "nospc", "eio"} /\ (Remap(s[f]) = "ok" => s[f] = "ok")
    BY DEF Remap
  <2> QED BY <2>1, <2>2
<1> QED BY <1>1, <1>2

\* Success on the fast path means success on every file of the IO: no status
\* of a replica is lost between its end and the end of the original.
THEOREM SuccessSafe == Spec => SuccessOnEveryFile
<1>1. FastInv /\ [Next]_vars =>
        [\A i \in IOs : pc[i] = "cloned" /\ pc'[i] = "ok"
           => \A f \in Targets(op[i]) : phase[i][f] \in {"ended", "done"} /\ st[i][f] = "ok"]_vars
  <2> SUFFICES ASSUME FastInv, [Next]_vars, NEW i \in IOs, pc[i] = "cloned", pc'[i] = "ok"
               PROVE  \A f \in Targets(op[i]) : phase[i][f] \in {"ended", "done"} /\ st[i][f] = "ok"
    OBVIOUS
  <2>1. PICK f \in Files : IOEnds(i, f) \/ IOFails(i, f)
    BY LeavesLast
  <2>2. Unhandled(i) = {f} /\ phase[i][f] = "ended"
    BY <2>1, LastClone DEF IOEnds, IOFails
  <2>3. Targets(op[i]) \in SUBSET Files /\ st[i] \in [Files -> Status]
    BY FastAssumption DEF Targets, Files, FastInv, TypeOK
  <2>4. \A g \in Targets(op[i]) : phase[i][g] \in {"ready", "flight", "ended", "done"}
    BY <2>3 DEF FastInv, TypeOK, ClonesCounted, CloneCounted, Busy
  <2>5. Final(i) = "ok"
    BY <2>1 DEF IOEnds, IOFails, Ended, FastInv, TypeOK
  <2>6. Reconcile(st[i], Targets(op[i])) = "ok"
    BY <2>5 DEF Final
  <2>7. \A g \in Targets(op[i]) : st[i][g] = "ok"
    BY <2>3, <2>6, ReconcileOk
  <2> QED BY <2>2, <2>3, <2>4, <2>7 DEF Unhandled
<1> QED BY FastInitial, FastKept, <1>1, PTL DEF Spec, SuccessOnEveryFile

\* In the make_request build -EIO of one file is never hidden by what another
\* file returned: the IO fails over, as long as the device can.
THEOREM EioSafe == Spec => EioFailsOver
<1>1. FastInv /\ [Next]_vars =>
        [\A i \in IOs : build = "makereq" /\ can_failover /\ pc[i] = "cloned" /\ pc'[i] = "error"
           => \A f \in Targets(op[i]) : st[i][f] # "eio"]_vars
  <2> SUFFICES ASSUME FastInv, [Next]_vars, NEW i \in IOs, build = "makereq", can_failover,
                      pc[i] = "cloned", pc'[i] = "error", NEW g \in Targets(op[i]), st[i][g] = "eio"
               PROVE  FALSE
    OBVIOUS
  <2>1. PICK f \in Files : IOEnds(i, f) \/ IOFails(i, f)
    BY LeavesLast
  <2>2. Final(i) # "eio"
    BY <2>1 DEF IOEnds, IOFails, FastInv, TypeOK
  <2>3. "eio" \in {Remap(st[i][h]) : h \in Targets(op[i])}
    BY DEF Remap
  <2> QED BY <2>2, <2>3 DEF Final, Reconcile
<1> QED BY FastInitial, FastKept, <1>1, PTL DEF Spec, EioFailsOver

================================================================================
