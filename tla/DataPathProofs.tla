----------------------------- MODULE DataPathProofs ----------------------------
(***************************************************************************)
(* For devices of any size, any number of IOs and any number of crashes:   *)
(* an acknowledged write is what later reads get, a flush, REQ_FUA and     *)
(* O_SYNC keep it through a crash, and REQ_PREFLUSH orders it; the daemon  *)
(* fetches every unit of a write once and in place unless a part of its    *)
(* iovecs ends inside a segment, and the blocks hold what the bios carried.*)
(***************************************************************************)
EXTENDS DataPath, Counting

\* an IO that has begun and not ended, and the ones that ended with success
Active(i) == io[i].st \notin {"none", "ok", "err", "gone"}
Succeeded == {i \in Ids : io[i].st = "ok"}

\* Content c is not older than IO w: no IO wrote it that had ended when w was
\* submitted, and it is not what the device held at first.
Fresh(w, c) == c[1] \notin before[w] \union {0}

\* Write w is what a read of block b gets, or something newer is, and an O_SYNC
\* file has it on the medium; and block b keeps it through a crash.
Settled(w, b) == Fresh(w, vol[b]) /\ (sync => Fresh(w, dur[b]))
Kept(w, b) == Fresh(w, vol[b]) /\ Fresh(w, dur[b])

Bodies ==
  [st : {"none", "preflush", "data", "flush", "send", "sent", "ok", "err", "gone"},
   op : {"none", "read", "write", "discard", "flush"}, off : Nat, len : Nat,
   fl : SUBSET {"pre", "fua"}, zs : SUBSET Blocks, k : Nat, bad : BOOLEAN,
   got : [Blocks -> Contents], cut : BOOLEAN]

Requests == [off : Nat, len : Nat, flush : BOOLEAN, op : {"read", "write", "discard"}]

Types ==
  /\ path \in {"file", "legacy", "daemon"} /\ sync \in BOOLEAN /\ limit \in Nat
  /\ path = "daemon" => ~sync
  /\ io \in [Ids -> Bodies] /\ pieces \in [Ids -> SUBSET Requests]
  /\ vol \in [Blocks -> Contents] /\ dur \in [Blocks -> Contents]
  /\ before \in [Ids -> SUBSET Ids] /\ base \in [Ids -> SUBSET Ids]
  /\ acked \subseteq Ids /\ safe \subseteq Ids

\* What the steps of a bio rely on.
BioOK(i) ==
  /\ io[i].st # "none" => io[i].off + io[i].len <= NBlocks /\ io[i].op # "none"
  /\ io[i].st \in {"preflush", "data"} => io[i].k < io[i].len /\ io[i].op # "flush"
  /\ io[i].st \in {"preflush", "flush"} => io[i].op \in {"write", "flush"}
  /\ path = "daemon" => io[i].st \notin {"preflush", "data", "flush"}
  /\ path # "daemon" => io[i].st \notin {"send", "sent"}
  /\ io[i].fl # {} => io[i].op = "write"
  /\ Active(i) => ~io[i].cut
  /\ pieces[i] # {} => io[i].st = "sent"
  /\ \A p \in pieces[i] : /\ io[i].fl # {} \/ io[i].op = "flush" => p.flush
                          /\ p.op = "read" <=> io[i].op = "read"

\* block b is in a request that the daemon has not answered
Pending(i, b) == \E p \in pieces[i] : b \in Span(p)

\* How far a write has come.
WriteSoFar(i) ==
  io[i].op = "write" =>
    /\ io[i].st \in {"preflush", "data"} => \A b \in Span(io[i]) : b < io[i].off + io[i].k => Settled(i, b)
    /\ io[i].st = "flush" => \A b \in Span(io[i]) : Settled(i, b)
    /\ io[i].st = "sent" /\ ~io[i].bad => \A b \in Span(io[i]) : Pending(i, b) \/ Settled(i, b)

\* IO i has got nothing older for block b than what was acknowledged to it.
GotLatest(i, b) == \A w \in base[i] : b \in Span(io[w]) => Fresh(w, io[i].got[b])

\* How far a read has come.
ReadSoFar(i) ==
  io[i].op = "read" =>
    /\ io[i].st = "data" => \A b \in Span(io[i]) : b < io[i].off + io[i].k => GotLatest(i, b)
    /\ io[i].st = "sent" /\ ~io[i].bad => \A b \in Span(io[i]) : Pending(i, b) \/ GotLatest(i, b)
    /\ io[i].st = "ok" /\ ~io[i].cut => \A b \in Span(io[i]) : GotLatest(i, b)

\* some block holds what IO i wrote
Wrote(i) == \E b \in Blocks : vol[b][1] = i \/ dur[b][1] = i

\* From the flush that precedes it on, a write with REQ_PREFLUSH finds all that
\* was acknowledged before it on the medium.
PreflushDone(i) ==
  path # "legacy" /\ "pre" \in io[i].fl /\ (Wrote(i) \/ io[i].st \in {"data", "flush"}) =>
    \A u \in base[i] : \A b \in Span(io[u]) : Kept(u, b)

IOInv(i) ==
  /\ before[i] \subseteq Ended /\ base[i] \subseteq Succeeded
  /\ Active(i) => base[i] \subseteq acked
  /\ io[i].st = "none" => io[i] = Idle /\ ~Wrote(i)
  /\ BioOK(i) /\ WriteSoFar(i) /\ ReadSoFar(i) /\ PreflushDone(i)

Promised ==
  /\ acked \subseteq Succeeded /\ safe \subseteq acked
  /\ \A w \in acked : \A b \in Span(io[w]) : Settled(w, b)
  /\ \A w \in safe : \A b \in Span(io[w]) : Kept(w, b)

DataInv == Types /\ Promised /\ \A i \in Ids : IOInv(i)

--------------------------------------------------------------------------------
LEMMA NumbersOK == NBlocks \in Nat /\ NBlocks # 0 /\ NIOs \in Nat /\ 0 \notin Ids
  BY DataAssumption DEF Ids

\* the numbers of a bio
LEMMA BodyNumbers ==
  ASSUME NEW r \in Bodies
  PROVE  r.off \in Nat /\ r.len \in Nat /\ r.k \in Nat
  BY DEF Bodies

\* A bio that has begun stays on the device.
LEMMA SpanOnDevice ==
  ASSUME DataInv, NEW i \in Ids, io[i].st # "none"
  PROVE  Span(io[i]) \subseteq Blocks
<1>1. io[i] \in Bodies /\ BioOK(i)
  BY DEF DataInv, Types, IOInv
<1>2. io[i].off \in Nat /\ io[i].len \in Nat
  BY <1>1, BodyNumbers
<1>3. io[i].off + io[i].len <= NBlocks
  BY <1>1 DEF BioOK
<1>4. ASSUME NEW b \in Span(io[i]) PROVE b \in Blocks
  <2>1. b \in io[i].off .. io[i].off + io[i].len - 1
    BY DEF Span
  <2> QED BY ONLY <1>2, <1>3, <2>1, NumbersOK DEF Blocks
<1> QED BY <1>4

\* What a step of IO i may do to the blocks: i writes them, and the medium gets
\* what the page cache has.
Moves(i) ==
  \A b \in Blocks : /\ vol'[b] = vol[b] \/ vol'[b][1] = i
                    /\ dur'[b] = dur[b] \/ dur'[b] = vol'[b]

\* What is settled or kept stays so, in every step but a crash.
LEMMA Stable ==
  ASSUME DataInv, NEW i \in Ids \ Ended, Moves(i), UNCHANGED <<sync, before>>, NEW w \in Ids, NEW b \in Blocks
  PROVE  (Settled(w, b) => Settled(w, b)') /\ (Kept(w, b) => Kept(w, b)')
<1>1. before[w] \subseteq Ended /\ i \notin before[w] \union {0}
  BY NumbersOK DEF DataInv, IOInv
<1>2. Fresh(w, vol[b]) => Fresh(w, vol[b])'
  BY <1>1 DEF Moves, Fresh
<1>3. Fresh(w, vol[b])' /\ Fresh(w, dur[b]) => Fresh(w, dur[b])'
  BY DEF Moves, Fresh
<1> QED BY <1>2, <1>3 DEF Settled, Kept

\* What of a bio the steps never change.
SameBio(q, r) == r.op = q.op /\ r.off = q.off /\ r.len = q.len /\ r.fl = q.fl

\* A step of IO i, which goes to r, keeps the invariant if what is particular to
\* i holds after it.
LEMMA StepKeeps ==
  ASSUME DataInv, NEW i \in Ids, Active(i), NEW r \in Bodies, Goes(i, r), SameBio(io[i], r), r.st # "none",
         UNCHANGED <<path, sync, limit>>, pieces' \in [Ids -> SUBSET Requests],
         \A j \in Ids \ {i} : pieces'[j] = pieces[j],
         vol' \in [Blocks -> Contents], dur' \in [Blocks -> Contents], Moves(i),
         BioOK(i)', WriteSoFar(i)', ReadSoFar(i)', PreflushDone(i)',
         r.st = "ok" /\ r.op = "write" => \A b \in Span(r) : Settled(i, b)',
         r.st = "ok" => \A u \in Promise(i, r) : \A b \in Span(io[u]) : Kept(u, b)'
  PROVE  DataInv'
<1>1. /\ io' = [io EXCEPT ![i] = r] /\ UNCHANGED <<before, base>>
      /\ acked' = (IF r.st = "ok" /\ r.op = "write" THEN acked \union {i} ELSE acked)
      /\ safe' = (IF r.st = "ok" THEN safe \union Promise(i, r) ELSE safe)
  BY DEF Goes
<1>2. io \in [Ids -> Bodies] /\ io' \in [Ids -> Bodies] /\ io'[i] = r /\ \A j \in Ids \ {i} : io'[j] = io[j]
  BY <1>1 DEF DataInv, Types
<1>3. \A j \in Ids : Span(io[j])' = Span(io[j]) /\ (io[j].st # "none" => Span(io[j]) \subseteq Blocks)
  BY <1>2, SpanOnDevice DEF SameBio, Span
<1>4. i \in Ids \ Ended /\ Ended \subseteq Ended' /\ Succeeded \subseteq Succeeded'
  BY <1>2 DEF Active, Ended, Succeeded
<1>5. \A w \in Ids, b \in Blocks : (Settled(w, b) => Settled(w, b)') /\ (Kept(w, b) => Kept(w, b)')
  BY <1>1, <1>4, Stable
<1>6. /\ acked \subseteq Succeeded /\ safe \subseteq acked /\ acked \subseteq Ids /\ safe \subseteq Ids
      /\ base[i] \subseteq acked /\ base \in [Ids -> SUBSET Ids]
      /\ \A w \in acked : \A b \in Span(io[w]) : Settled(w, b)
      /\ \A w \in safe : \A b \in Span(io[w]) : Kept(w, b)
  BY DEF DataInv, Promised, IOInv, Types
<1>7. Promise(i, r) \subseteq base[i] \union {i} /\ (i \in Promise(i, r) /\ i \notin base[i] => r.op = "write")
  BY DEF Promise
<1>8. Types'
  <2>1. acked' \subseteq Ids /\ safe' \subseteq Ids
    BY <1>1, <1>6, <1>7
  <2> QED BY <1>1, <1>2, <2>1 DEF DataInv, Types
<1>9. \A w \in Succeeded : w # i /\ io[w].st # "none"
  BY DEF Succeeded, Active
<1>10. Promised'
  <2>1. acked' \subseteq Succeeded'
    BY <1>1, <1>2, <1>4, <1>6 DEF Succeeded
  <2>2. safe' \subseteq acked'
    BY <1>1, <1>6, <1>7
  <2>3. ASSUME NEW w \in acked', NEW b \in Span(io[w])' PROVE Settled(w, b)'
    <3>1. CASE w \in acked
      <4>1. b \in Span(io[w]) /\ b \in Blocks /\ Settled(w, b)
        BY <1>3, <1>6, <1>9, <2>3, <3>1
      <4> QED BY <1>5, <1>6, <3>1, <4>1
    <3>2. CASE w \notin acked
      <4>1. w = i /\ r.st = "ok" /\ r.op = "write"
        BY <1>1, <2>3, <3>2
      <4> QED BY <1>2, <2>3, <4>1
    <3> QED BY <3>1, <3>2
  <2>4. ASSUME NEW w \in safe', NEW b \in Span(io[w])' PROVE Kept(w, b)'
    <3>1. CASE w \in safe
      <4>1. b \in Span(io[w]) /\ b \in Blocks /\ Kept(w, b)
        BY <1>3, <1>6, <1>9, <2>4, <3>1
      <4> QED BY <1>5, <1>6, <3>1, <4>1
    <3>2. CASE w \notin safe
      <4>1. r.st = "ok" /\ w \in Promise(i, r)
        BY <1>1, <2>4, <3>2
      <4>2. w \in Ids
        BY <1>6, <1>7, <4>1
      <4>3. b \in Span(io[w])
        BY <1>3, <2>4, <4>2
      <4> QED BY <4>1, <4>3
    <3> QED BY <3>1, <3>2
  <2> QED BY <2>1, <2>2, <2>3, <2>4 DEF Promised
<1>11. acked \subseteq acked'
  BY <1>1
<1>12. ASSUME NEW j \in Ids \ {i} PROVE IOInv(j)'
  <2>1. IOInv(j) /\ io'[j] = io[j] /\ pieces'[j] = pieces[j] /\ before'[j] = before[j] /\ base'[j] = base[j]
    BY <1>1, <1>2 DEF DataInv
  <2>2. base[j] \subseteq Succeeded /\ base[j] \subseteq Ids
    BY <1>6, <2>1 DEF IOInv
  <2>3. before'[j] \subseteq Ended' /\ base'[j] \subseteq Succeeded' /\ (Active(j)' => base'[j] \subseteq acked')
    BY <1>4, <1>11, <2>1 DEF IOInv, Active
  <2>4. Wrote(j)' => Wrote(j)
    BY DEF Wrote, Moves
  <2>5. BioOK(j)'
    BY <2>1 DEF IOInv, BioOK, Active
  <2>6. \A b \in Blocks : (Settled(j, b) => Settled(j, b)') /\ (Pending(j, b)' <=> Pending(j, b))
    BY <1>5, <2>1 DEF Pending
  <2>7. WriteSoFar(j)'
    <3>1. io[j].st # "none" => Span(io[j]) \subseteq Blocks
      BY <1>3
    <3>2. Span(io[j])' = Span(io[j])
      BY <1>3
    <3> QED BY <2>1, <2>6, <3>1, <3>2 DEF IOInv, WriteSoFar
  <2>8. \A b : GotLatest(j, b) => GotLatest(j, b)'
    BY <1>1, <1>3, <2>1, <2>2 DEF GotLatest, Fresh
  <2>9. ReadSoFar(j)'
    <3>1. io[j].st # "none" => Span(io[j]) \subseteq Blocks
      BY <1>3
    <3>2. Span(io[j])' = Span(io[j])
      BY <1>3
    <3> QED BY <2>1, <2>6, <2>8, <3>1, <3>2 DEF IOInv, ReadSoFar
  <2>10. PreflushDone(j)'
    <3>1. \A u \in base[j] : \A b \in Span(io[u])' : b \in Blocks /\ b \in Span(io[u])
      BY <1>3, <1>9, <2>2
    <3>2. (\A u \in base[j] : \A b \in Span(io[u]) : Kept(u, b)) =>
            \A u \in base'[j] : \A b \in Span(io[u])' : Kept(u, b)'
      BY <1>5, <2>1, <2>2, <3>1
    <3> QED BY <2>1, <2>4, <3>2 DEF IOInv, PreflushDone
  <2> QED BY <2>1, <2>3, <2>4, <2>5, <2>7, <2>9, <2>10 DEF IOInv
<1>13. IOInv(i)'
  <2>1. IOInv(i) /\ before'[i] = before[i] /\ base'[i] = base[i]
    BY <1>1 DEF DataInv
  <2>2. before'[i] \subseteq Ended' /\ base'[i] \subseteq Succeeded' /\ (Active(i)' => base'[i] \subseteq acked')
    BY <1>4, <1>6, <1>11, <2>1 DEF IOInv
  <2> QED BY <1>2, <2>2 DEF IOInv
<1> QED BY <1>8, <1>10, <1>12, <1>13 DEF DataInv

LEMMA DataInitial == Init => DataInv
<1> SUFFICES ASSUME Init PROVE DataInv
  OBVIOUS
<1>1. /\ io = [i \in Ids |-> Idle] /\ pieces = [i \in Ids |-> {}] /\ before = [i \in Ids |-> {}]
      /\ base = [i \in Ids |-> {}] /\ vol = NoData /\ dur = NoData /\ acked = {} /\ safe = {} /\ path \in Paths
  BY DEF Init
<1>2. Zero \in Contents /\ NoData \in [Blocks -> Contents]
  BY NumbersOK DEF Contents, Zero, NoData
<1>3. Idle \in Bodies
  BY <1>2 DEF Idle, Bodies
<1>4. limit \in Nat /\ sync \in BOOLEAN /\ (path = "daemon" => ~sync)
  <2>1. CASE path = "daemon"
    BY <2>1, NumbersOK DEF Init
  <2>2. CASE path # "daemon"
    BY <2>2 DEF Init
  <2> QED BY <2>1, <2>2
<1>5. Types
  BY <1>1, <1>2, <1>3, <1>4, DataAssumption DEF Types
<1>6. Promised
  BY <1>1 DEF Promised
<1>7. ASSUME NEW i \in Ids PROVE IOInv(i)
  <2>1. io[i] = Idle /\ pieces[i] = {} /\ before[i] = {} /\ base[i] = {}
    BY <1>1
  <2>2. io[i].st = "none" /\ io[i].op = "none" /\ io[i].fl = {}
    BY <2>1 DEF Idle
  <2>3. ~Wrote(i)
    BY <1>1, NumbersOK DEF Wrote, NoData, Zero
  <2>4. BioOK(i) /\ WriteSoFar(i) /\ ReadSoFar(i) /\ PreflushDone(i)
    BY <2>1, <2>2, <2>3 DEF BioOK, WriteSoFar, ReadSoFar, PreflushDone, Active
  <2> QED BY <2>1, <2>2, <2>3, <2>4 DEF IOInv, Active
<1> QED BY <1>5, <1>6, <1>7 DEF DataInv

\* What was acknowledged before an IO that is under way is settled.
LEMMA BaseSettled ==
  ASSUME DataInv, NEW i \in Ids, Active(i), NEW u \in base[i]
  PROVE  /\ u \in Ids /\ u # i /\ Span(io[u]) \subseteq Blocks
         /\ \A b \in Span(io[u]) : Settled(u, b)
<1>1. u \in acked /\ u \in Succeeded
  BY DEF DataInv, IOInv
<1>2. u \in Ids /\ u # i /\ io[u].st = "ok"
  BY <1>1 DEF Succeeded, Active
<1> QED BY <1>1, <1>2, SpanOnDevice DEF DataInv, Promised

\* A flush puts what is settled on the medium.
LEMMA FlushSettles ==
  ASSUME DataInv, NEW i \in Ids \ Ended, Moves(i), UNCHANGED <<sync, before>>,
         sync \/ \A b \in Blocks : dur'[b] = vol'[b], NEW w \in Ids, NEW b \in Blocks, Settled(w, b) \/ Settled(w, b)'
  PROVE  Kept(w, b)'
<1>1. Settled(w, b)'
  BY Stable
<1> QED BY <1>1 DEF Settled, Kept, Fresh

\* The order that REQ_PREFLUSH gives outlives a step of the IO.
LEMMA PreflushStays ==
  ASSUME DataInv, NEW i \in Ids, Active(i), NEW r \in Bodies, Goes(i, r), SameBio(io[i], r), UNCHANGED <<path, sync>>,
         Moves(i), Wrote(i)' => Wrote(i) \/ io[i].st \in {"data", "flush"},
         r.st \in {"data", "flush"} => io[i].st \in {"data", "flush"}
  PROVE  PreflushDone(i)'
<1>1. io' = [io EXCEPT ![i] = r] /\ UNCHANGED <<before, base>> /\ IOInv(i) /\ io \in [Ids -> Bodies]
  BY DEF Goes, DataInv, Types
<1>2. io'[i] = r /\ i \in Ids \ Ended
  BY <1>1 DEF Active, Ended
<1>3. SUFFICES ASSUME path # "legacy", "pre" \in io[i].fl, Wrote(i) \/ io[i].st \in {"data", "flush"},
                      NEW u \in base[i], NEW b \in Span(io[u])'
               PROVE  Kept(u, b)'
  BY <1>1, <1>2 DEF PreflushDone, SameBio
<1>4. u \in Ids /\ io'[u] = io[u] /\ b \in Span(io[u]) /\ b \in Blocks
  BY <1>1, <1>3, BaseSettled DEF Span
<1>5. Kept(u, b)
  BY <1>1, <1>3, <1>4 DEF IOInv, PreflushDone
<1> QED BY <1>1, <1>2, <1>4, <1>5, Stable

\* An IO that fails keeps the invariant, whatever reached the medium.
LEMMA FailKeeps ==
  ASSUME DataInv, NEW i \in Ids, Active(i), pieces[i] = {}, Fails(i), UNCHANGED <<path, sync, limit, pieces, vol>>,
         dur' \in [Blocks -> Contents], \A b \in Blocks : dur'[b] \in {dur[b], vol[b]}
  PROVE  DataInv'
<1> DEFINE r == [io[i] EXCEPT !.st = "err"]
<1>1. io[i] \in Bodies /\ io \in [Ids -> Bodies] /\ BioOK(i) /\ vol' \in [Blocks -> Contents]
      /\ pieces' \in [Ids -> SUBSET Requests]
  BY DEF DataInv, Types, IOInv
<1>2. r \in Bodies /\ SameBio(io[i], r) /\ r.st = "err"
  BY <1>1 DEF Bodies, SameBio
<1>3. Goes(i, r)
  BY DEF Fails
<1> HIDE DEF r
<1>4. io'[i] = r /\ pieces'[i] = {}
  BY <1>1, <1>3 DEF Goes
<1>5. Moves(i) /\ (Wrote(i)' => Wrote(i))
  BY DEF Moves, Wrote
<1>6. PreflushDone(i)'
  BY <1>2, <1>3, <1>5, PreflushStays
<1>7. BioOK(i)' /\ WriteSoFar(i)' /\ ReadSoFar(i)'
  <2>1. io[i].st # "none"
    BY DEF Active
  <2> QED BY <1>1, <1>2, <1>4, <2>1 DEF BioOK, WriteSoFar, ReadSoFar, SameBio, Active
<1> QED BY <1>1, <1>2, <1>3, <1>4, <1>5, <1>6, <1>7, StepKeeps

LEMMA FlushKeeps ==
  ASSUME DataInv, NEW i \in Ids, Flush(i)
  PROVE  DataInv'
<1>1. /\ io[i] \in Bodies /\ io \in [Ids -> Bodies] /\ IOInv(i) /\ BioOK(i) /\ WriteSoFar(i)
      /\ vol \in [Blocks -> Contents] /\ dur \in [Blocks -> Contents] /\ pieces \in [Ids -> SUBSET Requests]
  BY DEF DataInv, Types, IOInv
<1>2. /\ io[i].st \in {"preflush", "flush"} /\ pieces[i] = {} /\ UNCHANGED <<path, sync, limit, pieces, vol>>
  BY <1>1 DEF Flush, conf, BioOK
<1>3. Active(i) /\ i \in Ids \ Ended
  BY <1>2 DEF Active, Ended
<1>4. CASE dur' = (IF sync THEN dur ELSE vol) /\ Goes(i, [io[i] EXCEPT !.st = IF @ = "preflush" THEN "data" ELSE "ok"])
  <2> DEFINE r == [io[i] EXCEPT !.st = IF @ = "preflush" THEN "data" ELSE "ok"]
  <2>1. r \in Bodies /\ SameBio(io[i], r) /\ r.st = (IF io[i].st = "preflush" THEN "data" ELSE "ok")
        /\ r.k = io[i].k /\ r.bad = io[i].bad /\ r.cut = io[i].cut
    BY <1>1 DEF Bodies, SameBio
  <2>2. Goes(i, r)
    BY <1>4
  <2> HIDE DEF r
  <2>3. io' = [io EXCEPT ![i] = r] /\ io'[i] = r /\ pieces'[i] = {} /\ UNCHANGED <<before, base>>
    BY <1>1, <1>2, <2>2 DEF Goes
  <2>4. Moves(i) /\ (sync \/ \A b \in Blocks : dur'[b] = vol'[b]) /\ dur' \in [Blocks -> Contents]
    BY <1>1, <1>2, <1>4 DEF Moves
  <2>5. \A w \in Ids, b \in Blocks : Settled(w, b) => Kept(w, b)'
    BY <1>2, <1>3, <2>3, <2>4, FlushSettles
  <2>6. \A u \in base[i] : \A b \in Span(io[u]) : Kept(u, b)'
    BY <1>3, <2>5, BaseSettled
  <2>7. \A u \in base[i] : u \in Ids /\ Span(io[u])' = Span(io[u])
    BY <1>1, <1>3, <2>3, BaseSettled DEF Span
  <2>8. PreflushDone(i)'
    BY <2>3, <2>6, <2>7 DEF PreflushDone
  <2>9. Span(io[i]) \subseteq Blocks /\ Span(r) = Span(io[i])
    BY <1>2, <2>1, SpanOnDevice DEF SameBio, Span
  <2>10. io[i].st = "flush" /\ io[i].op = "write" => \A b \in Span(io[i]) : Settled(i, b)
    BY <1>1 DEF WriteSoFar
  <2>11. BioOK(i)'
    BY <1>1, <1>2, <2>1, <2>3 DEF BioOK, SameBio, Active
  <2>12. WriteSoFar(i)'
    <3>1. CASE io[i].st = "preflush"
      <4>1. \A b \in Span(io[i]) : b < io[i].off + io[i].k /\ io[i].op = "write" => Settled(i, b)'
        BY <1>1, <1>2, <1>3, <2>3, <2>4, <2>9, <3>1, Stable DEF WriteSoFar
      <4> QED BY <2>1, <2>3, <2>9, <3>1, <4>1 DEF WriteSoFar, SameBio
    <3>2. CASE io[i].st = "flush"
      BY <2>1, <2>3, <3>2 DEF WriteSoFar
    <3> QED BY <1>2, <3>1, <3>2
  <2>13. ReadSoFar(i)'
    <3>1. io[i].op # "read"
      BY <1>1, <1>2 DEF BioOK
    <3> QED BY <2>1, <2>3, <3>1 DEF ReadSoFar, SameBio
  <2>14. r.st = "ok" /\ r.op = "write" => \A b \in Span(r) : Settled(i, b)'
    <3>1. \A b \in Blocks : Kept(i, b)' => Settled(i, b)'
      BY DEF Kept, Settled
    <3> QED BY <1>2, <2>1, <2>5, <2>9, <2>10, <3>1 DEF SameBio
  <2>15. r.st = "ok" => \A u \in Promise(i, r) : \A b \in Span(io[u]) : Kept(u, b)'
    <3>1. r.st = "ok" => io[i].st = "flush"
      BY <1>2, <2>1
    <3>2. \A u \in Promise(i, r) : u \in base[i] \/ (u = i /\ io[i].op = "write")
      BY <2>1 DEF Promise, SameBio
    <3> QED BY <2>5, <2>6, <2>9, <2>10, <3>1, <3>2
  <2> QED BY <1>1, <1>2, <1>3, <2>1, <2>2, <2>4, <2>8, <2>11, <2>12, <2>13, <2>14, <2>15, StepKeeps
<1>5. CASE Fails(i) /\ \E bs \in SUBSET Blocks : dur' = [b \in Blocks |-> IF b \in bs THEN vol[b] ELSE dur[b]]
  <2>1. dur' \in [Blocks -> Contents] /\ \A b \in Blocks : dur'[b] \in {dur[b], vol[b]}
    BY <1>1, <1>5
  <2> QED BY <1>2, <1>3, <1>5, <2>1, FailKeeps
<1> QED BY <1>4, <1>5 DEF Flush

LEMMA WriteSegmentKeeps ==
  ASSUME DataInv, NEW i \in Ids, WriteSegment(i)
  PROVE  DataInv'
<1>1. /\ io[i] \in Bodies /\ io \in [Ids -> Bodies] /\ IOInv(i) /\ BioOK(i) /\ WriteSoFar(i)
      /\ vol \in [Blocks -> Contents] /\ dur \in [Blocks -> Contents] /\ pieces \in [Ids -> SUBSET Requests]
  BY DEF DataInv, Types, IOInv
<1>2. io[i].st = "data" /\ io[i].op = "write" /\ pieces[i] = {} /\ UNCHANGED <<path, sync, limit, pieces>>
  BY <1>1 DEF WriteSegment, conf, BioOK
<1>3. Active(i) /\ i \in Ids \ Ended
  BY <1>2 DEF Active, Ended
<1> DEFINE at == io[i].off + io[i].k
           s == IF io[i].k + 1 = io[i].len THEN AfterData(io[i]) ELSE io[i].st
           r == [io[i] EXCEPT !.k = @ + 1, !.st = IF io[i].k + 1 = io[i].len THEN AfterData(io[i]) ELSE @]
<1>4. CASE /\ vol' = [vol EXCEPT ![at] = <<i, "data">>] /\ Goes(i, r)
           /\ dur' = IF sync THEN [dur EXCEPT ![at] = <<i, "data">>] ELSE dur
  <2>1. /\ io[i].off \in Nat /\ io[i].len \in Nat /\ io[i].k \in Nat
        /\ io[i].k < io[i].len /\ io[i].off + io[i].len <= NBlocks
    BY <1>1, <1>2, BodyNumbers DEF BioOK
  <2>2. at \in Blocks /\ io[i].k + 1 \in Nat
    BY ONLY <2>1, NumbersOK DEF Blocks
  <2>3. s \in {"data", "flush", "ok"} /\ AfterData(io[i]) \in {"flush", "ok"}
    BY <1>2 DEF AfterData
  <2>4. r \in Bodies /\ SameBio(io[i], r) /\ r.st = s /\ r.k = io[i].k + 1 /\ r.bad = io[i].bad /\ r.cut = io[i].cut
    BY <1>1, <2>2, <2>3 DEF Bodies, SameBio
  <2>5. Goes(i, r)
    BY <1>4
  <2> HIDE DEF r
  <2>6. io' = [io EXCEPT ![i] = r] /\ io'[i] = r /\ pieces'[i] = {} /\ UNCHANGED <<before, base>>
    BY <1>1, <1>2, <2>5 DEF Goes
  <2>7. <<i, "data">> \in Contents
    BY NumbersOK DEF Contents, Ids
  <2>8. /\ vol' \in [Blocks -> Contents] /\ dur' \in [Blocks -> Contents] /\ vol'[at] = <<i, "data">>
        /\ sync => dur'[at] = <<i, "data">>
        /\ \A b \in Blocks : b # at => vol'[b] = vol[b] /\ dur'[b] = dur[b]
    <3>1. CASE sync
      BY <1>1, <1>4, <2>2, <2>7, <3>1
    <3>2. CASE ~sync
      <4>1. dur' = dur
        BY <1>4, <3>2
      <4> QED BY <1>1, <1>4, <2>2, <2>7, <3>2, <4>1
    <3> QED BY <3>1, <3>2
  <2>9. Moves(i)
    <3>1. dur'[at] = dur[at] \/ dur'[at] = vol'[at]
      BY <1>4, <2>8
    <3> QED BY <2>8, <3>1 DEF Moves
  <2>10. \A b \in Span(io[i]) : b < io[i].off + (io[i].k + 1) => Settled(i, b)'
    <3> SUFFICES ASSUME NEW b \in Span(io[i]), b < io[i].off + (io[i].k + 1) PROVE Settled(i, b)'
      OBVIOUS
    <3>1. CASE b = at
      <4>1. i \notin before[i] \union {0}
        BY <1>1, <1>3, NumbersOK DEF IOInv
      <4> QED BY <2>6, <2>8, <3>1, <4>1, <1>2 DEF Settled, Fresh
    <3>2. CASE b # at
      <4>1. b \in Int
        BY <2>1 DEF Span
      <4>2. b < io[i].off + io[i].k
        BY ONLY <2>1, <3>2, <4>1, b < io[i].off + (io[i].k + 1)
      <4>3. Settled(i, b) /\ b \in Blocks
        BY <1>1, <1>2, <4>2, SpanOnDevice DEF WriteSoFar
      <4> QED BY <1>2, <1>3, <2>6, <2>9, <4>3, Stable
    <3> QED BY <3>1, <3>2
  <2>11. s # "data" => \A b \in Span(io[i]) : Settled(i, b)'
    <3> SUFFICES ASSUME s # "data", NEW b \in Span(io[i]) PROVE Settled(i, b)'
      OBVIOUS
    <3>1. io[i].k + 1 = io[i].len
      BY <1>2
    <3>2. b \in io[i].off .. io[i].off + io[i].len - 1
      BY DEF Span
    <3>3. b < io[i].off + (io[i].k + 1)
      BY ONLY <2>1, <3>1, <3>2
    <3> QED BY <2>10, <3>3
  <2>12. Span(r) = Span(io[i]) /\ r.off = io[i].off /\ r.len = io[i].len /\ r.op = "write" /\ r.fl = io[i].fl
    BY <1>2, <2>4 DEF SameBio, Span
  <2>13. WriteSoFar(i)'
    BY <2>3, <2>4, <2>6, <2>10, <2>11, <2>12 DEF WriteSoFar
  <2>14. ReadSoFar(i)'
    BY <2>6, <2>12 DEF ReadSoFar
  <2>15. BioOK(i)'
    <3>1. s = "data" => io[i].k + 1 < io[i].len
      <4>1. s = "data" => io[i].k + 1 # io[i].len
        BY <2>3
      <4> QED BY ONLY <2>1, <4>1
    <3>2. Active(i)' => ~io[i].cut
      BY <1>1, <1>3 DEF BioOK
    <3>3. path # "daemon"
      BY <1>1, <1>2 DEF BioOK
    <3> QED BY <1>1, <1>2, <2>1, <2>3, <2>4, <2>6, <2>12, <3>1, <3>2, <3>3 DEF BioOK
  <2>16. PreflushDone(i)'
    BY <1>2, <1>3, <2>4, <2>5, <2>9, PreflushStays
  <2>17. s = "ok" => \A u \in Promise(i, r) : \A b \in Span(io[u]) : Kept(u, b)'
    <3> SUFFICES ASSUME s = "ok", NEW u \in Promise(i, r), NEW b \in Span(io[u]) PROVE Kept(u, b)'
      OBVIOUS
    <3>1. "fua" \notin io[i].fl /\ ("pre" \in io[i].fl => path # "legacy")
      BY <1>2 DEF AfterData, FlushFollows
    <3>2. CASE u \in base[i]
      <4>1. CASE "pre" \in io[i].fl
        <5>1. Kept(u, b) /\ u \in Ids /\ b \in Blocks
          BY <1>1, <1>2, <1>3, <3>1, <3>2, <4>1, BaseSettled DEF IOInv, PreflushDone
        <5> QED BY <1>2, <1>3, <2>6, <2>9, <5>1, Stable
      <4>2. CASE "pre" \notin io[i].fl
        <5>1. u = i
          BY <2>12, <4>2 DEF Promise
        <5> QED BY <1>3, <3>2, <5>1, BaseSettled
      <4> QED BY <4>1, <4>2
    <3>3. CASE u \notin base[i]
      <4>1. u = i /\ sync
        BY <2>12, <3>1, <3>3 DEF Promise
      <4>2. Settled(i, b)'
        BY <2>11, <4>1
      <4> QED BY <1>2, <4>1, <4>2 DEF Settled, Kept
    <3> QED BY <3>2, <3>3
  <2>18. r.st # "none" /\ \A b \in Span(r) : r.st = "ok" => Settled(i, b)'
    BY <2>3, <2>4, <2>11, <2>12
  <2> HIDE DEF s, at
  <2> QED BY <1>1, <1>2, <1>3, <2>4, <2>5, <2>8, <2>9, <2>13, <2>14, <2>15, <2>16, <2>17, <2>18, StepKeeps
<1>5. CASE Fails(i) /\ UNCHANGED store
  <2>1. UNCHANGED <<vol, dur>>
    BY <1>5 DEF store
  <2> QED BY <1>1, <1>2, <1>3, <1>5, <2>1, FailKeeps
<1> QED BY <1>4, <1>5 DEF WriteSegment, WriteFails

\* A step that leaves the blocks alone.
LEMMA NothingMoves ==
  ASSUME UNCHANGED <<vol, dur>>, NEW i
  PROVE  Moves(i) /\ (Wrote(i)' <=> Wrote(i))
  BY DEF Moves, Wrote

\* A read or a discard promises nothing.
LEMMA NoPromise ==
  ASSUME DataInv, NEW i \in Ids, NEW r, SameBio(io[i], r), r.op \in {"read", "discard"}
  PROVE  Promise(i, r) = {}
<1>1. io[i].fl = {}
  BY DEF DataInv, IOInv, BioOK, SameBio
<1> QED BY <1>1 DEF Promise, SameBio

LEMMA ReadSegmentKeeps ==
  ASSUME DataInv, NEW i \in Ids, ReadSegment(i)
  PROVE  DataInv'
<1>1. /\ io[i] \in Bodies /\ io \in [Ids -> Bodies] /\ IOInv(i) /\ BioOK(i) /\ ReadSoFar(i)
      /\ vol \in [Blocks -> Contents] /\ dur \in [Blocks -> Contents] /\ pieces \in [Ids -> SUBSET Requests]
  BY DEF DataInv, Types, IOInv
<1>2. /\ io[i].st = "data" /\ io[i].op = "read" /\ pieces[i] = {}
      /\ UNCHANGED <<path, sync, limit, pieces, vol, dur>>
  BY <1>1 DEF ReadSegment, conf, store, BioOK
<1>3. Active(i) /\ i \in Ids \ Ended /\ path # "daemon" /\ io[i].fl = {}
  BY <1>1, <1>2 DEF Active, Ended, BioOK
<1>4. /\ io[i].off \in Nat /\ io[i].len \in Nat /\ io[i].k \in Nat
      /\ io[i].k < io[i].len /\ io[i].off + io[i].len <= NBlocks
  BY <1>1, <1>2, BodyNumbers DEF BioOK
<1> DEFINE at == io[i].off + io[i].k
<1>5. at \in Blocks /\ io[i].k + 1 \in Nat
  BY ONLY <1>4, NumbersOK DEF Blocks
<1>6. ASSUME NEW r \in Bodies, Goes(i, r), SameBio(io[i], r), r.st \in {"data", "ok"},
             BioOK(i)', ReadSoFar(i)'
      PROVE  DataInv'
  <2>1. Moves(i) /\ PreflushDone(i)'
    BY <1>2, <1>3, <1>6, NothingMoves, PreflushStays
  <2>2. r.op = "read" /\ Promise(i, r) = {} /\ io'[i] = r
    BY <1>1, <1>2, <1>6, NoPromise DEF SameBio, Goes
  <2>3. WriteSoFar(i)'
    BY <2>2 DEF WriteSoFar
  <2> QED BY <1>1, <1>2, <1>3, <1>6, <2>1, <2>2, <2>3, StepKeeps
<1>7. CASE Goes(i, [io[i] EXCEPT !.k = @ + 1, !.got[at] = vol[ReadPos(io[i])], !.st = IF io[i].k + 1 = io[i].len THEN "ok" ELSE @])
  <2> DEFINE r == [io[i] EXCEPT !.k = @ + 1, !.got[at] = vol[at], !.st = IF io[i].k + 1 = io[i].len THEN "ok" ELSE @]
             s == IF io[i].k + 1 = io[i].len THEN "ok" ELSE "data"
  <2>1. s \in {"data", "ok"} /\ io[i].got \in [Blocks -> Contents]
    BY <1>1 DEF Bodies
  <2>2. /\ SameBio(io[i], r) /\ r.st = s /\ r.k = io[i].k + 1 /\ r.cut = io[i].cut /\ r.bad = io[i].bad
        /\ r.got = [io[i].got EXCEPT ![at] = vol[at]] /\ r.zs = io[i].zs
    BY <1>1, <1>2 DEF Bodies, SameBio
  <2>3. r.got \in [Blocks -> Contents] /\ r.got[at] = vol[at] /\ \A b \in Blocks : b # at => r.got[b] = io[i].got[b]
    BY <1>1, <1>5, <2>1, <2>2
  <2>4. r \in Bodies
    BY <1>1, <1>5, <2>1, <2>2, <2>3 DEF Bodies
  <2>5. Goes(i, r)
    BY <1>7 DEF ReadPos
  <2> HIDE DEF r
  <2>6. io' = [io EXCEPT ![i] = r] /\ io'[i] = r /\ pieces'[i] = {} /\ UNCHANGED <<before, base>>
    BY <1>1, <1>2, <2>5 DEF Goes
  <2>7. \A w \in base[i] : w \in Ids /\ io'[w] = io[w] /\ \A b \in Span(io[w]) : Fresh(w, vol[b])
    BY <1>3, <2>6, BaseSettled DEF Settled
  <2>8. \A b \in Span(io[i]) : b < io[i].off + (io[i].k + 1) => GotLatest(i, b)'
    <3>0. SUFFICES ASSUME NEW b \in Span(io[i]), b < io[i].off + (io[i].k + 1) PROVE GotLatest(i, b)'
      OBVIOUS
    <3>1. SUFFICES ASSUME NEW w \in base[i], b \in Span(io[w]) PROVE r.got[b][1] \notin before[w] \union {0}
      BY <2>6, <2>7 DEF GotLatest, Span, Fresh
    <3>2. CASE b = at
      <4>1. Fresh(w, vol[b])
        BY <2>7, <3>1
      <4> QED BY <2>3, <2>6, <3>2, <4>1 DEF Fresh
    <3>3. CASE b # at
      <4>1. b \in Int
        BY <1>4 DEF Span
      <4>2. b < io[i].off + io[i].k
        BY ONLY <1>4, <3>0, <3>3, <4>1
      <4>3. GotLatest(i, b) /\ b \in Blocks
        BY <1>1, <1>2, <4>2, SpanOnDevice DEF ReadSoFar
      <4>4. Fresh(w, io[i].got[b])
        BY <3>1, <4>3 DEF GotLatest
      <4> QED BY <2>3, <2>6, <3>3, <4>3, <4>4 DEF Fresh
    <3> QED BY <3>2, <3>3
  <2>9. s = "ok" => \A b \in Span(io[i]) : GotLatest(i, b)'
    <3> SUFFICES ASSUME s = "ok", NEW b \in Span(io[i]) PROVE GotLatest(i, b)'
      OBVIOUS
    <3>1. io[i].k + 1 = io[i].len
      OBVIOUS
    <3>2. b \in io[i].off .. io[i].off + io[i].len - 1
      BY DEF Span
    <3>3. b < io[i].off + (io[i].k + 1)
      BY ONLY <1>4, <3>1, <3>2
    <3> QED BY <2>8, <3>3
  <2>10. Span(r) = Span(io[i]) /\ r.off = io[i].off /\ r.len = io[i].len /\ r.op = "read" /\ r.fl = io[i].fl /\ ~r.cut
    BY <1>1, <1>2, <1>3, <2>2 DEF SameBio, Span, BioOK
  <2>11. ReadSoFar(i)'
    BY <2>1, <2>2, <2>6, <2>8, <2>9, <2>10 DEF ReadSoFar
  <2>12. BioOK(i)'
    <3>1. s = "data" => io[i].k + 1 < io[i].len
      <4>1. s = "data" => io[i].k + 1 # io[i].len
        OBVIOUS
      <4> QED BY ONLY <1>4, <4>1
    <3> QED BY <1>2, <1>3, <1>4, <2>1, <2>2, <2>6, <2>10, <3>1 DEF BioOK
  <2> QED BY <1>6, <2>1, <2>2, <2>4, <2>5, <2>11, <2>12
<1>8. CASE Goes(i, ZeroFill(io[i]))
  <2>1. NoData \in [Blocks -> Contents]
    BY NumbersOK DEF NoData, Zero, Contents
  <2> DEFINE r == ZeroFill(io[i])
  <2>2. r \in Bodies /\ SameBio(io[i], r) /\ r.st = "ok" /\ r.cut /\ r.got = NoData
    BY <1>1, <2>1 DEF Bodies, SameBio, ZeroFill
  <2> HIDE DEF r
  <2>3. Goes(i, r) /\ io'[i] = r /\ pieces'[i] = {}
    BY <1>1, <1>2, <1>8 DEF Goes, r
  <2>4. ReadSoFar(i)'
    BY <2>2, <2>3 DEF ReadSoFar
  <2>5. BioOK(i)'
    BY <1>2, <1>3, <1>4, <2>2, <2>3 DEF BioOK, SameBio, Active
  <2> QED BY <1>6, <2>2, <2>3, <2>4, <2>5
<1>9. CASE Fails(i)
  BY <1>1, <1>2, <1>3, <1>9, FailKeeps
<1> QED BY <1>7, <1>8, <1>9 DEF ReadSegment

LEMMA DiscardKeeps ==
  ASSUME DataInv, NEW i \in Ids, Discard(i)
  PROVE  DataInv'
<1>1. /\ io[i] \in Bodies /\ io \in [Ids -> Bodies] /\ IOInv(i) /\ BioOK(i)
      /\ vol \in [Blocks -> Contents] /\ dur \in [Blocks -> Contents] /\ pieces \in [Ids -> SUBSET Requests]
  BY DEF DataInv, Types, IOInv
<1>2. /\ io[i].st = "data" /\ io[i].op = "discard" /\ pieces[i] = {}
      /\ UNCHANGED <<path, sync, limit, pieces, dur>>
  BY <1>1 DEF Discard, conf, BioOK
<1>3. Active(i) /\ i \in Ids \ Ended /\ path # "daemon" /\ io[i].fl = {}
  BY <1>1, <1>2 DEF Active, Ended, BioOK
<1>4. CASE /\ Goes(i, [io[i] EXCEPT !.st = "ok"])
           /\ \/ vol' = [b \in Blocks |-> IF b \in Span(io[i]) THEN <<i, "zero">> ELSE vol[b]]
              \/ UNCHANGED vol
  <2> DEFINE r == [io[i] EXCEPT !.st = "ok"]
  <2>1. r \in Bodies /\ SameBio(io[i], r) /\ r.st = "ok"
    BY <1>1 DEF Bodies, SameBio
  <2> HIDE DEF r
  <2>2. Goes(i, r) /\ io'[i] = r /\ pieces'[i] = {}
    BY <1>1, <1>2, <1>4 DEF Goes, r
  <2>3. <<i, "zero">> \in Contents
    BY NumbersOK DEF Contents, Ids
  <2>4. vol' \in [Blocks -> Contents] /\ \A b \in Blocks : vol'[b] = vol[b] \/ vol'[b] = <<i, "zero">>
    BY <1>1, <1>4, <2>3
  <2>5. Moves(i)
    BY <1>2, <2>4 DEF Moves
  <2>6. PreflushDone(i)'
    BY <1>2, <1>3, <2>1, <2>2, <2>5, PreflushStays
  <2>7. r.op = "discard" /\ Promise(i, r) = {}
    BY <1>2, <2>1, NoPromise DEF SameBio
  <2>8. WriteSoFar(i)' /\ ReadSoFar(i)'
    BY <2>2, <2>7 DEF WriteSoFar, ReadSoFar
  <2>9. BioOK(i)'
    BY <1>1, <1>2, <1>3, <2>1, <2>2 DEF BioOK, SameBio, Active
  <2> QED BY <1>1, <1>2, <1>3, <2>1, <2>2, <2>4, <2>5, <2>6, <2>7, <2>8, <2>9, StepKeeps
<1>5. CASE UNCHANGED vol /\ Fails(i)
  BY <1>1, <1>2, <1>3, <1>5, FailKeeps
<1> QED BY <1>4, <1>5 DEF Discard

\* pxd_handle_device_limits leaves nothing of a bio out: the pieces cover it.
LEMMA TilesCover ==
  ASSUME NEW r \in Bodies, limit \in Nat
  PROVE  /\ \A t \in Tiles(r) : t.off \in Nat /\ t.len \in Nat
         /\ \A b \in Span(r) : \E t \in Tiles(r) : b \in Span(t)
<1> DEFINE off == r.off
           len == r.len
           n == IF limit = 0 \/ len <= limit THEN 0 ELSE (len - 1) \div limit
           Cut(k) == [off |-> off + k * limit, len |-> limit, last |-> FALSE]
           Rest == [off |-> off + n * limit, len |-> len - n * limit, last |-> TRUE]
<1>1. off \in Nat /\ len \in Nat
  BY BodyNumbers
<1>2. Tiles(r) = {Cut(k) : k \in 0 .. n - 1} \union {Rest}
  BY DEF Tiles
<1>3. n \in Nat /\ n * limit \in Nat /\ len - n * limit \in Nat
  <2>1. CASE limit = 0 \/ len <= limit
    BY ONLY <1>1, <2>1, limit \in Nat
  <2>2. CASE ~(limit = 0 \/ len <= limit)
    <3>1. n = (len - 1) \div limit
      BY <2>2
    <3> HIDE DEF n, off, len
    <3> QED BY ONLY <1>1, <2>2, <3>1, limit \in Nat
  <2> QED BY <2>1, <2>2
<1>4. ASSUME NEW t \in Tiles(r) PROVE t.off \in Nat /\ t.len \in Nat
  <2>1. CASE t = Rest
    <3>1. t.off = off + n * limit /\ t.len = len - n * limit
      BY <2>1
    <3> HIDE DEF n, off, len
    <3> QED BY ONLY <1>1, <1>3, <3>1
  <2>2. CASE t # Rest
    <3>1. PICK k \in 0 .. n - 1 : t = Cut(k)
      BY <1>2, <1>4, <2>2
    <3>2. t.off = off + k * limit /\ t.len = limit
      BY <3>1
    <3> HIDE DEF n, off, len
    <3> QED BY ONLY <1>1, <1>3, <3>2, k \in 0 .. n - 1, limit \in Nat
  <2> QED BY <2>1, <2>2
<1>5. ASSUME NEW b \in Span(r) PROVE \E t \in Tiles(r) : b \in Span(t)
  <2>1. b \in off .. off + len - 1
    BY DEF Span
  <2>2. CASE limit = 0 \/ len <= limit
    <3>1. n = 0
      BY <2>2
    <3>2. Rest.off = off /\ Rest.len = len
      <4>1. Rest.off = off + n * limit /\ Rest.len = len - n * limit
        OBVIOUS
      <4>2. off + n * limit = off /\ len - n * limit = len
        <5> HIDE DEF n, off, len
        <5> QED BY ONLY <1>1, <3>1, limit \in Nat
      <4> QED BY <4>1, <4>2
    <3>3. b \in Span(Rest)
      BY <2>1, <3>2 DEF Span
    <3> QED BY <1>2, <3>3
  <2>3. CASE ~(limit = 0 \/ len <= limit)
    <3> DEFINE k == (b - off) \div limit
    <3>1. n = (len - 1) \div limit
      BY <2>3
    <3>2. /\ k \in Nat /\ (k < n => b \in off + k * limit .. off + k * limit + limit - 1)
          /\ k >= n => b \in off + n * limit .. off + n * limit + (len - n * limit) - 1
      <4> HIDE DEF n, off, len
      <4> QED BY ONLY <1>1, <2>1, <2>3, <3>1, limit \in Nat
    <3>3. CASE k < n
      <4>1. k \in 0 .. n - 1
        <5> HIDE DEF n, k
        <5> QED BY ONLY <1>3, <3>2, <3>3
      <4>2. Cut(k) \in Tiles(r)
        BY <1>2, <4>1
      <4>3. Cut(k).off = off + k * limit /\ Cut(k).len = limit
        OBVIOUS
      <4>4. b \in Span(Cut(k))
        BY <3>2, <3>3, <4>3 DEF Span
      <4> QED BY <4>2, <4>4
    <3>4. CASE ~(k < n)
      <4>1. k >= n
        <5> HIDE DEF n, k
        <5> QED BY ONLY <1>3, <3>2, <3>4
      <4>2. Rest.off = off + n * limit /\ Rest.len = len - n * limit
        OBVIOUS
      <4>3. b \in Span(Rest)
        BY <3>2, <4>1, <4>2 DEF Span
      <4> QED BY <1>2, <4>3
    <3> QED BY <3>3, <3>4
  <2> QED BY <2>2, <2>3
<1> QED BY <1>4, <1>5

\* the request that is made of a piece of a bio
LEMMA RequestOK ==
  ASSUME NEW r \in Bodies, r.op # "none", NEW t, t.off \in Nat, t.len \in Nat
  PROVE  /\ Request(t, r) \in Requests /\ Span(Request(t, r)) = Span(t)
         /\ r.fl # {} \/ r.op = "flush" => Request(t, r).flush
         /\ Request(t, r).op = "read" <=> r.op = "read"
<1> DEFINE q == Request(t, r)
           op == IF Convert(t, r) THEN "discard" ELSE IF r.op = "flush" THEN "write" ELSE r.op
<1>1. r.op \in {"read", "write", "discard", "flush"}
  BY DEF Bodies
<1>2. op \in {"read", "write", "discard"} /\ (op = "read" <=> r.op = "read")
  BY <1>1 DEF Convert
<1>3. q = [off |-> t.off, len |-> t.len, flush |-> ReqMisc(r.op, r.fl), op |-> op]
  BY DEF Request
<1>4. ReqMisc(r.op, r.fl) \in BOOLEAN /\ (r.fl # {} \/ r.op = "flush" => ReqMisc(r.op, r.fl))
  BY DEF ReqMisc
<1> HIDE DEF op
<1>5. q.off = t.off /\ q.len = t.len /\ q.op = op /\ q.flush = ReqMisc(r.op, r.fl)
  BY <1>3
<1>6. q \in Requests
  BY <1>2, <1>3, <1>4 DEF Requests
<1>7. Span(q) = Span(t)
  BY <1>5 DEF Span
<1> QED BY <1>2, <1>4, <1>5, <1>6, <1>7

LEMMA SendKeeps ==
  ASSUME DataInv, NEW i \in Ids, Send(i)
  PROVE  DataInv'
<1>1. /\ io[i] \in Bodies /\ io \in [Ids -> Bodies] /\ IOInv(i) /\ BioOK(i) /\ limit \in Nat
      /\ vol \in [Blocks -> Contents] /\ dur \in [Blocks -> Contents] /\ pieces \in [Ids -> SUBSET Requests]
  BY DEF DataInv, Types, IOInv
<1>2. io[i].st = "send" /\ pieces[i] = {} /\ UNCHANGED <<path, sync, limit, vol, dur>>
  BY <1>1 DEF Send, conf, store, BioOK
<1>3. Active(i) /\ i \in Ids \ Ended /\ path = "daemon" /\ io[i].op # "none" /\ ~io[i].cut
  BY <1>1, <1>2 DEF Active, Ended, BioOK
<1>4. Moves(i) /\ (Wrote(i)' => Wrote(i))
  BY <1>2, NothingMoves
<1>5. ASSUME NEW ts \in SUBSET Tiles(io[i]), NEW r \in Bodies, SameBio(io[i], r), Goes(i, r),
             pieces' = [pieces EXCEPT ![i] = {Request(t, io[i]) : t \in ts}],
             r.st = "sent" \/ (r.st = "err" /\ ts = {}), ~r.cut, ts = Tiles(io[i]) \/ r.bad
      PROVE  DataInv'
  <2>1. io'[i] = r /\ pieces'[i] = {Request(t, io[i]) : t \in ts} /\ \A j \in Ids \ {i} : pieces'[j] = pieces[j]
    BY <1>1, <1>5 DEF Goes
  <2>2. \A t \in ts : /\ Request(t, io[i]) \in Requests /\ Span(Request(t, io[i])) = Span(t)
                      /\ io[i].fl # {} \/ io[i].op = "flush" => Request(t, io[i]).flush
                      /\ Request(t, io[i]).op = "read" <=> io[i].op = "read"
    BY <1>1, <1>3, <1>5, TilesCover, RequestOK
  <2>3. pieces' \in [Ids -> SUBSET Requests]
    BY <1>1, <1>5, <2>2
  <2>4. PreflushDone(i)'
    BY <1>2, <1>3, <1>4, <1>5, PreflushStays
  <2>5. ~r.bad => \A b \in Span(io[i]) : Pending(i, b)'
    <3> SUFFICES ASSUME ~r.bad, NEW b \in Span(io[i]) PROVE Pending(i, b)'
      OBVIOUS
    <3>1. PICK t \in ts : b \in Span(t)
      BY <1>1, <1>5, TilesCover
    <3>2. Request(t, io[i]) \in pieces'[i] /\ b \in Span(Request(t, io[i]))
      BY <2>1, <2>2, <3>1
    <3> QED BY <3>2 DEF Pending, Span
  <2>6. Span(r) = Span(io[i])
    BY <1>5 DEF SameBio, Span
  <2>7. WriteSoFar(i)' /\ ReadSoFar(i)'
    BY <1>5, <2>1, <2>5, <2>6 DEF WriteSoFar, ReadSoFar
  <2>8. BioOK(i)'
    <3>1. pieces'[i] # {} => r.st = "sent"
      BY <1>5, <2>1
    <3>2. \A p \in pieces'[i] : /\ r.fl # {} \/ r.op = "flush" => p.flush
                                /\ p.op = "read" <=> r.op = "read"
      BY <1>5, <2>1, <2>2 DEF SameBio
    <3> QED BY <1>1, <1>2, <1>3, <1>5, <2>1, <3>1, <3>2 DEF BioOK, SameBio
  <2> QED BY <1>1, <1>2, <1>3, <1>4, <1>5, <2>1, <2>3, <2>4, <2>7, <2>8, StepKeeps
<1>6. CASE /\ pieces' = [pieces EXCEPT ![i] = {Request(t, io[i]) : t \in Tiles(io[i])}]
           /\ Goes(i, [io[i] EXCEPT !.st = "sent"])
  <2> DEFINE r == [io[i] EXCEPT !.st = "sent"]
  <2>1. r \in Bodies /\ SameBio(io[i], r) /\ r.st = "sent" /\ r.cut = io[i].cut
    BY <1>1 DEF Bodies, SameBio
  <2>2. Goes(i, r)
    BY <1>6
  <2> HIDE DEF r
  <2> QED BY <1>3, <1>5, <1>6, <2>1, <2>2
<1>7. CASE \E t \in Tiles(io[i]) :
             LET sent == {u \in Tiles(io[i]) : u.off < t.off}
             IN /\ pieces' = [pieces EXCEPT ![i] = {Request(u, io[i]) : u \in sent}]
                /\ Goes(i, [io[i] EXCEPT !.st = IF sent = {} THEN "err" ELSE "sent", !.bad = TRUE])
  <2>1. PICK ts \in SUBSET Tiles(io[i]) :
          /\ pieces' = [pieces EXCEPT ![i] = {Request(u, io[i]) : u \in ts}]
          /\ Goes(i, [io[i] EXCEPT !.st = IF ts = {} THEN "err" ELSE "sent", !.bad = TRUE])
    <3>1. PICK t \in Tiles(io[i]) :
             LET sent == {u \in Tiles(io[i]) : u.off < t.off}
             IN /\ pieces' = [pieces EXCEPT ![i] = {Request(u, io[i]) : u \in sent}]
                /\ Goes(i, [io[i] EXCEPT !.st = IF sent = {} THEN "err" ELSE "sent", !.bad = TRUE])
      BY <1>7
    <3> WITNESS {u \in Tiles(io[i]) : u.off < t.off} \in SUBSET Tiles(io[i])
    <3> QED BY <3>1
  <2> DEFINE s == IF ts = {} THEN "err" ELSE "sent"
             r == [io[i] EXCEPT !.st = IF ts = {} THEN "err" ELSE "sent", !.bad = TRUE]
  <2>2. s \in {"err", "sent"} /\ (s = "err" => ts = {})
    OBVIOUS
  <2>3. r \in Bodies /\ SameBio(io[i], r) /\ r.st = s /\ r.cut = io[i].cut /\ r.bad
    BY <1>1 DEF Bodies, SameBio
  <2>4. Goes(i, r)
    BY <2>1
  <2> HIDE DEF r, s
  <2> QED BY <1>3, <1>5, <2>1, <2>2, <2>3, <2>4
<1> QED BY <1>6, <1>7 DEF Send

\* What the daemon reads of a request: only a write of zeroes is changed, to a discard.
LEMMA AsReadOK ==
  ASSUME NEW q \in Requests, NEW r
  PROVE  LET p == AsRead(q, r)
         IN /\ p \in Requests /\ p.off = q.off /\ p.len = q.len /\ p.flush = q.flush /\ Span(p) = Span(q)
            /\ p.op = "read" <=> q.op = "read"
            /\ p.op = q.op \/ (p.op = "discard" /\ q.op = "write" /\ Span(q) \subseteq r.zs)
<1> DEFINE p == AsRead(q, r)
<1>1. CASE p = q
  BY <1>1
<1>2. CASE p = [q EXCEPT !.op = "discard"] /\ q.op = "write" /\ Span(q) \subseteq r.zs
  <2>1. p \in Requests /\ p.off = q.off /\ p.len = q.len /\ p.flush = q.flush /\ p.op = "discard"
    BY <1>2 DEF Requests
  <2> HIDE DEF p
  <2>2. Span(p) = Span(q)
    BY <2>1 DEF Span
  <2> QED BY <1>2, <2>1, <2>2 DEF p
<1> QED BY <1>1, <1>2 DEF AsRead

LEMMA ServeKeeps ==
  ASSUME DataInv, NEW i \in Ids, NEW q \in pieces[i], Serve(i, q)
  PROVE  DataInv'
<1>1. /\ io[i] \in Bodies /\ io \in [Ids -> Bodies] /\ IOInv(i) /\ BioOK(i) /\ WriteSoFar(i) /\ ReadSoFar(i)
      /\ vol \in [Blocks -> Contents] /\ dur \in [Blocks -> Contents] /\ pieces \in [Ids -> SUBSET Requests]
      /\ path = "daemon" => ~sync
  BY DEF DataInv, Types, IOInv
<1>2. io[i].st = "sent" /\ UNCHANGED <<path, sync, limit>>
  BY <1>1 DEF Serve, conf, BioOK
<1>0. q \in Requests
  BY <1>1
<1> DEFINE p == AsRead(q, io[i])
<1>p. p.flush = q.flush /\ (p.op = "read" <=> q.op = "read") /\ Span(p) = Span(q)
  BY ONLY <1>0, AsReadOK
<1> HIDE DEF p
<1>3. /\ Active(i) /\ i \in Ids \ Ended /\ path = "daemon" /\ ~sync /\ io[i].op # "none" /\ ~io[i].cut
      /\ io[i].fl # {} \/ io[i].op = "flush" => p.flush
      /\ p.op = "read" <=> io[i].op = "read"
      /\ Span(io[i]) \subseteq Blocks
  BY <1>1, <1>2, <1>p, SpanOnDevice DEF Active, Ended, BioOK
<1>4. /\ pieces' = [pieces EXCEPT ![i] = pieces[i] \ {q}] /\ pieces'[i] = pieces[i] \ {q}
      /\ \A j \in Ids \ {i} : pieces'[j] = pieces[j]
      /\ pieces' \in [Ids -> SUBSET Requests]
  BY <1>1 DEF Serve
<1>5. \A b : Pending(i, b) => Pending(i, b)' \/ b \in Span(p)
  BY <1>4, <1>p DEF Pending
<1> DEFINE s(bad) == IF pieces[i] \ {q} # {} THEN "sent" ELSE IF bad THEN "err" ELSE "ok"
\* what the three outcomes have in common
<1>6. ASSUME NEW r \in Bodies, SameBio(io[i], r), Goes(i, r), ~r.cut, io[i].bad => r.bad,
             pieces'[i] # {} => r.st = "sent", r.st \in {"sent", "ok", "err"}, r.st = "ok" => ~r.bad /\ pieces'[i] = {},
             vol' \in [Blocks -> Contents], dur' \in [Blocks -> Contents], Moves(i),
             Wrote(i)' /\ ~Wrote(i) => \A b \in Blocks : p.flush => dur'[b] = vol'[b],
             io[i].op # "read" /\ ~r.bad => /\ \A b \in Blocks : b \in Span(p) => vol'[b][1] = i
                                            /\ p.flush => \A b \in Blocks : dur'[b] = vol'[b],
             io[i].op = "read" /\ ~r.bad =>
               \A b \in Blocks : r.got[b] = IF b \in Span(p) THEN vol[b] ELSE io[i].got[b]
      PROVE  DataInv'
  <2>1. io' = [io EXCEPT ![i] = r] /\ io'[i] = r /\ UNCHANGED <<before, base>>
        /\ r.op = io[i].op /\ r.fl = io[i].fl /\ Span(r) = Span(io[i])
    BY <1>1, <1>6 DEF Goes, SameBio, Span
  <2>2. \A b \in Span(io[i]) : r.op = "write" /\ ~r.bad => Pending(i, b)' \/ Settled(i, b)'
    <3> SUFFICES ASSUME NEW b \in Span(io[i]), r.op = "write", ~r.bad, ~Pending(i, b)' PROVE Settled(i, b)'
      OBVIOUS
    <3>1. b \in Blocks /\ (Pending(i, b) \/ Settled(i, b))
      BY <1>1, <1>2, <1>3, <1>6, <2>1 DEF WriteSoFar
    <3>2. CASE Settled(i, b)
      BY <1>2, <1>3, <1>6, <2>1, <3>1, <3>2, Stable
    <3>3. CASE b \in Span(p)
      <4>1. vol'[b][1] = i
        BY <1>6, <2>1, <3>1, <3>3
      <4>2. i \notin before[i] \union {0}
        BY <1>1, <1>3, NumbersOK DEF IOInv
      <4> QED BY <1>2, <1>3, <2>1, <4>1, <4>2 DEF Settled, Fresh
    <3> QED BY <1>5, <3>1, <3>2, <3>3
  <2>3. \A b \in Span(io[i]) : r.op = "read" /\ ~r.bad => Pending(i, b)' \/ GotLatest(i, b)'
    <3> SUFFICES ASSUME NEW b \in Span(io[i]), r.op = "read", ~r.bad, ~Pending(i, b)' PROVE GotLatest(i, b)'
      OBVIOUS
    <3>1. b \in Blocks /\ (Pending(i, b) \/ GotLatest(i, b))
      BY <1>1, <1>2, <1>3, <1>6, <2>1 DEF ReadSoFar
    <3>2. \A w \in base[i] : w \in Ids /\ io'[w] = io[w] /\ \A c \in Span(io[w]) : Fresh(w, vol[c])
      BY <1>3, <2>1, BaseSettled DEF Settled
    <3>3. SUFFICES ASSUME NEW w \in base[i], b \in Span(io[w]) PROVE r.got[b][1] \notin before[w] \union {0}
      BY <2>1, <3>2 DEF GotLatest, Span, Fresh
    <3>4. CASE b \in Span(p)
      BY <1>6, <2>1, <3>1, <3>2, <3>3, <3>4 DEF Fresh
    <3>5. CASE b \notin Span(p)
      <4>1. GotLatest(i, b) /\ r.got[b] = io[i].got[b]
        BY <1>5, <1>6, <2>1, <3>1, <3>5
      <4> QED BY <3>3, <4>1 DEF GotLatest, Fresh
    <3> QED BY <3>4, <3>5
  <2>4. r.st = "ok" => \A b : ~Pending(i, b)'
    BY <1>6 DEF Pending
  <2>5. WriteSoFar(i)' /\ ReadSoFar(i)'
    BY <1>6, <2>1, <2>2, <2>3, <2>4 DEF WriteSoFar, ReadSoFar
  <2>6. BioOK(i)'
    <3>1. r.off + r.len = io[i].off + io[i].len
      BY <1>6 DEF SameBio
    <3>2. \A x \in pieces'[i] : /\ r.fl # {} \/ r.op = "flush" => x.flush
                                /\ x.op = "read" <=> r.op = "read"
      BY <1>1, <1>4, <2>1 DEF BioOK
    <3> QED BY <1>1, <1>2, <1>3, <1>6, <2>1, <3>1, <3>2 DEF BioOK
  <2>7. \A u \in base[i] : u \in Ids /\ u # i /\ io'[u] = io[u] /\ \A b \in Span(io[u]) : b \in Blocks /\ Settled(u, b)
    BY <1>3, <2>1, BaseSettled
  <2>8. (\A b \in Blocks : dur'[b] = vol'[b]) => \A u \in base[i] : \A b \in Span(io[u]) : Kept(u, b)'
    BY <1>2, <1>3, <1>6, <2>1, <2>7, FlushSettles
  <2>9. PreflushDone(i)'
    <3>1. CASE Wrote(i)' /\ ~Wrote(i) /\ "pre" \in io[i].fl
      <4>1. \A b \in Blocks : dur'[b] = vol'[b]
        BY <1>3, <1>6, <3>1
      <4> QED BY <2>1, <2>7, <2>8, <4>1 DEF PreflushDone, Span
    <3>2. CASE Wrote(i)' => Wrote(i)
      BY <1>2, <1>3, <1>6, <3>2, PreflushStays
    <3>3. CASE "pre" \notin io[i].fl
      BY <2>1, <3>3 DEF PreflushDone
    <3> QED BY <3>1, <3>2, <3>3
  <2>10. r.st = "ok" /\ r.op = "write" => \A b \in Span(r) : Settled(i, b)'
    BY <1>6, <2>1, <2>2, <2>4
  <2>11. r.st = "ok" => \A u \in Promise(i, r) : \A b \in Span(io[u]) : Kept(u, b)'
    <3> SUFFICES ASSUME r.st = "ok", NEW u \in Promise(i, r), NEW b \in Span(io[u]) PROVE Kept(u, b)'
      OBVIOUS
    <3>1. (io[i].fl # {} \/ io[i].op = "flush") /\ (u \in base[i] \/ (u = i /\ r.op = "write"))
      BY <1>3, <2>1 DEF Promise
    <3>2. io[i].op # "read"
      BY <1>1, <3>1 DEF BioOK
    <3>3. \A c \in Blocks : dur'[c] = vol'[c]
      BY <1>3, <1>6, <3>1, <3>2
    <3>4. CASE u \in base[i]
      BY <2>8, <3>3, <3>4
    <3>5. CASE u = i /\ r.op = "write"
      <4>1. Settled(i, b)' /\ b \in Blocks
        BY <1>3, <2>1, <2>10, <3>5
      <4> QED BY <1>2, <1>3, <1>6, <2>1, <3>3, <3>5, <4>1, FlushSettles
    <3> QED BY <3>1, <3>4, <3>5
  <2> QED BY <1>1, <1>2, <1>3, <1>4, <1>6, <2>5, <2>6, <2>9, <2>10, <2>11, StepKeeps
<1>7. ASSUME NEW bad \in BOOLEAN, NEW got \in [Blocks -> Contents],
             Goes(i, [io[i] EXCEPT !.bad = bad, !.got = got,
                                   !.st = IF pieces[i] \ {q} # {} THEN @ ELSE IF bad THEN "err" ELSE "ok"])
      PROVE  \E r \in Bodies : /\ SameBio(io[i], r) /\ Goes(i, r) /\ ~r.cut /\ (r.bad <=> bad) /\ r.got = got
                               /\ pieces'[i] # {} => r.st = "sent"
                               /\ r.st \in {"sent", "ok", "err"}
                               /\ r.st = "ok" => ~bad /\ pieces'[i] = {}
  <2> DEFINE r == [io[i] EXCEPT !.bad = bad, !.got = got,
                                !.st = IF pieces[i] \ {q} # {} THEN @ ELSE IF bad THEN "err" ELSE "ok"]
  <2>1. s(bad) \in {"sent", "ok", "err"} /\ (s(bad) = "ok" => ~bad /\ pieces'[i] = {}) /\ (pieces'[i] # {} => s(bad) = "sent")
    BY <1>4
  <2>2. r = [io[i] EXCEPT !.bad = bad, !.got = got, !.st = s(bad)]
    BY <1>2
  <2> HIDE DEF s
  <2>3. r \in Bodies /\ SameBio(io[i], r) /\ r.st = s(bad) /\ r.cut = io[i].cut /\ r.bad = bad /\ r.got = got
    BY <1>1, <1>7, <2>1, <2>2 DEF Bodies, SameBio
  <2>4. Goes(i, r)
    BY <1>7
  <2> HIDE DEF r
  <2> QED BY <1>3, <2>1, <2>3, <2>4
<1> DEFINE EndsWith(bad, got) ==
             Goes(i, [io[i] EXCEPT !.bad = bad, !.got = got,
                                   !.st = IF pieces[i] \ {q} # {} THEN @ ELSE IF bad THEN "err" ELSE "ok"])
<1>8. io[i].bad \in BOOLEAN /\ io[i].got \in [Blocks -> Contents]
  BY <1>1 DEF Bodies
<1>9. CASE /\ p.op = "read" /\ UNCHANGED <<vol, dur>>
           /\ EndsWith(io[i].bad, [b \in Blocks |-> IF b \in Span(p) THEN vol[b] ELSE io[i].got[b]])
  <2> DEFINE got == [b \in Blocks |-> IF b \in Span(p) THEN vol[b] ELSE io[i].got[b]]
  <2>1. got \in [Blocks -> Contents] /\ \A b \in Blocks : got[b] = IF b \in Span(p) THEN vol[b] ELSE io[i].got[b]
    BY <1>1, <1>8
  <2>2. EndsWith(io[i].bad, got)
    BY <1>9
  <2> HIDE DEF got
  <2>3. PICK r \in Bodies : /\ SameBio(io[i], r) /\ Goes(i, r) /\ ~r.cut /\ (r.bad <=> io[i].bad) /\ r.got = got
                            /\ pieces'[i] # {} => r.st = "sent"
                            /\ r.st \in {"sent", "ok", "err"}
                            /\ r.st = "ok" => ~io[i].bad /\ pieces'[i] = {}
    BY <1>7, <1>8, <2>1, <2>2
  <2>4. Moves(i) /\ (Wrote(i)' => Wrote(i)) /\ io[i].op = "read"
    BY <1>3, <1>9, NothingMoves
  <2>5. vol' \in [Blocks -> Contents] /\ dur' \in [Blocks -> Contents]
    BY <1>1, <1>9
  <2> QED BY <1>6, <2>1, <2>3, <2>4, <2>5
<1>10. CASE /\ p.op # "read" /\ dur' = DaemonKeeps(p, vol') /\ EndsWith(io[i].bad, io[i].got)
            /\ \E d \in IF p.op = "write" /\ p.len > 0 THEN Fetched[p.len] ELSE {NoFetch} :
                 vol' = [b \in Blocks |-> IF b \in Span(p) THEN Written(i, p, d, b) ELSE vol[b]]
  <2>1. PICK d : vol' = [b \in Blocks |-> IF b \in Span(p) THEN Written(i, p, d, b) ELSE vol[b]]
    BY <1>10
  <2>2. \A b \in Blocks : Written(i, p, d, b) \in {<<i, "zero">>, <<i, "data">>, <<i, "torn">>, <<i, "shifted">>}
    BY DEF Written
  <2>3. \A c \in {<<i, "zero">>, <<i, "data">>, <<i, "torn">>, <<i, "shifted">>} : c \in Contents /\ c[1] = i
    BY NumbersOK DEF Contents, Ids
  <2>4. vol' \in [Blocks -> Contents] /\ \A b \in Blocks : IF b \in Span(p) THEN vol'[b][1] = i ELSE vol'[b] = vol[b]
    BY <1>1, <2>1, <2>2, <2>3
  <2>5. dur' \in [Blocks -> Contents] /\ Moves(i) /\ (p.flush => \A b \in Blocks : dur'[b] = vol'[b])
    <3>1. CASE p.flush
      <4>1. dur' = vol'
        BY <1>10, <3>1 DEF DaemonKeeps
      <4> QED BY <2>4, <4>1 DEF Moves
    <3>2. CASE ~p.flush
      <4>1. dur' = dur
        BY <1>10, <3>2 DEF DaemonKeeps
      <4> QED BY <1>1, <2>4, <3>2, <4>1 DEF Moves
    <3> QED BY <3>1, <3>2
  <2>6. PICK r \in Bodies : /\ SameBio(io[i], r) /\ Goes(i, r) /\ ~r.cut /\ (r.bad <=> io[i].bad) /\ r.got = io[i].got
                            /\ pieces'[i] # {} => r.st = "sent"
                            /\ r.st \in {"sent", "ok", "err"}
                            /\ r.st = "ok" => ~io[i].bad /\ pieces'[i] = {}
    BY <1>7, <1>8, <1>10
  <2>7. io[i].op # "read"
    BY <1>3, <1>10
  <2> QED BY <1>6, <2>4, <2>5, <2>6, <2>7
<1>11. CASE UNCHANGED <<vol, dur>> /\ EndsWith(TRUE, io[i].got)
  <2>1. PICK r \in Bodies : /\ SameBio(io[i], r) /\ Goes(i, r) /\ ~r.cut /\ (r.bad <=> TRUE) /\ r.got = io[i].got
                            /\ pieces'[i] # {} => r.st = "sent"
                            /\ r.st \in {"sent", "ok", "err"}
                            /\ r.st = "ok" => ~TRUE /\ pieces'[i] = {}
    BY <1>7, <1>8, <1>11
  <2>2. Moves(i) /\ (Wrote(i)' => Wrote(i))
    BY <1>11, NothingMoves
  <2>3. vol' \in [Blocks -> Contents] /\ dur' \in [Blocks -> Contents]
    BY <1>1, <1>11
  <2> QED BY <1>6, <2>1, <2>2, <2>3
<1> QED BY <1>9, <1>10, <1>11 DEF Serve, p

\* an IO that was never submitted
LEMMA IdleFields ==
  ASSUME DataInv, NEW i \in Ids, io[i] = Idle
  PROVE  /\ io[i].st = "none" /\ pieces[i] = {} /\ ~Wrote(i)
         /\ i \notin acked /\ i \notin safe /\ i \notin Succeeded /\ i \notin Ended
<1>1. io[i].st = "none"
  BY DEF Idle
<1>2. IOInv(i) /\ BioOK(i) /\ Promised
  BY DEF DataInv, IOInv
<1> QED BY <1>1, <1>2 DEF IOInv, BioOK, Promised, Succeeded, Ended

LEMMA SubmitKeeps ==
  ASSUME DataInv, NEW i \in Ids, NEW c \in Bios, Submit(i, c)
  PROVE  DataInv'
<1> DEFINE r == [Idle EXCEPT !.st = FirstStep(c), !.op = c.op, !.off = c.off, !.len = c.len, !.fl = c.fl, !.zs = c.zs]
<1>1. /\ io \in [Ids -> Bodies] /\ path \in {"file", "legacy", "daemon"} /\ Promised
      /\ before \in [Ids -> SUBSET Ids] /\ base \in [Ids -> SUBSET Ids] /\ acked \subseteq Ids
      /\ \A j \in Ids : IOInv(j)
  BY DEF DataInv, Types
<1>2. /\ io[i] = Idle /\ io' = [io EXCEPT ![i] = r] /\ c.off + c.len <= NBlocks
      /\ before' = [before EXCEPT ![i] = Ended] /\ base' = [base EXCEPT ![i] = acked]
      /\ UNCHANGED <<path, sync, limit, pieces, vol, dur, acked, safe>>
  BY DEF Submit, conf, store
<1>3. /\ io[i].st = "none" /\ pieces[i] = {} /\ ~Wrote(i)
      /\ i \notin acked /\ i \notin safe /\ i \notin Succeeded /\ i \notin Ended
  BY <1>2, IdleFields
<1>4. /\ c.op \in {"read", "write", "discard", "flush"} /\ c.off \in Nat /\ c.len \in Nat
      /\ c.fl \in SUBSET {"pre", "fua"} /\ c.zs \in SUBSET Blocks
      /\ c.fl # {} => c.op = "write"
      /\ c.op # "flush" => c.len # 0
  <2> DEFINE Z == IF path = "daemon" THEN SUBSET Blocks ELSE {{}}
  <2>1. Z \subseteq SUBSET Blocks
    OBVIOUS
  <2> HIDE DEF Z
  <2>2. CASE c \in [op : {"read", "discard"}, off : Blocks, len : 1 .. NBlocks, fl : {{}}, zs : {{}}]
    BY <2>2, NumbersOK DEF Blocks
  <2>3. CASE c \in [op : {"write"}, off : Blocks, len : 1 .. NBlocks, fl : {{}, {"pre"}, {"fua"}}, zs : Z]
    <3>1. c.op = "write" /\ c.off \in Blocks /\ c.len \in 1 .. NBlocks /\ c.fl \in {{}, {"pre"}, {"fua"}} /\ c.zs \in Z
      BY <2>3
    <3>2. c.off \in Nat /\ c.len \in Nat /\ c.len # 0
      BY <3>1, NumbersOK DEF Blocks
    <3> QED BY <2>1, <3>1, <3>2
  <2>4. CASE c = [op |-> "flush", off |-> 0, len |-> 0, fl |-> {}, zs |-> {}]
    BY <2>4
  <2> QED BY <2>2, <2>3, <2>4 DEF Bios, Z
<1>5. /\ FirstStep(c) \in {"send", "flush", "preflush", "data"}
      /\ FirstStep(c) = "send" <=> path = "daemon"
      /\ FirstStep(c) = "flush" => c.op = "flush"
      /\ FirstStep(c) = "preflush" => c.op = "write"
      /\ FirstStep(c) = "data" => c.op # "flush" /\ ("pre" \in c.fl => path = "legacy")
  <2>1. CASE path = "daemon"
    BY <2>1 DEF FirstStep
  <2>2. CASE path # "daemon" /\ c.op = "flush"
    BY <2>2 DEF FirstStep
  <2>3. CASE path # "daemon" /\ c.op # "flush" /\ c.op = "write" /\ "pre" \in c.fl /\ path # "legacy"
    BY <2>3 DEF FirstStep, FlushFollows
  <2>4. CASE path # "daemon" /\ c.op # "flush" /\ ~(c.op = "write" /\ "pre" \in c.fl /\ path # "legacy")
    <3>1. FirstStep(c) = "data"
      BY <2>4 DEF FirstStep, FlushFollows
    <3>2. "pre" \in c.fl => path = "legacy"
      BY <1>4, <2>4
    <3> QED BY <2>4, <3>1, <3>2
  <2> QED BY <2>1, <2>2, <2>3, <2>4
<1>6. NoData \in [Blocks -> Contents]
  BY NumbersOK DEF NoData, Zero, Contents
<1>7. /\ r \in Bodies /\ r.st = FirstStep(c) /\ r.op = c.op /\ r.off = c.off /\ r.len = c.len /\ r.fl = c.fl
      /\ r.k = 0 /\ ~r.bad /\ ~r.cut
  <2>1. Idle \in Bodies /\ Idle.k = 0 /\ ~Idle.bad /\ ~Idle.cut
    BY <1>6 DEF Idle, Bodies
  <2>2. FirstStep(c) \in {"none", "preflush", "data", "flush", "send", "sent", "ok", "err", "gone"}
    BY <1>5
  <2> QED BY <1>4, <2>1, <2>2 DEF Bodies
<1> HIDE DEF r
<1>8. /\ io' \in [Ids -> Bodies] /\ io'[i] = r /\ before'[i] = Ended /\ base'[i] = acked
      /\ \A j \in Ids \ {i} : io'[j] = io[j] /\ before'[j] = before[j] /\ base'[j] = base[j]
  BY <1>1, <1>2, <1>7
<1>9. Types'
  <2>1. before' \in [Ids -> SUBSET Ids] /\ base' \in [Ids -> SUBSET Ids]
    BY <1>1, <1>2 DEF Ended
  <2> QED BY <1>2, <1>8, <2>1 DEF DataInv, Types
<1>10. Ended \subseteq Ended' /\ Succeeded \subseteq Succeeded'
  BY <1>3, <1>8 DEF Ended, Succeeded
<1>11. \A w \in Ids \ {i} : /\ Span(io[w])' = Span(io[w])
                            /\ \A b : Settled(w, b)' = Settled(w, b) /\ Kept(w, b)' = Kept(w, b)
  BY <1>2, <1>8 DEF Span, Settled, Kept, Fresh
<1>12. Promised'
  <2>1. acked \subseteq Ids \ {i} /\ safe \subseteq Ids \ {i}
    BY <1>1, <1>3 DEF Promised
  <2>2. acked' \subseteq Succeeded' /\ safe' \subseteq acked'
    BY <1>1, <1>2, <1>10 DEF Promised
  <2>3. \A w \in acked' : \A b \in Span(io[w])' : Settled(w, b)'
    BY <1>1, <1>2, <1>11, <2>1 DEF Promised
  <2>4. \A w \in safe' : \A b \in Span(io[w])' : Kept(w, b)'
    BY <1>1, <1>2, <1>11, <2>1 DEF Promised
  <2> QED BY <2>2, <2>3, <2>4 DEF Promised
<1>13. ASSUME NEW j \in Ids \ {i} PROVE IOInv(j)'
  <2>1. /\ IOInv(j) /\ base[j] \subseteq Ids \ {i} /\ pieces'[j] = pieces[j]
        /\ io'[j] = io[j] /\ before'[j] = before[j] /\ base'[j] = base[j]
    BY <1>1, <1>2, <1>3, <1>8 DEF IOInv
  <2>2. before'[j] \subseteq Ended' /\ base'[j] \subseteq Succeeded' /\ (Active(j)' => base'[j] \subseteq acked')
    BY <1>2, <1>10, <2>1 DEF IOInv, Active
  <2>3. Wrote(j)' = Wrote(j) /\ \A b : Pending(j, b)' = Pending(j, b)
    BY <1>2, <2>1 DEF Wrote, Pending, Span
  <2>4. \A b : GotLatest(j, b)' = GotLatest(j, b)
    <3>1. \A w \in base[j] : before'[w] = before[w] /\ Span(io[w])' = Span(io[w])
      BY <1>8, <1>11, <2>1
    <3> QED BY <2>1, <3>1 DEF GotLatest, Fresh
  <2>5. BioOK(j)'
    BY <1>2, <2>1 DEF IOInv, BioOK, Active
  <2>6. Span(io[j])' = Span(io[j])
    BY <1>11
  <2>7. WriteSoFar(j)'
    BY <1>11, <2>1, <2>3, <2>6 DEF IOInv, WriteSoFar
  <2>8. ReadSoFar(j)'
    BY <2>1, <2>3, <2>4, <2>6 DEF IOInv, ReadSoFar
  <2>9. PreflushDone(j)'
    BY <1>2, <1>11, <2>1, <2>3 DEF IOInv, PreflushDone
  <2> QED BY <2>1, <2>2, <2>3, <2>5, <2>7, <2>8, <2>9 DEF IOInv
<1>14. IOInv(i)'
  <2>1. before'[i] \subseteq Ended' /\ base'[i] \subseteq Succeeded' /\ base'[i] \subseteq acked' /\ io'[i].st # "none"
    BY <1>1, <1>2, <1>5, <1>7, <1>8, <1>10 DEF Promised
  <2>2. ~Wrote(i)'
    BY <1>2, <1>3 DEF Wrote
  <2>3. PreflushDone(i)'
    BY <1>2, <1>4, <1>5, <1>7, <1>8, <2>2 DEF PreflushDone
  <2>4. \A b \in Span(r) : ~(b < r.off + r.k)
    <3> SUFFICES ASSUME NEW b \in Span(r) PROVE ~(b < r.off + r.k)
      OBVIOUS
    <3>1. b \in r.off .. r.off + r.len - 1 /\ r.off \in Nat /\ r.len \in Nat
      BY <1>4, <1>7 DEF Span
    <3> QED BY ONLY <1>7, <3>1
  <2>5. WriteSoFar(i)' /\ ReadSoFar(i)'
    BY <1>5, <1>7, <1>8, <2>4 DEF WriteSoFar, ReadSoFar
  <2>6. BioOK(i)'
    <3>1. r.op # "flush" => r.k < r.len
      <4>1. r.op # "flush" => r.len # 0
        BY <1>4, <1>7
      <4>2. r.len \in Nat
        BY <1>4, <1>7
      <4> QED BY ONLY <1>7, <4>1, <4>2
    <3> QED BY <1>2, <1>3, <1>4, <1>5, <1>7, <1>8, <3>1 DEF BioOK, Active
  <2> QED BY <2>1, <2>2, <2>3, <2>5, <2>6 DEF IOInv
<1> QED BY <1>9, <1>12, <1>13, <1>14 DEF DataInv

\* What the medium takes from the page cache, with no IO moving: a writeback.
LEMMA QuietKeeps ==
  ASSUME DataInv, UNCHANGED <<path, sync, limit, io, pieces, vol, before, base, acked, safe>>,
         dur' \in [Blocks -> Contents], \A b \in Blocks : dur'[b] \in {dur[b], vol[b]}
  PROVE  DataInv'
<1>1. Types'
  BY DEF DataInv, Types
<1>2. /\ Ended' = Ended /\ Succeeded' = Succeeded
      /\ \A w : Span(io[w])' = Span(io[w]) /\ Active(w)' = Active(w)
      /\ \A w \in Ids : io[w].st # "none" => Span(io[w]) \subseteq Blocks
  BY SpanOnDevice DEF Ended, Succeeded, Span, Active
<1>3. \A w \in Ids, b \in Blocks : (Settled(w, b) => Settled(w, b)') /\ (Kept(w, b) => Kept(w, b)')
  BY DEF Settled, Kept, Fresh
<1>4. \A w \in Succeeded : w \in Ids /\ io[w].st # "none"
  BY DEF Succeeded
<1>5. Promised'
  <2>1. Promised /\ acked \subseteq Succeeded /\ safe \subseteq Succeeded
    BY DEF DataInv, Promised
  <2>2. \A w \in acked' : \A b \in Span(io[w])' : Settled(w, b)'
    BY <1>2, <1>3, <1>4, <2>1 DEF Promised
  <2>3. \A w \in safe' : \A b \in Span(io[w])' : Kept(w, b)'
    BY <1>2, <1>3, <1>4, <2>1 DEF Promised
  <2> QED BY <1>2, <2>1, <2>2, <2>3 DEF Promised
<1>6. ASSUME NEW j \in Ids PROVE IOInv(j)'
  <2>1. IOInv(j) /\ base[j] \subseteq Succeeded
    BY DEF DataInv, IOInv
  <2>2. Wrote(j)' => Wrote(j)
    BY DEF Wrote
  <2>3. \A b : Pending(j, b)' = Pending(j, b) /\ GotLatest(j, b)' = GotLatest(j, b)
    BY <1>2 DEF Pending, GotLatest, Fresh, Span
  <2>4. WriteSoFar(j)'
    BY <1>2, <1>3, <2>1, <2>3 DEF IOInv, WriteSoFar
  <2>5. ReadSoFar(j)'
    BY <1>2, <2>1, <2>3 DEF IOInv, ReadSoFar
  <2>6. PreflushDone(j)'
    BY <1>2, <1>3, <1>4, <2>1, <2>2 DEF IOInv, PreflushDone
  <2>7. BioOK(j)'
    BY <1>2, <2>1 DEF IOInv, BioOK
  <2> QED BY <1>2, <2>1, <2>2, <2>4, <2>5, <2>6, <2>7 DEF IOInv
<1> QED BY <1>1, <1>5, <1>6 DEF DataInv

LEMMA WritebackKeeps ==
  ASSUME DataInv, NEW b \in Blocks, Writeback(b)
  PROVE  DataInv'
<1>1. UNCHANGED <<path, sync, limit, io, pieces, vol, before, base, acked, safe>> /\ dur' = [dur EXCEPT ![b] = vol[b]]
  BY DEF Writeback, conf, history
<1>2. vol \in [Blocks -> Contents] /\ dur \in [Blocks -> Contents]
  BY DEF DataInv, Types
<1> QED BY <1>1, <1>2, QuietKeeps

LEMMA CrashKeeps ==
  ASSUME DataInv, Crash
  PROVE  DataInv'
<1>1. /\ vol' = dur /\ acked' = safe /\ pieces' = [i \in Ids |-> {}]
      /\ io' = [i \in Ids |-> IF io[i] = Idle \/ i \in Ended THEN io[i] ELSE [io[i] EXCEPT !.st = "gone"]]
      /\ UNCHANGED <<path, sync, limit, dur, before, base, safe>>
  BY DEF Crash, conf
<1>2. /\ io \in [Ids -> Bodies] /\ dur \in [Blocks -> Contents] /\ Promised /\ safe \subseteq Ids
      /\ \A j \in Ids : IOInv(j) /\ BioOK(j) /\ base[j] \subseteq Ids
  BY DEF DataInv, Types, IOInv
<1>3. ASSUME NEW j \in Ids
      PROVE  /\ io'[j] \in Bodies /\ SameBio(io[j], io'[j]) /\ io'[j].st \in {"none", "ok", "err", "gone"}
             /\ io'[j].st \in {"none", "ok"} => io'[j] = io[j]
             /\ j \in Ended => io'[j] = io[j]
  <2>1. CASE io[j] = Idle \/ j \in Ended
    <3>1. io'[j] = io[j]
      BY <1>1, <2>1
    <3>2. io[j].st \in {"none", "ok", "err", "gone"}
      BY <2>1 DEF Idle, Ended
    <3> QED BY <1>2, <3>1, <3>2 DEF SameBio
  <2>2. CASE ~(io[j] = Idle \/ j \in Ended)
    <3>1. io'[j] = [io[j] EXCEPT !.st = "gone"] /\ io[j] \in Bodies
      BY <1>1, <1>2, <2>2
    <3> QED BY <2>2, <3>1 DEF Bodies, SameBio
  <2> QED BY <2>1, <2>2
<1>4. io' \in [Ids -> Bodies]
  <2>1. DOMAIN io' = Ids /\ io' = [j \in Ids |-> io'[j]]
    BY <1>1
  <2> QED BY <1>3, <2>1
<1>5. Types'
  BY <1>1, <1>2, <1>4 DEF DataInv, Types
<1>6. Ended \subseteq Ended' /\ Succeeded \subseteq Succeeded' /\ \A j \in Ids : Span(io[j])' = Span(io[j]) /\ ~Active(j)'
  <2>1. \A j \in Ids : io'[j].off = io[j].off /\ io'[j].len = io[j].len
    BY <1>3 DEF SameBio
  <2>2. \A j \in Ids : Span(io[j])' = Span(io[j])
    BY <2>1 DEF Span
  <2>3. Ended \subseteq Ended'
    BY <1>3 DEF Ended
  <2>4. Succeeded \subseteq Succeeded'
    BY <1>3 DEF Ended, Succeeded
  <2>5. \A j \in Ids : ~Active(j)'
    BY <1>3 DEF Active
  <2> QED BY <2>2, <2>3, <2>4, <2>5
<1>7. \A w \in Ids, b \in Blocks : Kept(w, b) => Kept(w, b)' /\ Settled(w, b)'
  BY <1>1 DEF Kept, Settled, Fresh
<1>8. \A w \in Succeeded : w \in Ids /\ Span(io[w]) \subseteq Blocks
  BY SpanOnDevice DEF Succeeded
<1>9. Promised'
  <2>1. safe \subseteq Succeeded
    BY <1>2 DEF Promised
  <2>2. \A w \in safe : \A b \in Span(io[w])' : Kept(w, b)' /\ Settled(w, b)'
    BY <1>2, <1>6, <1>7, <1>8, <2>1 DEF Promised
  <2> QED BY <1>1, <1>6, <2>1, <2>2 DEF Promised
<1>10. ASSUME NEW j \in Ids PROVE IOInv(j)'
  <2>1. IOInv(j) /\ base'[j] = base[j] /\ before'[j] = before[j] /\ pieces'[j] = {} /\ base[j] \subseteq Succeeded
    BY <1>1, <1>2 DEF IOInv
  <2>2. before'[j] \subseteq Ended' /\ base'[j] \subseteq Succeeded' /\ ~Active(j)'
    BY <1>6, <2>1 DEF IOInv
  <2>3. Wrote(j)' => Wrote(j)
    BY <1>1 DEF Wrote
  <2>4. io'[j].st = "none" => io'[j] = Idle /\ ~Wrote(j)'
    BY <1>3, <2>1, <2>3 DEF IOInv
  <2>5. WriteSoFar(j)'
    BY <1>3 DEF WriteSoFar
  <2>6. ReadSoFar(j)'
    <3>1. CASE io'[j].st = "ok"
      <4>1. io'[j] = io[j] /\ io[j].st = "ok" /\ ReadSoFar(j)
        BY <1>3, <2>1, <3>1 DEF IOInv
      <4>2. \A b : GotLatest(j, b)' = GotLatest(j, b)
        <5>1. \A w \in base[j] : Span(io[w])' = Span(io[w]) /\ before'[w] = before[w]
          BY <1>1, <1>2, <1>6
        <5> QED BY <2>1, <4>1, <5>1 DEF GotLatest, Fresh
      <4>3. Span(io[j])' = Span(io[j])
        BY <1>6
      <4> QED BY <4>1, <4>2, <4>3 DEF ReadSoFar
    <3>2. CASE io'[j].st # "ok"
      BY <1>3, <3>2 DEF ReadSoFar
    <3> QED BY <3>1, <3>2
  <2>7. PreflushDone(j)'
    <3>1. path' = path /\ io'[j].fl = io[j].fl /\ io'[j].st \notin {"data", "flush"}
      BY <1>1, <1>3 DEF SameBio
    <3>2. (\A u \in base[j] : \A b \in Span(io[u]) : Kept(u, b)) =>
            \A u \in base[j] : \A b \in Span(io[u])' : Kept(u, b)'
      BY <1>6, <1>7, <1>8, <2>1
    <3> QED BY <2>1, <2>3, <3>1, <3>2 DEF IOInv, PreflushDone
  <2>8. BioOK(j)'
    <3>1. io'[j].st # "none" => io[j].st # "none"
      <4>1. io[j].st = "none" => io[j] = Idle
        BY <2>1 DEF IOInv
      <4> QED BY <1>1, <4>1
    <3> QED BY <1>1, <1>2, <1>3, <2>1, <2>2, <3>1 DEF BioOK, SameBio
  <2> QED BY <2>1, <2>2, <2>4, <2>5, <2>6, <2>7, <2>8 DEF IOInv
<1> QED BY <1>5, <1>9, <1>10 DEF DataInv

LEMMA DataKept ==
  ASSUME DataInv, [Next]_vars
  PROVE  DataInv'
<1>1. ASSUME NEW i \in Ids, NEW c \in Bios, Submit(i, c) PROVE DataInv'
  BY <1>1, SubmitKeeps
<1>2. ASSUME NEW i \in Ids, Flush(i) \/ WriteSegment(i) \/ ReadSegment(i) \/ Discard(i) \/ Send(i) PROVE DataInv'
  BY <1>2, FlushKeeps, WriteSegmentKeeps, ReadSegmentKeeps, DiscardKeeps, SendKeeps
<1>3. ASSUME NEW i \in Ids, NEW q \in pieces[i], Serve(i, q) PROVE DataInv'
  BY <1>3, ServeKeeps
<1>4. ASSUME NEW b \in Blocks, Writeback(b) PROVE DataInv'
  BY <1>4, WritebackKeeps
<1>5. ASSUME Crash PROVE DataInv'
  BY <1>5, CrashKeeps
<1>6. ASSUME UNCHANGED vars PROVE DataInv'
  <2>1. UNCHANGED <<path, sync, limit, io, pieces, vol, before, base, acked, safe>> /\ dur' = dur
    BY <1>6 DEF vars, conf, store, history
  <2>2. dur \in [Blocks -> Contents]
    BY DEF DataInv, Types
  <2> QED BY <2>1, <2>2, QuietKeeps
<1>7. ASSUME DetectStore PROVE DataInv'
  <2>1. UNCHANGED <<path, sync, limit, io, pieces, vol, before, base, acked, safe>> /\ dur' = dur
    BY <1>7 DEF DetectStore, store, history
  <2>2. dur \in [Blocks -> Contents]
    BY DEF DataInv, Types
  <2> QED BY <2>1, <2>2, QuietKeeps
<1> QED BY <1>1, <1>2, <1>3, <1>4, <1>5, <1>6, <1>7 DEF Next

LEMMA DataAlways == Spec => []DataInv
  BY DataInitial, DataKept, PTL DEF Spec

--------------------------------------------------------------------------------
\* Every write that a completed flush covers, every completed FUA write and every
\* completed write to an O_SYNC file survives every crash, on each of the paths.
THEOREM Durable == Spec => []FlushDurable
<1>1. DataInv => FlushDurable
  BY DEF DataInv, Promised, FlushDurable, NotOlder, Kept, Fresh
<1> QED BY <1>1, DataAlways, PTL

\* The medium has nothing of a REQ_PREFLUSH write before it has all that was
\* acknowledged when the write was submitted, except before kernel 4.8.
THEOREM PreflushSafe == Spec => []PreflushOrder
<1>1. DataInv => PreflushOrder
  <2> SUFFICES ASSUME DataInv, path # "legacy", NEW w \in Ids, "pre" \in io[w].fl, NEW b \in Blocks, dur[b][1] = w,
                      NEW u \in base[w]
               PROVE  NotOlder(dur, u)
    BY DEF PreflushOrder, After
  <2>1. PreflushDone(w)
    BY DEF DataInv, IOInv
  <2>2. Wrote(w)
    BY DEF Wrote
  <2> QED BY <2>1, <2>2 DEF PreflushDone, NotOlder, Kept, Fresh
<1> QED BY <1>1, DataAlways, PTL

\* No block of an acknowledged write is lost to a segment that was skipped, a
\* split that left something out, or an older write, until a crash.
THEOREM AckSafe == Spec => []AckedVisible
<1>1. DataInv => AckedVisible
  BY DEF DataInv, Promised, AckedVisible, NotOlder, Settled, Fresh
<1> QED BY <1>1, DataAlways, PTL

\* A read that succeeded without meeting the end of the file is as new as what was
\* acknowledged before it began.
THEOREM ReadsSafe == Spec => []ReadsLatest
<1>1. DataInv => ReadsLatest
  <2> SUFFICES ASSUME DataInv, NEW i \in Ids, io[i].st = "ok", io[i].op = "read", ~io[i].cut
               PROVE  \A w \in base[i] : \A b \in Span(io[w]) \intersect Span(io[i]) :
                        io[i].got[b][1] \notin before[w] \union {0}
    BY DEF ReadsLatest, GotNew
  <2>1. ReadSoFar(i)
    BY DEF DataInv, IOInv
  <2> QED BY <2>1 DEF ReadSoFar, GotLatest, Fresh
<1> QED BY <1>1, DataAlways, PTL

--------------------------------------------------------------------------------
(***************************************************************************)
(* The copy of the data of a write (PXD_READ_DATA), for any number of segments*)
(***************************************************************************)

\* W has the states of a copy of n segments.
Follows(W, n, off, parts) ==
  /\ W = [k \in 0 .. n |-> W[k]] /\ W[0] = Start(off, parts)
  /\ \A k \in 1 .. n : W[k] = CopySegment(W[k - 1], k - 1)

\* There is one such W, by induction on the segments.
LEMMA CopiesAre ==
  ASSUME NEW n \in Nat, NEW off, NEW parts, NEW W, Follows(W, n, off, parts)
  PROVE  Copies(n, off, parts)[n] = W[n]
<1> USE DEF Follows
<1> DEFINE c == Copies(n, off, parts)
<1>1. W = [k \in 0 .. n |-> IF k = 0 THEN Start(off, parts) ELSE CopySegment(W[k - 1], k - 1)]
  <2>1. \A k \in 0 .. n : W[k] = IF k = 0 THEN Start(off, parts) ELSE CopySegment(W[k - 1], k - 1)
    OBVIOUS
  <2> QED BY <2>1
<1>2. c = [k \in 0 .. n |-> IF k = 0 THEN Start(off, parts) ELSE CopySegment(c[k - 1], k - 1)]
  BY <1>1 DEF Copies
<1> HIDE DEF c
<1>3. c[0] = Start(off, parts) /\ \A k \in 1 .. n : c[k] = CopySegment(c[k - 1], k - 1)
  BY <1>2
<1> DEFINE D == {k \in 0 .. n : c[k] # W[k]}
<1>4. D = {}
  <2> SUFFICES ASSUME D # {} PROVE FALSE
    OBVIOUS
  <2>1. D \in SUBSET Nat
    OBVIOUS
  <2>2. PICK m \in D : \A y \in D : m =< y
    BY <2>1, MinIn
  <2>3. m \in 1 .. n
    BY <1>3, <2>2
  <2>4. m - 1 \in 0 .. n /\ ~(m =< m - 1)
    BY <2>3
  <2>5. c[m - 1] = W[m - 1]
    BY <2>2, <2>4
  <2> QED BY <1>3, <2>2, <2>3, <2>5
<1>5. c[n] = W[n]
  BY <1>4
<1> QED BY <1>5 DEF c

\* the j units from t on follow the m units from f on, and l units is all of them
Joins(f, m, t, j, l) == f \in Nat /\ m \in Nat /\ t \in Nat /\ j \in Nat /\ (j = 0 \/ t = f + m) /\ l = m + j

\* Units that follow each other make one run of units.
LEMMA UnitsAppend ==
  ASSUME NEW f, NEW m, NEW j, NEW t, NEW l, Joins(f, m, t, j, l)
  PROVE  Units(f, m) \o Units(t, j) = Units(f, l)
<1> DEFINE u == Units(f, m)
           v == Units(t, j)
           w == Units(f, l)
<1>0. f \in Nat /\ m \in Nat /\ t \in Nat /\ j \in Nat /\ (j = 0 \/ t = f + m) /\ l = m + j /\ l \in Nat
  BY DEF Joins
<1>1. /\ u \in Seq(Int) /\ Len(u) = m
      /\ \A k \in 1 .. m : u[k] = f + k - 1
  BY <1>0 DEF Units
<1>2. /\ v \in Seq(Int) /\ Len(v) = j
      /\ \A k \in 1 .. j : v[k] = t + k - 1
  BY <1>0 DEF Units
<1>3. /\ w \in Seq(Int) /\ Len(w) = l
      /\ \A k \in 1 .. l : w[k] = f + k - 1
  BY <1>0 DEF Units
<1> HIDE DEF u, v, w
<1>4. u \o v \in Seq(Int) /\ Len(u \o v) = l
  <2>1. u \in Seq(Int) /\ v \in Seq(Int)
    BY <1>1, <1>2
  <2>2. u \o v \in Seq(Int) /\ Len(u \o v) = Len(u) + Len(v)
    BY ONLY <2>1
  <2> QED BY <1>0, <1>1, <1>2, <2>2
<1>5. ASSUME NEW k \in 1 .. l PROVE (u \o v)[k] = w[k]
  <2>1. CASE k <= m
    BY <1>0, <1>1, <1>2, <1>3, <2>1
  <2>2. CASE k > m
    <3>1. k - m \in 1 .. j /\ t = f + m
      BY <1>0, <2>2
    <3>2. (u \o v)[k] = v[k - m]
      BY <1>0, <1>1, <1>2, <2>2
    <3>3. v[k - m] = t + (k - m) - 1
      BY <1>2, <3>1
    <3>4. w[k] = f + k - 1
      BY <1>3
    <3>5. t + (k - m) - 1 = f + k - 1
      BY <1>0, <3>1
    <3> QED BY ONLY <3>2, <3>3, <3>4, <3>5
  <2>3. k <= m \/ k > m
    BY <1>0
  <2> QED BY ONLY <2>1, <2>2, <2>3, Zenon
<1>6. u \o v = [k \in 1 .. l |-> (u \o v)[k]]
  <2>1. \A q : q \in Seq(Int) /\ Len(q) = l => q = [k \in 1 .. l |-> q[k]]
    BY <1>0
  <2> QED BY ONLY <1>4, <2>1, Zenon
<1>7. w = [k \in 1 .. l |-> w[k]]
  BY <1>3
<1>8. u \o v = w
  BY <1>5, <1>6, <1>7
<1> QED BY <1>8 DEF u, v, w

LEMMA CopyFields ==
  ASSUME NEW o, NEW sk, NEW ro, NEW mo, NEW ou, NEW d
  PROVE  LET c == Copying(o, sk, ro, mo, ou, d)
         IN c.off = o /\ c.skipped = sk /\ c.room = ro /\ c.more = mo /\ c.out = ou /\ c.st = d
  BY DEF Copying

\* A copy that is done, or has failed, stays as it is.
LEMMA SegmentDone ==
  ASSUME NEW c, NEW s, c.st # "copy"
  PROVE  CopySegment(c, s) = c
  BY DEF CopySegment

\* k units of the next segment are skipped and the l others have, or have not, room
Fits(c, k, l) == c.st = "copy" /\ c.room \in Nat /\ k \in Nat /\ l \in Nat /\ k = Skip(c) /\ k + l = Unit /\ c.room >= l
TooLong(c, k, l) == c.st = "copy" /\ c.room \in Nat /\ k \in Nat /\ l \in Nat /\ k = Skip(c) /\ k + l = Unit /\ c.room < l

\* A segment that fits is copied, what is skipped of it left out.
LEMMA SegmentFits ==
  ASSUME NEW c, NEW s, NEW k, NEW l, Fits(c, k, l)
  PROVE  CopySegment(c, s) = Copying(c.off, c.skipped + k, c.room - l, c.more, c.out \o Units(s * Unit + k, l), "copy")
<1>1. Unit - k = l /\ (IF c.room < l THEN c.room ELSE l) = l /\ ~(l < l)
  BY DEF Unit, Fits
<1>2. k = Skip(c) /\ c.st = "copy"
  BY DEF Fits
<1> QED BY ONLY <1>1, <1>2 DEF CopySegment

\* One that does not fit ends a copy that has no more iovecs.
LEMMA SegmentEnds ==
  ASSUME NEW c, NEW s, NEW k, NEW l, TooLong(c, k, l), c.more = <<>>
  PROVE  CopySegment(c, s) = Copying(c.off, c.skipped + k, 0, <<>>, c.out \o Units(s * Unit + k, c.room), "done")
<1>1. Unit - k = l /\ (IF c.room < l THEN c.room ELSE l) = c.room /\ c.room # l /\ c.room - c.room = 0 /\ c.room < l
  BY DEF Unit, TooLong
<1>2. k = Skip(c) /\ c.st = "copy"
  BY DEF TooLong
<1> QED BY ONLY <1>1, <1>2, c.more = <<>> DEF CopySegment

\* One that finds no room at all is copied to the iovecs that follow, or fails.
LEMMA SegmentRefills ==
  ASSUME NEW c, NEW s \in Nat, c.st = "copy", c.room = 0, Skip(c) = 0, NEW m \in Nat, c.more = <<m>>
  PROVE  /\ m >= Unit =>
              CopySegment(c, s) = Copying(c.off, c.skipped + 0, m - Unit, <<>>,
                ((c.out \o Units(s * Unit + 0, 0)) \o Units(s * Unit + 0 + 0, Unit - 0)) \o Junks(0), "copy")
         /\ m < Unit => CopySegment(c, s).st = "fault"
<1>1. /\ Unit - 0 = Unit /\ (IF 0 < Unit THEN 0 ELSE Unit) = 0 /\ 0 # Unit /\ 0 < Unit
      /\ <<m>> # <<>> /\ Head(<<m>>) = m /\ Tail(<<m>>) = <<>>
  BY DEF Unit
<1>2. CASE m >= Unit
  <2>1. ~(m < Unit)
    BY <1>2 DEF Unit
  <2>2. CopySegment(c, s) = Copying(c.off, c.skipped + 0, m - Unit, <<>>,
                ((c.out \o Units(s * Unit + 0, 0)) \o Units(s * Unit + 0 + 0, Unit - 0)) \o Junks(0), "copy")
    BY ONLY <1>1, <2>1, Skip(c) = 0, c.st = "copy", c.room = 0, c.more = <<m>> DEF CopySegment
  <2> QED BY <2>1, <2>2
<1>3. CASE m < Unit
  <2>1. CopySegment(c, s) = Copying(c.off, c.skipped + 0, 0 - 0, c.more, c.out \o Units(s * Unit + 0, 0), "fault")
    BY ONLY <1>1, <1>3, Skip(c) = 0, c.st = "copy", c.room = 0, c.more = <<m>> DEF CopySegment
  <2>2. CopySegment(c, s).st = "fault"
    BY ONLY <2>1, CopyFields
  <2>3. ~(m >= Unit)
    BY <1>3 DEF Unit
  <2> QED BY <2>2, <2>3
<1> QED BY <1>2, <1>3 DEF Unit

\* the units that a copy from off on has skipped and has copied after k segments
Skipped(off, k) == IF k * Unit <= off THEN k * Unit ELSE off
Past(off, k) == IF k * Unit <= off THEN 0 ELSE k * Unit - off

\* what segment k adds to them
LEMMA PastOne ==
  ASSUME NEW off \in Nat, NEW k \in Nat, k # 0
  PROVE  /\ {Skipped(off, k), Skipped(off, k - 1), Past(off, k), Past(off, k - 1)} \subseteq Nat
         /\ Skipped(off, k) - Skipped(off, k - 1) \in Nat /\ Past(off, k) - Past(off, k - 1) \in Nat
         /\ (Skipped(off, k) - Skipped(off, k - 1)) + (Past(off, k) - Past(off, k - 1)) = Unit
         /\ Skipped(off, k - 1) + (Skipped(off, k) - Skipped(off, k - 1)) = Skipped(off, k)
  BY DEF Skipped, Past, Unit

\* what it skips of it
LEMMA SkipIs ==
  ASSUME NEW off \in Nat, NEW k \in Nat, k # 0, NEW d, d.off = off, d.skipped = Skipped(off, k - 1)
  PROVE  Skip(d) = Skipped(off, k) - Skipped(off, k - 1)
  BY DEF Skip, Skipped, Unit

\* A copy with room for what is left of the next segment goes on.
LEMMA StepFits ==
  ASSUME NEW off \in Nat, NEW k \in Nat, k # 0, NEW room \in Nat, NEW more, room >= Past(off, k) - Past(off, k - 1)
  PROVE  CopySegment(Copying(off, Skipped(off, k - 1), room, more, Units(off, Past(off, k - 1)), "copy"), k - 1)
           = Copying(off, Skipped(off, k), room - (Past(off, k) - Past(off, k - 1)), more, Units(off, Past(off, k)), "copy")
<1>1. PICK d : d = Copying(off, Skipped(off, k - 1), room, more, Units(off, Past(off, k - 1)), "copy")
  OBVIOUS
<1>2. /\ d.off = off /\ d.skipped = Skipped(off, k - 1) /\ d.room = room /\ d.more = more
      /\ d.out = Units(off, Past(off, k - 1)) /\ d.st = "copy"
  BY ONLY <1>1, CopyFields
<1>3. PICK j \in Nat : j = Skipped(off, k) - Skipped(off, k - 1)
  BY PastOne
<1>4. PICK l \in Nat : l = Past(off, k) - Past(off, k - 1)
  BY PastOne
<1>5. Fits(d, j, l)
  <2>1. Skip(d) = Skipped(off, k) - Skipped(off, k - 1)
    BY ONLY <1>2, SkipIs, off \in Nat, k \in Nat, k # 0
  <2>2. (Skipped(off, k) - Skipped(off, k - 1)) + (Past(off, k) - Past(off, k - 1)) = Unit
    BY PastOne
  <2> QED BY ONLY <1>2, <1>3, <1>4, <2>1, <2>2, room \in Nat, room >= Past(off, k) - Past(off, k - 1) DEF Fits
<1>6. CopySegment(d, k - 1) = Copying(d.off, d.skipped + j, d.room - l, d.more, d.out \o Units((k - 1) * Unit + j, l), "copy")
  BY ONLY <1>5, SegmentFits, Zenon
<1>7. Units(off, Past(off, k - 1)) \o Units((k - 1) * Unit + j, l) = Units(off, Past(off, k))
  <2>1. Joins(off, Past(off, k - 1), (k - 1) * Unit + j, l, Past(off, k))
    BY <1>3, <1>4 DEF Unit, Joins, Skipped, Past
  <2> QED BY ONLY <2>1, UnitsAppend
<1>8. d.skipped + j = Skipped(off, k)
  BY <1>2, <1>3, PastOne
<1> QED BY ONLY <1>1, <1>2, <1>4, <1>6, <1>7, <1>8

\* A copy of size units ends in the segment that they end in, when it has no more iovecs.
LEMMA StepEnds ==
  ASSUME NEW off \in Nat, NEW size \in Nat, NEW k \in Nat, k # 0, (k - 1) * Unit <= off + size, off + size < k * Unit
  PROVE  CopySegment(Copying(off, Skipped(off, k - 1), size - Past(off, k - 1), <<>>, Units(off, Past(off, k - 1)), "copy"), k - 1)
           = Copying(off, off, 0, <<>>, Units(off, size), "done")
<1>1. PICK d : d = Copying(off, Skipped(off, k - 1), size - Past(off, k - 1), <<>>, Units(off, Past(off, k - 1)), "copy")
  OBVIOUS
<1>2. /\ d.off = off /\ d.skipped = Skipped(off, k - 1) /\ d.room = size - Past(off, k - 1) /\ d.more = <<>>
      /\ d.out = Units(off, Past(off, k - 1)) /\ d.st = "copy"
  BY ONLY <1>1, CopyFields
<1>3. PICK j \in Nat : j = Skipped(off, k) - Skipped(off, k - 1)
  BY PastOne
<1>4. PICK l \in Nat : l = Past(off, k) - Past(off, k - 1)
  BY PastOne
<1>5. size - Past(off, k - 1) \in Nat /\ size - Past(off, k - 1) < l /\ Skipped(off, k) = off
  BY <1>4 DEF Unit, Past, Skipped
<1>6. TooLong(d, j, l)
  <2>1. Skip(d) = Skipped(off, k) - Skipped(off, k - 1)
    BY ONLY <1>2, SkipIs, off \in Nat, k \in Nat, k # 0
  <2>2. (Skipped(off, k) - Skipped(off, k - 1)) + (Past(off, k) - Past(off, k - 1)) = Unit
    BY PastOne
  <2> QED BY ONLY <1>2, <1>3, <1>4, <1>5, <2>1, <2>2 DEF TooLong
<1>7. CopySegment(d, k - 1) = Copying(d.off, d.skipped + j, 0, <<>>, d.out \o Units((k - 1) * Unit + j, d.room), "done")
  BY ONLY <1>2, <1>6, SegmentEnds
<1>8. Units(off, Past(off, k - 1)) \o Units((k - 1) * Unit + j, size - Past(off, k - 1)) = Units(off, size)
  <2>1. Joins(off, Past(off, k - 1), (k - 1) * Unit + j, size - Past(off, k - 1), size)
    BY <1>3, <1>5 DEF Unit, Joins, Skipped, Past
  <2> QED BY ONLY <2>1, UnitsAppend
<1>9. d.skipped + j = off
  <2>1. Skipped(off, k - 1) + (Skipped(off, k) - Skipped(off, k - 1)) = Skipped(off, k)
    BY PastOne
  <2> QED BY ONLY <1>2, <1>3, <1>5, <2>1
<1> QED BY ONLY <1>1, <1>2, <1>7, <1>8, <1>9

\* a call for size units from off on, in a request of n segments
Call(n, off, size) == n \in Nat /\ off \in Nat /\ size \in Nat /\ off + size <= n * Unit

\* A call with one part gets the units it asks for.
LEMMA OnePart ==
  ASSUME NEW n, NEW off, NEW size, Call(n, off, size)
  PROVE  Copies(n, off, <<size>>)[n].out = Units(off, size)
<1>0. n \in Nat /\ off \in Nat /\ size \in Nat /\ off + size <= n * Unit
  BY DEF Call
<1> DEFINE c(k) == IF k * Unit <= off + size
                   THEN Copying(off, Skipped(off, k), size - Past(off, k), <<>>, Units(off, Past(off, k)), "copy")
                   ELSE Copying(off, off, 0, <<>>, Units(off, size), "done")
           W == [k \in 0 .. n |-> c(k)]
<1>1. c(0) = Start(off, <<size>>)
  <2>1. Skipped(off, 0) = 0 /\ Past(off, 0) = 0 /\ size - 0 = size /\ 0 * Unit <= off + size /\ Units(off, 0) = <<>>
    BY <1>0 DEF Unit, Units, Skipped, Past
  <2>2. Head(<<size>>) = size /\ Tail(<<size>>) = <<>>
    OBVIOUS
  <2> QED BY ONLY <2>1, <2>2 DEF Start
<1>2. ASSUME NEW k \in 1 .. n PROVE c(k) = CopySegment(c(k - 1), k - 1)
  <2>0. k \in Nat /\ k # 0
    BY <1>0
  <2>1. CASE k * Unit <= off + size
    <3>1. (k - 1) * Unit <= off + size /\ size - Past(off, k - 1) \in Nat
          /\ size - Past(off, k - 1) >= Past(off, k) - Past(off, k - 1)
          /\ (size - Past(off, k - 1)) - (Past(off, k) - Past(off, k - 1)) = size - Past(off, k)
      BY <1>0, <2>0, <2>1 DEF Unit, Past
    <3>2. PICK room \in Nat : room = size - Past(off, k - 1)
      BY <3>1
    <3>3. c(k - 1) = Copying(off, Skipped(off, k - 1), room, <<>>, Units(off, Past(off, k - 1)), "copy")
      BY <3>1, <3>2
    <3>4. c(k) = Copying(off, Skipped(off, k), room - (Past(off, k) - Past(off, k - 1)), <<>>, Units(off, Past(off, k)), "copy")
      BY <2>1, <3>1, <3>2
    <3> QED BY ONLY <1>0, <2>0, <3>1, <3>2, <3>3, <3>4, StepFits
  <2>2. CASE (k - 1) * Unit <= off + size /\ off + size < k * Unit
    <3>1. ~(k * Unit <= off + size)
      BY <1>0, <2>0, <2>2 DEF Unit
    <3>2. c(k) = Copying(off, off, 0, <<>>, Units(off, size), "done")
      BY <3>1
    <3>3. c(k - 1) = Copying(off, Skipped(off, k - 1), size - Past(off, k - 1), <<>>, Units(off, Past(off, k - 1)), "copy")
      BY <2>2
    <3> QED BY ONLY <1>0, <2>0, <2>2, <3>2, <3>3, StepEnds
  <2>3. CASE off + size < (k - 1) * Unit
    <3>1. ~((k - 1) * Unit <= off + size) /\ ~(k * Unit <= off + size)
      BY <1>0, <2>0, <2>3 DEF Unit
    <3>2. c(k) = c(k - 1) /\ c(k - 1).st = "done"
      BY <3>1, CopyFields
    <3> HIDE DEF c
    <3> QED BY <3>2, SegmentDone
  <2> QED BY <1>0, <2>0, <2>1, <2>2, <2>3 DEF Unit
<1>3. c(n).out = Units(off, size)
  <2>1. CASE n * Unit <= off + size
    <3>1. Past(off, n) = size
      BY <1>0, <2>1 DEF Past, Unit
    <3> QED BY <2>1, <3>1, CopyFields
  <2>2. CASE ~(n * Unit <= off + size)
    BY <2>2, CopyFields
  <2> QED BY <2>1, <2>2
<1> HIDE DEF c
<1>4. Follows(W, n, off, <<size>>) /\ W[n] = c(n)
  BY <1>0, <1>1, <1>2 DEF Follows
<1> HIDE DEF W
<1>5. Copies(n, off, <<size>>)[n] = W[n]
  BY <1>0, <1>4, CopiesAre
<1> QED BY <1>3, <1>4, <1>5

\* A call with two parts, the first of which ends with a segment, fails if the
\* second has no room for the next segment, and else gets what it asks for.
LEMMA TwoParts ==
  ASSUME NEW n, NEW off, NEW size, Call(n, off, size), NEW p \in 1 .. size - 1, (off + p) % Unit = 0
  PROVE  /\ size - p >= Unit => Copies(n, off, <<p, size - p>>)[n].out = Units(off, size)
         /\ size - p < Unit => Copies(n, off, <<p, size - p>>)[n].st = "fault"
<1>0. /\ n \in Nat /\ off \in Nat /\ size \in Nat /\ off + size <= n * Unit
      /\ p \in Nat /\ p # 0 /\ size - p \in Nat /\ size - p # 0
  BY DEF Call
<1>1. PICK q \in Nat : off + p = q * Unit
  BY <1>0 DEF Unit
<1>2. q \in 1 .. n /\ q + 1 <= n /\ Past(off, q) = p /\ Skipped(off, q) = off
  BY <1>0, <1>1 DEF Unit, Past, Skipped
\* the states up to the end of the first part
<1> DEFINE a(k) == Copying(off, Skipped(off, k), p - Past(off, k), <<size - p>>, Units(off, Past(off, k)), "copy")
<1>3. a(0) = Start(off, <<p, size - p>>)
  <2>1. Skipped(off, 0) = 0 /\ Past(off, 0) = 0 /\ p - 0 = p /\ Units(off, 0) = <<>>
    BY <1>0 DEF Unit, Units, Skipped, Past
  <2>2. Head(<<p, size - p>>) = p /\ Tail(<<p, size - p>>) = <<size - p>>
    OBVIOUS
  <2> QED BY ONLY <2>1, <2>2 DEF Start
<1>4. ASSUME NEW k \in 1 .. n, k <= q PROVE a(k) = CopySegment(a(k - 1), k - 1)
  <2>0. k \in Nat /\ k # 0
    BY <1>0
  <2>1. p - Past(off, k - 1) \in Nat /\ p - Past(off, k - 1) >= Past(off, k) - Past(off, k - 1)
        /\ (p - Past(off, k - 1)) - (Past(off, k) - Past(off, k - 1)) = p - Past(off, k)
    BY <1>0, <1>1, <1>4, <2>0 DEF Unit, Past
  <2>2. PICK room \in Nat : room = p - Past(off, k - 1)
    BY <2>1
  <2>3. a(k - 1) = Copying(off, Skipped(off, k - 1), room, <<size - p>>, Units(off, Past(off, k - 1)), "copy")
    BY <2>2
  <2>4. a(k) = Copying(off, Skipped(off, k), room - (Past(off, k) - Past(off, k - 1)), <<size - p>>, Units(off, Past(off, k)), "copy")
    BY <2>1, <2>2
  <2> QED BY ONLY <1>0, <2>0, <2>1, <2>2, <2>3, <2>4, StepFits
\* the segment that finds no room
<1>5. PICK d : d = a(q)
  OBVIOUS
<1>6. /\ d.off = off /\ d.skipped = off /\ d.room = 0 /\ d.more = <<size - p>> /\ d.out = Units(off, p) /\ d.st = "copy"
      /\ Skip(d) = 0
  <2>1. p - p = 0
    BY <1>0
  <2>2. d = Copying(off, off, 0, <<size - p>>, Units(off, p), "copy")
    BY ONLY <1>2, <1>5, <2>1
  <2>3. /\ d.off = off /\ d.skipped = off /\ d.room = 0 /\ d.more = <<size - p>> /\ d.out = Units(off, p) /\ d.st = "copy"
    BY ONLY <2>2, CopyFields
  <2> QED BY <1>0, <2>3 DEF Skip
<1>7. CASE size - p < Unit
  <2> DEFINE f == CopySegment(d, q)
             c(k) == IF k <= q THEN a(k) ELSE f
             W == [k \in 0 .. n |-> c(k)]
  <2>1. f.st = "fault"
    <3>1. PICK m \in Nat : m = size - p
      BY <1>0
    <3>2. q \in Nat /\ m < Unit /\ d.more = <<m>>
      BY <1>1, <1>6, <1>7, <3>1
    <3> QED BY ONLY <1>6, <3>1, <3>2, SegmentRefills
  <2> HIDE DEF f
  <2>2. ASSUME NEW k \in 1 .. n PROVE c(k) = CopySegment(c(k - 1), k - 1)
    <3>1. CASE k <= q
      <4>1. k - 1 <= q
        BY <1>0, <1>2, <3>1
      <4> HIDE DEF a
      <4> QED BY <1>4, <3>1, <4>1
    <3>2. CASE k - 1 = q
      <4>1. ~(k <= q) /\ k - 1 <= q
        BY <1>0, <1>2, <3>2
      <4> HIDE DEF a
      <4>2. c(k) = f /\ c(k - 1) = d
        BY <1>5, <3>2, <4>1
      <4> QED BY <3>2, <4>2 DEF f
    <3>3. CASE k - 1 > q
      <4>1. ~(k <= q) /\ ~(k - 1 <= q)
        BY <1>0, <1>2, <3>3
      <4>2. c(k) = f /\ c(k - 1) = f
        BY <4>1
      <4> QED BY <2>1, <4>2, SegmentDone
    <3> QED BY <1>0, <1>2, <3>1, <3>2, <3>3
  <2>3. c(0) = Start(off, <<p, size - p>>) /\ c(n) = f
    <3>1. 0 <= q /\ ~(n <= q)
      BY <1>0, <1>2
    <3> HIDE DEF a
    <3> QED BY <1>3, <3>1
  <2> HIDE DEF c
  <2>4. Follows(W, n, off, <<p, size - p>>) /\ W[n] = c(n)
    BY <1>0, <2>2, <2>3 DEF Follows
  <2> HIDE DEF W
  <2>5. Copies(n, off, <<p, size - p>>)[n] = W[n]
    BY <1>0, <2>4, CopiesAre
  <2>6. ~(size - p >= Unit)
    BY <1>0, <1>7 DEF Unit
  <2> QED BY <2>1, <2>3, <2>4, <2>5, <2>6
<1>8. CASE size - p >= Unit
  <2> DEFINE e(k) == IF k * Unit <= off + size
                     THEN Copying(off, Skipped(off, k), size - Past(off, k), <<>>, Units(off, Past(off, k)), "copy")
                     ELSE Copying(off, off, 0, <<>>, Units(off, size), "done")
             c(k) == IF k <= q THEN a(k) ELSE e(k)
             W == [k \in 0 .. n |-> c(k)]
  <2>1. e(q + 1) = CopySegment(d, q)
    <3>1. /\ (q + 1) * Unit <= off + size /\ Past(off, q + 1) = p + Unit /\ Skipped(off, q + 1) = off
          /\ size - (p + Unit) = (size - p) - Unit /\ off + 0 = off
      BY <1>0, <1>1, <1>8 DEF Unit, Past, Skipped
    <3>2. e(q + 1) = Copying(off, off, (size - p) - Unit, <<>>, Units(off, p + Unit), "copy")
      BY ONLY <3>1
    <3>3. PICK m \in Nat : m = size - p
      BY <1>0
    <3>4. q \in Nat /\ m >= Unit /\ d.more = <<m>>
      BY <1>1, <1>6, <1>8, <3>3
    <3>5. CopySegment(d, q) = Copying(d.off, d.skipped + 0, m - Unit, <<>>,
            ((d.out \o Units(q * Unit + 0, 0)) \o Units(q * Unit + 0 + 0, Unit - 0)) \o Junks(0), "copy")
      BY ONLY <1>6, <3>3, <3>4, SegmentRefills
    <3>6. Units(off, p) \o Units(q * Unit + 0, 0) = Units(off, p)
      <4>1. Joins(off, p, q * Unit + 0, 0, p)
        BY <1>0, <1>1 DEF Unit, Joins
      <4> QED BY ONLY <4>1, UnitsAppend
    <3>7. Units(off, p) \o Units(q * Unit + 0 + 0, Unit - 0) = Units(off, p + Unit)
      <4>1. Joins(off, p, q * Unit + 0 + 0, Unit - 0, p + Unit)
        BY <1>0, <1>1 DEF Unit, Joins
      <4> QED BY ONLY <4>1, UnitsAppend
    <3>8. Units(off, p + Unit) \o Junks(0) = Units(off, p + Unit)
      <4>1. Joins(off, p + Unit, 0, 0, p + Unit)
        BY <1>0 DEF Unit, Joins
      <4>2. Junks(0) = Units(0, 0)
        BY DEF Junks, Units
      <4> QED BY ONLY <4>1, <4>2, UnitsAppend
    <3> QED BY ONLY <1>6, <3>1, <3>2, <3>3, <3>5, <3>6, <3>7, <3>8
  <2>2. ASSUME NEW k \in 1 .. n, k - 1 > q PROVE e(k) = CopySegment(e(k - 1), k - 1)
    <3>0. k \in Nat /\ k # 0
      BY <1>0
    <3>1. CASE k * Unit <= off + size
      <4>1. (k - 1) * Unit <= off + size /\ size - Past(off, k - 1) \in Nat
            /\ size - Past(off, k - 1) >= Past(off, k) - Past(off, k - 1)
            /\ (size - Past(off, k - 1)) - (Past(off, k) - Past(off, k - 1)) = size - Past(off, k)
        BY <1>0, <3>0, <3>1 DEF Unit, Past
      <4>2. PICK room \in Nat : room = size - Past(off, k - 1)
        BY <4>1
      <4>3. e(k - 1) = Copying(off, Skipped(off, k - 1), room, <<>>, Units(off, Past(off, k - 1)), "copy")
        BY <4>1, <4>2
      <4>4. e(k) = Copying(off, Skipped(off, k), room - (Past(off, k) - Past(off, k - 1)), <<>>, Units(off, Past(off, k)), "copy")
        BY <3>1, <4>1, <4>2
      <4> QED BY ONLY <1>0, <3>0, <4>1, <4>2, <4>3, <4>4, StepFits
    <3>2. CASE (k - 1) * Unit <= off + size /\ off + size < k * Unit
      <4>1. ~(k * Unit <= off + size)
        BY <1>0, <3>0, <3>2 DEF Unit
      <4>2. e(k) = Copying(off, off, 0, <<>>, Units(off, size), "done")
        BY <4>1
      <4>3. e(k - 1) = Copying(off, Skipped(off, k - 1), size - Past(off, k - 1), <<>>, Units(off, Past(off, k - 1)), "copy")
        BY <3>2
      <4> QED BY ONLY <1>0, <3>0, <3>2, <4>2, <4>3, StepEnds
    <3>3. CASE off + size < (k - 1) * Unit
      <4>1. ~((k - 1) * Unit <= off + size) /\ ~(k * Unit <= off + size)
        BY <1>0, <3>0, <3>3 DEF Unit
      <4>2. e(k) = e(k - 1) /\ e(k - 1).st = "done"
        BY <4>1, CopyFields
      <4> HIDE DEF e
      <4> QED BY <4>2, SegmentDone
    <3> QED BY <1>0, <3>0, <3>1, <3>2, <3>3 DEF Unit
  <2>3. e(n).out = Units(off, size)
    <3>1. CASE n * Unit <= off + size
      <4>1. Past(off, n) = size
        BY <1>0, <3>1 DEF Past, Unit
      <4> QED BY <3>1, <4>1, CopyFields
    <3>2. CASE ~(n * Unit <= off + size)
      BY <3>2, CopyFields
    <3> QED BY <3>1, <3>2
  <2> HIDE DEF e
  <2>4. ASSUME NEW k \in 1 .. n PROVE c(k) = CopySegment(c(k - 1), k - 1)
    <3>1. CASE k <= q
      <4>1. k - 1 <= q
        BY <1>0, <1>2, <3>1
      <4> HIDE DEF a
      <4> QED BY <1>4, <3>1, <4>1
    <3>2. CASE k - 1 = q
      <4>1. ~(k <= q) /\ k - 1 <= q /\ k = q + 1
        BY <1>0, <1>2, <3>2
      <4> HIDE DEF a
      <4>2. c(k) = e(q + 1) /\ c(k - 1) = d
        BY <1>5, <3>2, <4>1
      <4> QED BY <2>1, <3>2, <4>2
    <3>3. CASE k - 1 > q
      <4>1. ~(k <= q) /\ ~(k - 1 <= q)
        BY <1>0, <1>2, <3>3
      <4>2. c(k) = e(k) /\ c(k - 1) = e(k - 1)
        BY <4>1
      <4> QED BY <2>2, <3>3, <4>2
    <3> QED BY <1>0, <1>2, <3>1, <3>2, <3>3
  <2>5. c(0) = Start(off, <<p, size - p>>) /\ c(n) = e(n)
    <3>1. 0 <= q /\ ~(n <= q)
      BY <1>0, <1>2
    <3> HIDE DEF a
    <3> QED BY <1>3, <3>1
  <2> HIDE DEF c
  <2>6. Follows(W, n, off, <<p, size - p>>) /\ W[n] = c(n)
    BY <1>0, <2>4, <2>5 DEF Follows
  <2> HIDE DEF W
  <2>7. Copies(n, off, <<p, size - p>>)[n] = W[n]
    BY <1>0, <2>6, CopiesAre
  <2>8. ~(size - p < Unit)
    BY <1>0, <1>8 DEF Unit
  <2> QED BY <2>3, <2>5, <2>6, <2>7, <2>8
<1> QED BY <1>0, <1>7, <1>8 DEF Unit

\* A call that succeeds and of which no part ends inside a segment gets what it
\* asks for.
LEMMA CallRight ==
  ASSUME NEW n, NEW off, NEW size, Call(n, off, size), NEW f \in Calls(n, off, size), ~f.mid
  PROVE  f.data = Units(off, size)
<1>1. PICK ps \in Parts(size) :
        /\ Copies(n, off, ps)[n].st # "fault"
        /\ f = [data |-> Copies(n, off, ps)[n].out, mid |-> Midway(off, ps)]
  BY DEF Calls
<1>2. f.data = Copies(n, off, ps)[n].out /\ ~Midway(off, ps)
  BY <1>1
<1>3. CASE ps = <<size>>
  BY <1>2, <1>3, OnePart
<1>4. CASE ps # <<size>>
  <2>1. PICK p \in 1 .. size - 1 : ps = <<p, size - p>>
    BY <1>1, <1>4 DEF Parts
  <2>2. Tail(ps) # <<>> /\ Head(ps) = p
    BY <2>1
  <2>3. (off + p) % Unit = 0
    BY <1>2, <2>2 DEF Midway
  <2>4. size - p >= Unit \/ size - p < Unit
    BY DEF Unit, Call
  <2> QED BY <1>1, <1>2, <2>1, <2>3, <2>4, TwoParts
<1> QED BY <1>3, <1>4

\* However the daemon asks for the data of a write, in one call or in two, and
\* however long the parts of the iovecs are that are copied in: if no part ends
\* inside a segment it gets every unit of the write once and in place.
THEOREM FetchedAll ==
  ASSUME NEW n \in 1 .. NBlocks, NEW f \in Fetched[n], ~f.mid
  PROVE  f.data = Units(0, n * Unit)
<1>0. n \in Nat /\ n * Unit \in Nat
  BY DataAssumption DEF Unit
<1>1. CASE f \in Calls(n, 0, n * Unit)
  <2>1. Call(n, 0, n * Unit)
    BY <1>0 DEF Call
  <2> QED BY <1>1, <2>1, CallRight
<1>2. ASSUME NEW cut \in 1 .. n * Unit - 1, f \in TwoCalls(n, cut)
      PROVE  f.data = Units(0, n * Unit)
  <2>0. PICK fg \in Calls(n, 0, cut) \X Calls(n, cut, n * Unit - cut) : f = Both(fg[1], fg[2])
    BY <1>2 DEF TwoCalls
  <2>1. PICK g \in Calls(n, 0, cut), h \in Calls(n, cut, n * Unit - cut) : f = Both(g, h)
    BY <2>0
  <2>2. cut \in Nat /\ n * Unit - cut \in Nat /\ 0 + cut <= n * Unit /\ cut + (n * Unit - cut) <= n * Unit
    BY <1>0
  <2>3. Call(n, 0, cut) /\ Call(n, cut, n * Unit - cut)
    BY ONLY <1>0, <2>2 DEF Call
  <2>4. f.data = g.data \o h.data /\ f.mid = (g.mid \/ h.mid)
    BY <2>1 DEF Both
  <2>5. ~g.mid /\ ~h.mid
    BY <2>4
  <2>6. g.data = Units(0, cut)
    BY ONLY <2>3, <2>5, CallRight, g \in Calls(n, 0, cut)
  <2>7. h.data = Units(cut, n * Unit - cut)
    BY ONLY <2>3, <2>5, CallRight, h \in Calls(n, cut, n * Unit - cut)
  <2>8. Joins(0, cut, cut, n * Unit - cut, n * Unit)
    BY <1>0, <2>2 DEF Joins
  <2>9. Units(0, cut) \o Units(cut, n * Unit - cut) = Units(0, n * Unit)
    BY ONLY <2>8, UnitsAppend
  <2> QED BY ONLY <2>4, <2>6, <2>7, <2>9
<1>3. f \in Calls(n, 0, n * Unit) \/ \E cut \in 1 .. n * Unit - 1 : f \in TwoCalls(n, cut)
  BY DEF Fetched
<1> QED BY <1>1, <1>2, <1>3

\* What it writes to a block is what the bio has there.
LEMMA WrittenRight ==
  ASSUME NEW i, NEW p, p.op # "discard", p.off \in Nat, p.len \in Nat, NEW b \in Span(p),
         NEW f, f.data = Units(0, p.len * Unit)
  PROVE  Written(i, p, f, b) = <<i, IF b \in io[i].zs THEN "zero" ELSE "data">>
<1> DEFINE k == (b - p.off) * Unit
           all == Units(0, p.len * Unit)
<1>1. k \in Nat /\ k + Unit <= p.len * Unit /\ Unit \in Nat /\ Unit # 0
  BY DEF Span, Unit
<1>2. all \in Seq(Int) /\ Len(all) = p.len * Unit /\ \A j \in 1 .. p.len * Unit : all[j] = 0 + j - 1
  BY ONLY <1>1, p.len \in Nat DEF Units, Unit
<1>4. SubSeq(all, k + 1, k + Unit) = Units(k, Unit)
  <2> HIDE DEF k, all
  <2>1. SubSeq(all, k + 1, k + Unit) = [j \in 1 .. (k + Unit) - (k + 1) + 1 |-> all[j + (k + 1) - 1]]
    BY <1>1, <1>2
  <2>2. (k + Unit) - (k + 1) + 1 = Unit
    BY <1>1
  <2>3. ASSUME NEW j \in 1 .. Unit PROVE all[j + (k + 1) - 1] = k + j - 1
    <3>1. j + (k + 1) - 1 \in 1 .. p.len * Unit /\ 0 + (j + (k + 1) - 1) - 1 = k + j - 1
      BY <1>1
    <3> QED BY <1>2, <3>1
  <2> QED BY <2>1, <2>2, <2>3 DEF Units
<1> HIDE DEF all
<1>5. SubSeq(f.data, k + 1, k + Unit) = Units(k, Unit)
  BY <1>4 DEF all
<1> QED BY <1>5 DEF Written

--------------------------------------------------------------------------------
(***************************************************************************)
(* The contents of the device                                              *)
(***************************************************************************)

\* Content c of block b is what its writer carries there, or shifted.
Carries(b, c) ==
  c[1] # 0 => c[2] \in {IF io[c[1]].op = "discard" \/ b \in io[c[1]].zs THEN "zero" ELSE "data", "shifted"}

\* Request p is a part of bio r, and discards only what r discards or has zeroes for.
PartOf(p, r) ==
  /\ p.len <= r.len /\ Span(p) \subseteq Span(r)
  /\ p.op = "write" => r.op # "discard"
  /\ p.op = "discard" => r.op = "discard" \/ Span(p) \subseteq r.zs

BioSound(i) ==
  /\ io[i].k <= io[i].len
  /\ path # "daemon" => io[i].zs = {}
  /\ \A p \in pieces[i] : PartOf(p, io[i])

SoundInv ==
  /\ eof \in 0 .. NBlocks
  /\ \A b \in Blocks : Carries(b, vol[b]) /\ Carries(b, dur[b])
  /\ \A i \in Ids : BioSound(i)

\* what IO i leaves in block b
Due(i, b) == <<i, IF io[i].op = "discard" \/ b \in io[i].zs THEN "zero" ELSE "data">>
Shifted(i) == <<i, "shifted">>

\* The pieces of a bio stay inside it.
LEMMA TilesInside ==
  ASSUME NEW r \in Bodies, limit \in Nat, NEW t \in Tiles(r)
  PROVE  t.len <= r.len /\ Span(t) \subseteq Span(r)
<1> DEFINE off == r.off
           len == r.len
           n == IF limit = 0 \/ len <= limit THEN 0 ELSE (len - 1) \div limit
           Cut(k) == [off |-> off + k * limit, len |-> limit, last |-> FALSE]
           Rest == [off |-> off + n * limit, len |-> len - n * limit, last |-> TRUE]
<1>1. off \in Nat /\ len \in Nat
  BY BodyNumbers
<1>2. Tiles(r) = {Cut(k) : k \in 0 .. n - 1} \union {Rest}
  BY DEF Tiles
<1>3. n \in Nat /\ n * limit \in Nat /\ n * limit <= len
  <2>1. CASE limit = 0 \/ len <= limit
    BY ONLY <1>1, <2>1, limit \in Nat
  <2>2. CASE ~(limit = 0 \/ len <= limit)
    <3>1. n = (len - 1) \div limit
      BY <2>2
    <3> HIDE DEF n, off, len
    <3> QED BY ONLY <1>1, <2>2, <3>1, limit \in Nat
  <2> QED BY <2>1, <2>2
<1>4. t.off \in Nat /\ t.len \in Nat /\ off <= t.off /\ t.off + t.len <= off + len
  <2>1. CASE t = Rest
    <3>1. t.off = off + n * limit /\ t.len = len - n * limit
      BY <2>1
    <3> HIDE DEF n, off, len
    <3> QED BY ONLY <1>1, <1>3, <3>1
  <2>2. CASE t # Rest
    <3>1. PICK k \in 0 .. n - 1 : t = Cut(k)
      BY <1>2, <2>2
    <3>2. t.off = off + k * limit /\ t.len = limit
      BY <3>1
    <3> HIDE DEF n, off, len
    <3>3. k \in Nat /\ k * limit \in Nat /\ k * limit + limit <= n * limit
      <4>1. k \in Nat /\ k + 1 <= n
        BY ONLY <1>3, k \in 0 .. n - 1
      <4>2. (k + 1) * limit <= n * limit
        BY ONLY <1>3, <4>1, limit \in Nat
      <4> QED BY ONLY <4>1, <4>2, limit \in Nat
    <3>4. \A x, y \in Nat : x + limit <= y /\ y <= len => off + x \in Nat /\ off + x + limit <= off + len
      BY ONLY <1>1, limit \in Nat
    <3> QED BY ONLY <1>1, <1>3, <3>2, <3>3, <3>4, limit \in Nat
  <2> QED BY <2>1, <2>2
<1> HIDE DEF off, len
<1>5. t.len <= len
  BY <1>1, <1>4
<1>6. t.off .. t.off + t.len - 1 \subseteq off .. off + len - 1
  BY ONLY <1>1, <1>4
<1> QED BY <1>5, <1>6 DEF Span, off, len

\* A step of IO i, which goes to r, keeps the invariant if i writes what is due.
LEMMA SoundStep ==
  ASSUME DataInv, SoundInv, NEW i \in Ids, NEW r, io' = [io EXCEPT ![i] = r], SameBio(io[i], r), r.zs = io[i].zs,
         r.k <= r.len, path' = path, eof' \in 0 .. NBlocks, \A j \in Ids \ {i} : pieces'[j] = pieces[j],
         \A p \in pieces'[i] : PartOf(p, r),
         \A b \in Blocks : vol'[b] \in {vol[b], Due(i, b), Shifted(i)} /\ dur'[b] \in {dur[b], vol'[b]}
  PROVE  SoundInv'
<1>1. io \in [Ids -> Bodies] /\ vol \in [Blocks -> Contents] /\ dur \in [Blocks -> Contents]
  BY DEF DataInv, Types
<1>2. io'[i] = r /\ \A j \in Ids \ {i} : io'[j] = io[j]
  BY <1>1
<1>3. \A j \in Ids : io'[j].op = io[j].op /\ io'[j].zs = io[j].zs
  BY <1>2 DEF SameBio
<1>4. ASSUME NEW b \in Blocks, NEW c \in Contents, Carries(b, c) PROVE Carries(b, c)'
  <2>1. c[1] # 0 => c[1] \in Ids
    BY NumbersOK DEF Contents, Ids
  <2> QED BY <1>3, <1>4, <2>1 DEF Carries
<1>5. ASSUME NEW b \in Blocks PROVE Carries(b, vol[b])'
  <2>1. CASE vol'[b] = vol[b]
    <3>1. PICK c \in Contents : c = vol[b] /\ Carries(b, c)
      BY <1>1 DEF SoundInv
    <3>2. Carries(b, c)' /\ vol'[b] = c
      BY <1>4, <2>1, <3>1
    <3> QED BY <3>2 DEF Carries
  <2>2. CASE vol'[b] = Due(i, b)
    <3>1. vol'[b][1] = i /\ vol'[b][2] = IF io[i].op = "discard" \/ b \in io[i].zs THEN "zero" ELSE "data"
      BY <2>2 DEF Due
    <3> QED BY <1>3, <3>1 DEF Carries
  <2>3. CASE vol'[b] = Shifted(i)
    <3>1. vol'[b][2] = "shifted"
      BY <2>3 DEF Shifted
    <3> QED BY <3>1 DEF Carries
  <2> QED BY <2>1, <2>2, <2>3
<1>6. ASSUME NEW b \in Blocks PROVE Carries(b, dur[b])'
  <2>1. CASE dur'[b] = dur[b]
    <3>1. PICK c \in Contents : c = dur[b] /\ Carries(b, c)
      BY <1>1 DEF SoundInv
    <3>2. Carries(b, c)' /\ dur'[b] = c
      BY <1>4, <2>1, <3>1
    <3> QED BY <3>2 DEF Carries
  <2>2. CASE dur'[b] = vol'[b]
    BY <1>5, <2>2 DEF Carries
  <2> QED BY <2>1, <2>2
<1>7. ASSUME NEW j \in Ids PROVE BioSound(j)'
  <2>1. BioSound(j)
    BY DEF SoundInv
  <2>2. CASE j = i
    BY <1>2, <2>1, <2>2 DEF BioSound
  <2>3. CASE j # i
    BY <1>2, <2>1, <2>3 DEF BioSound
  <2> QED BY <2>2, <2>3
<1> QED BY <1>5, <1>6, <1>7 DEF SoundInv

LEMMA SoundInitial == Init => SoundInv
<1> SUFFICES ASSUME Init PROVE SoundInv
  OBVIOUS
<1>1. eof \in 0 .. NBlocks
  BY NumbersOK DEF Init
<1>2. \A b \in Blocks : Carries(b, vol[b]) /\ Carries(b, dur[b])
  BY DEF Init, NoData, Zero, Carries
<1>3. ASSUME NEW i \in Ids PROVE BioSound(i)
  <2>1. io[i] = Idle /\ pieces[i] = {}
    BY DEF Init
  <2>2. Idle.k = 0 /\ Idle.len = 0 /\ Idle.zs = {}
    BY DEF Idle
  <2> QED BY <2>1, <2>2 DEF BioSound
<1> QED BY <1>1, <1>2, <1>3 DEF SoundInv

\* what a step of a file-backed bio starts from
LEMMA FileSound ==
  ASSUME DataInv, SoundInv, NEW i \in Ids, pieces[i] = {} \/ io[i].st \in {"preflush", "data", "flush", "send"}
  PROVE  /\ io[i] \in Bodies /\ io[i].k <= io[i].len /\ io[i].k \in Nat /\ io[i].len \in Nat /\ io[i].off \in Nat
         /\ pieces[i] = {} /\ eof \in 0 .. NBlocks /\ BioOK(i)
         /\ io[i].st \in {"preflush", "data", "flush"} => io[i].zs = {}
<1>1. io[i] \in Bodies /\ BioOK(i) /\ BioSound(i) /\ eof \in 0 .. NBlocks
  BY DEF DataInv, Types, IOInv, SoundInv
<1> QED BY <1>1, BodyNumbers DEF BioOK, BioSound

LEMMA FailSound ==
  ASSUME DataInv, SoundInv, NEW i \in Ids, pieces[i] = {}, Fails(i), UNCHANGED <<path, pieces, vol, eof>>,
         \A b \in Blocks : dur'[b] \in {dur[b], vol[b]}
  PROVE  SoundInv'
<1> DEFINE r == [io[i] EXCEPT !.st = "err"]
<1>1. io[i] \in Bodies /\ io[i].k <= io[i].len /\ eof \in 0 .. NBlocks
  BY FileSound
<1>2. SameBio(io[i], r) /\ r.zs = io[i].zs /\ r.k <= r.len
  BY <1>1 DEF Bodies, SameBio
<1>3. io' = [io EXCEPT ![i] = r]
  BY DEF Fails, Goes
<1> HIDE DEF r
<1> QED BY <1>1, <1>2, <1>3, SoundStep

LEMMA FlushSound ==
  ASSUME DataInv, SoundInv, NEW i \in Ids, Flush(i)
  PROVE  SoundInv'
<1>1. /\ io[i] \in Bodies /\ io[i].k <= io[i].len /\ eof \in 0 .. NBlocks /\ pieces[i] = {}
      /\ UNCHANGED <<path, pieces, vol, eof>>
  BY FileSound DEF Flush, conf
<1>2. CASE dur' = (IF sync THEN dur ELSE vol) /\ Goes(i, [io[i] EXCEPT !.st = IF @ = "preflush" THEN "data" ELSE "ok"])
  <2> DEFINE r == [io[i] EXCEPT !.st = IF @ = "preflush" THEN "data" ELSE "ok"]
  <2>1. SameBio(io[i], r) /\ r.zs = io[i].zs /\ r.k <= r.len
    BY <1>1 DEF Bodies, SameBio
  <2>2. io' = [io EXCEPT ![i] = r]
    BY <1>2 DEF Goes
  <2> HIDE DEF r
  <2>3. \A b \in Blocks : vol'[b] = vol[b] /\ dur'[b] \in {dur[b], vol'[b]}
    BY <1>1, <1>2
  <2> QED BY <1>1, <2>1, <2>2, <2>3, SoundStep
<1>3. CASE Fails(i) /\ \E bs \in SUBSET Blocks : dur' = [b \in Blocks |-> IF b \in bs THEN vol[b] ELSE dur[b]]
  <2>1. \A b \in Blocks : dur'[b] \in {dur[b], vol[b]}
    BY <1>3
  <2> QED BY <1>1, <1>3, <2>1, FailSound
<1> QED BY <1>2, <1>3 DEF Flush

LEMMA WriteSegmentSound ==
  ASSUME DataInv, SoundInv, NEW i \in Ids, WriteSegment(i)
  PROVE  SoundInv'
<1>1. /\ io[i] \in Bodies /\ io[i].k \in Nat /\ io[i].len \in Nat /\ io[i].off \in Nat
      /\ eof \in 0 .. NBlocks /\ pieces[i] = {} /\ BioOK(i) /\ io[i].zs = {} /\ io[i].st = "data" /\ io[i].op = "write"
      /\ UNCHANGED <<path, pieces>>
  BY FileSound DEF WriteSegment, conf
<1>2. vol \in [Blocks -> Contents] /\ dur \in [Blocks -> Contents]
  BY DEF DataInv, Types
<1>3. CASE WriteFails(i) /\ UNCHANGED store
  BY <1>1, <1>3, FailSound DEF WriteFails, store
<1>4. CASE LET r == io[i]
               b == r.off + r.k
           IN /\ vol' = [vol EXCEPT ![b] = <<i, "data">>]
              /\ dur' = IF sync THEN [dur EXCEPT ![b] = <<i, "data">>] ELSE dur
              /\ eof' = IF b < eof THEN eof ELSE b + 1
              /\ Goes(i, [r EXCEPT !.k = @ + 1, !.st = IF r.k + 1 = r.len THEN AfterData(r) ELSE @])
  <2> DEFINE b == io[i].off + io[i].k
             r == [io[i] EXCEPT !.k = @ + 1, !.st = IF io[i].k + 1 = io[i].len THEN AfterData(io[i]) ELSE @]
  <2>1. SameBio(io[i], r) /\ r.zs = io[i].zs /\ r.k = io[i].k + 1
    BY <1>1 DEF Bodies, SameBio
  <2>2. io' = [io EXCEPT ![i] = r]
    BY <1>4 DEF Goes
  <2> HIDE DEF r
  <2>3. io[i].k < io[i].len /\ io[i].off + io[i].len <= NBlocks
    BY <1>1 DEF BioOK
  <2>4. r.k <= r.len
    BY <1>1, <2>1, <2>3 DEF SameBio
  <2>5. b \in Nat /\ b < NBlocks
    BY <1>1, <2>3, NumbersOK
  <2> HIDE DEF b
  <2>6. eof' \in 0 .. NBlocks
    <3>1. eof' = IF b < eof THEN eof ELSE b + 1
      BY <1>4 DEF b
    <3> QED BY ONLY <1>1, <2>5, <3>1, NumbersOK
  <2>7. vol' = [vol EXCEPT ![b] = <<i, "data">>] /\ dur' = IF sync THEN [dur EXCEPT ![b] = <<i, "data">>] ELSE dur
    BY <1>4 DEF b
  <2>8. Due(i, b) = <<i, "data">>
    BY <1>1 DEF Due
  <2>9. \A a \in Blocks : vol'[a] \in {vol[a], Due(i, a)} /\ dur'[a] \in {dur[a], vol'[a]}
    BY <1>2, <2>7, <2>8
  <2> QED BY <1>1, <2>1, <2>2, <2>4, <2>6, <2>9, SoundStep
<1> QED BY <1>3, <1>4 DEF WriteSegment

LEMMA ReadSegmentSound ==
  ASSUME DataInv, SoundInv, NEW i \in Ids, ReadSegment(i)
  PROVE  SoundInv'
<1>1. /\ io[i] \in Bodies /\ io[i].k <= io[i].len /\ io[i].k \in Nat /\ io[i].len \in Nat
      /\ eof \in 0 .. NBlocks /\ pieces[i] = {} /\ BioOK(i) /\ io[i].st = "data"
      /\ UNCHANGED <<path, pieces, vol, dur, eof>>
  BY FileSound DEF ReadSegment, conf, store
<1>2. ASSUME NEW r, Goes(i, r), SameBio(io[i], r), r.zs = io[i].zs, r.k <= r.len PROVE SoundInv'
  <2>1. io' = [io EXCEPT ![i] = r]
    BY <1>2 DEF Goes
  <2> QED BY <1>1, <1>2, <2>1, SoundStep
<1>3. CASE Fails(i)
  BY <1>1, <1>3, FailSound
<1>4. CASE Goes(i, ZeroFill(io[i]))
  <2>1. SameBio(io[i], ZeroFill(io[i])) /\ ZeroFill(io[i]).zs = io[i].zs /\ ZeroFill(io[i]).k <= ZeroFill(io[i]).len
    BY <1>1 DEF Bodies, SameBio, ZeroFill
  <2> QED BY <1>2, <1>4, <2>1
<1>5. CASE LET r == io[i]
               b == r.off + r.k
           IN Goes(i, [r EXCEPT !.k = @ + 1, !.got[b] = vol[ReadPos(r)], !.st = IF r.k + 1 = r.len THEN "ok" ELSE @])
  <2> DEFINE b == io[i].off + io[i].k
             r == [io[i] EXCEPT !.k = @ + 1, !.got[b] = vol[b], !.st = IF io[i].k + 1 = io[i].len THEN "ok" ELSE @]
  <2>1. SameBio(io[i], r) /\ r.zs = io[i].zs /\ r.k = io[i].k + 1
    BY <1>1 DEF Bodies, SameBio
  <2>2. Goes(i, r)
    BY <1>5 DEF ReadPos
  <2> HIDE DEF r
  <2>3. io[i].k < io[i].len
    BY <1>1 DEF BioOK
  <2>4. r.k <= r.len
    BY <1>1, <2>1, <2>3 DEF SameBio
  <2> QED BY <1>2, <2>1, <2>2, <2>4
<1> QED BY <1>3, <1>4, <1>5 DEF ReadSegment

LEMMA DiscardSound ==
  ASSUME DataInv, SoundInv, NEW i \in Ids, Discard(i)
  PROVE  SoundInv'
<1>1. /\ io[i] \in Bodies /\ io[i].k <= io[i].len /\ eof \in 0 .. NBlocks /\ pieces[i] = {}
      /\ io[i].op = "discard" /\ UNCHANGED <<path, pieces, dur, eof>>
  BY FileSound DEF Discard, conf
<1>2. CASE UNCHANGED vol /\ Fails(i)
  BY <1>1, <1>2, FailSound
<1>3. ASSUME Goes(i, [io[i] EXCEPT !.st = "ok"]), \A b \in Blocks : vol'[b] \in {vol[b], <<i, "zero">>} PROVE SoundInv'
  <2> DEFINE r == [io[i] EXCEPT !.st = "ok"]
  <2>1. SameBio(io[i], r) /\ r.zs = io[i].zs /\ r.k <= r.len
    BY <1>1 DEF Bodies, SameBio
  <2>2. io' = [io EXCEPT ![i] = r]
    BY <1>3 DEF Goes
  <2> HIDE DEF r
  <2>3. \A b \in Blocks : Due(i, b) = <<i, "zero">>
    BY <1>1 DEF Due
  <2>4. \A b \in Blocks : vol'[b] \in {vol[b], Due(i, b)} /\ dur'[b] \in {dur[b], vol'[b]}
    BY <1>1, <1>3, <2>3
  <2> QED BY <1>1, <2>1, <2>2, <2>4, SoundStep
<1>4. CASE UNCHANGED vol /\ Goes(i, [io[i] EXCEPT !.st = "ok"])
  BY <1>3, <1>4
<1>5. CASE /\ vol' = [b \in Blocks |-> IF b \in Span(io[i]) THEN <<i, "zero">> ELSE vol[b]]
           /\ Goes(i, [io[i] EXCEPT !.st = "ok"])
  <2>1. \A b \in Blocks : vol'[b] \in {vol[b], <<i, "zero">>}
    BY <1>5
  <2> QED BY <1>3, <1>5, <2>1
<1> QED BY <1>2, <1>4, <1>5 DEF Discard

\* A request that is made of a piece of a bio is a part of the bio: a write
\* becomes a discard only where every segment of the piece is zero.
LEMMA RequestPart ==
  ASSUME NEW r \in Bodies, r.op # "none", limit \in Nat, NEW t \in Tiles(r)
  PROVE  PartOf(Request(t, r), r)
<1>1. t.off \in Nat /\ t.len \in Nat /\ t.len <= r.len /\ Span(t) \subseteq Span(r)
  BY TilesCover, TilesInside
<1>2. r.op \in {"read", "write", "discard", "flush"}
  BY DEF Bodies
<1> DEFINE q == Request(t, r)
<1>3. /\ q.off = t.off /\ q.len = t.len
      /\ q.op = IF Convert(t, r) THEN "discard" ELSE IF r.op = "flush" THEN "write" ELSE r.op
  BY DEF Request
<1> HIDE DEF q
<1>4. Span(q) = Span(t)
  BY <1>3 DEF Span
<1>5. PartOf(q, r)
  BY <1>1, <1>2, <1>3, <1>4 DEF PartOf, Convert
<1> QED BY <1>5 DEF q

LEMMA SendSound ==
  ASSUME DataInv, SoundInv, NEW i \in Ids, Send(i)
  PROVE  SoundInv'
<1>1. /\ io[i] \in Bodies /\ io[i].k <= io[i].len /\ eof \in 0 .. NBlocks /\ pieces[i] = {} /\ BioOK(i)
      /\ io[i].st = "send" /\ UNCHANGED <<path, vol, dur, eof>>
  BY FileSound DEF Send, conf, store
<1>2. limit \in Nat /\ io[i].op # "none" /\ pieces \in [Ids -> SUBSET Requests]
  BY <1>1 DEF DataInv, Types, BioOK
<1>3. ASSUME NEW ts \in SUBSET Tiles(io[i]), NEW r, Goes(i, r), SameBio(io[i], r), r.zs = io[i].zs, r.k <= r.len,
             pieces' = [pieces EXCEPT ![i] = {Request(t, io[i]) : t \in ts}]
      PROVE  SoundInv'
  <2>1. io' = [io EXCEPT ![i] = r]
    BY <1>3 DEF Goes
  <2>2. \A t \in ts : PartOf(Request(t, io[i]), io[i])
    BY <1>1, <1>2, RequestPart
  <2>3. \A p : PartOf(p, io[i]) => PartOf(p, r)
    BY <1>3 DEF PartOf, SameBio, Span
  <2>4. \A p \in pieces'[i] : PartOf(p, r)
    <3>1. pieces'[i] = {Request(t, io[i]) : t \in ts}
      BY <1>2, <1>3
    <3> QED BY <2>2, <2>3, <3>1
  <2>5. \A j \in Ids \ {i} : pieces'[j] = pieces[j]
    BY <1>2, <1>3
  <2> QED BY <1>1, <1>3, <2>1, <2>4, <2>5, SoundStep
<1>4. CASE /\ pieces' = [pieces EXCEPT ![i] = {Request(t, io[i]) : t \in Tiles(io[i])}]
           /\ Goes(i, [io[i] EXCEPT !.st = "sent"])
  <2> DEFINE r == [io[i] EXCEPT !.st = "sent"]
  <2>1. SameBio(io[i], r) /\ r.zs = io[i].zs /\ r.k <= r.len
    BY <1>1 DEF Bodies, SameBio
  <2>2. Goes(i, r)
    BY <1>4
  <2> HIDE DEF r
  <2> QED BY <1>3, <1>4, <2>1, <2>2
<1>5. CASE \E t \in Tiles(io[i]) :
             LET sent == {u \in Tiles(io[i]) : u.off < t.off}
             IN /\ pieces' = [pieces EXCEPT ![i] = {Request(u, io[i]) : u \in sent}]
                /\ Goes(i, [io[i] EXCEPT !.st = IF sent = {} THEN "err" ELSE "sent", !.bad = TRUE])
  <2>1. PICK ts \in SUBSET Tiles(io[i]) :
          /\ pieces' = [pieces EXCEPT ![i] = {Request(u, io[i]) : u \in ts}]
          /\ Goes(i, [io[i] EXCEPT !.st = IF ts = {} THEN "err" ELSE "sent", !.bad = TRUE])
    <3>1. PICK t \in Tiles(io[i]) :
             LET sent == {u \in Tiles(io[i]) : u.off < t.off}
             IN /\ pieces' = [pieces EXCEPT ![i] = {Request(u, io[i]) : u \in sent}]
                /\ Goes(i, [io[i] EXCEPT !.st = IF sent = {} THEN "err" ELSE "sent", !.bad = TRUE])
      BY <1>5
    <3> WITNESS {u \in Tiles(io[i]) : u.off < t.off} \in SUBSET Tiles(io[i])
    <3> QED BY <3>1
  <2> DEFINE r == [io[i] EXCEPT !.st = IF ts = {} THEN "err" ELSE "sent", !.bad = TRUE]
  <2>2. SameBio(io[i], r) /\ r.zs = io[i].zs /\ r.k <= r.len
    BY <1>1 DEF Bodies, SameBio
  <2>3. Goes(i, r)
    BY <2>1
  <2> HIDE DEF r
  <2> QED BY <1>3, <2>1, <2>2, <2>3
<1> QED BY <1>4, <1>5 DEF Send

\* What the daemon writes for a request is due, whatever it fetched, unless it is shifted.
LEMMA WrittenDue ==
  ASSUME DataInv, NEW i \in Ids, io[i].st = "sent", NEW p \in Requests, PartOf(p, io[i]), p.op # "read",
         NEW d \in IF p.op = "write" /\ p.len > 0 THEN Fetched[p.len] ELSE {NoFetch}, NEW b \in Span(p)
  PROVE  Written(i, p, d, b) \in {Due(i, b), Shifted(i)}
<1>1. io[i] \in Bodies /\ BioOK(i)
  BY DEF DataInv, Types, IOInv
<1>2. p.off \in Nat /\ p.len \in Nat /\ p.op \in {"write", "discard"}
  BY DEF Requests
<1>3. CASE p.op = "discard"
  BY <1>3 DEF Written, Due, PartOf
<1>4. CASE p.op = "write"
  <2>1. p.len > 0
    BY <1>2 DEF Span
  <2>2. p.len \in 1 .. NBlocks
    <3>1. p.len <= io[i].len /\ io[i].off + io[i].len <= NBlocks /\ io[i].len \in Nat /\ io[i].off \in Nat
      BY <1>1, BodyNumbers DEF PartOf, BioOK
    <3> QED BY ONLY <1>2, <2>1, <3>1, NumbersOK
  <2>3. d \in Fetched[p.len]
    BY <1>4, <2>1
  <2>4. io[i].op # "discard"
    BY <1>4 DEF PartOf
  <2>5. CASE ~d.mid
    <3>1. d.data = Units(0, p.len * Unit)
      BY ONLY <2>2, <2>3, <2>5, FetchedAll
    <3>2. Written(i, p, d, b) = <<i, IF b \in io[i].zs THEN "zero" ELSE "data">>
      BY <1>2, <1>4, <3>1, WrittenRight
    <3> QED BY <2>4, <3>2 DEF Due
  <2>6. CASE d.mid
    BY <1>4, <2>4, <2>6 DEF Written, Due, Shifted
  <2> QED BY <2>5, <2>6
<1> QED BY <1>2, <1>3, <1>4

LEMMA ServeSound ==
  ASSUME DataInv, SoundInv, NEW i \in Ids, NEW q \in pieces[i], Serve(i, q)
  PROVE  SoundInv'
<1>1. /\ io[i] \in Bodies /\ io[i].k <= io[i].len /\ eof \in 0 .. NBlocks /\ \A x \in pieces[i] : PartOf(x, io[i])
  BY DEF DataInv, Types, SoundInv, BioSound
<1>2. /\ vol \in [Blocks -> Contents] /\ pieces \in [Ids -> SUBSET Requests]
  BY DEF DataInv, Types
<1>3. pieces' = [pieces EXCEPT ![i] = pieces[i] \ {q}] /\ UNCHANGED <<path, eof>>
  BY DEF Serve, conf
<1>4. pieces'[i] \subseteq pieces[i] /\ \A j \in Ids \ {i} : pieces'[j] = pieces[j]
  BY <1>2, <1>3
<1>5. ASSUME NEW bad, NEW got,
             Goes(i, [io[i] EXCEPT !.bad = bad, !.got = got,
                                   !.st = IF pieces[i] \ {q} # {} THEN @ ELSE IF bad THEN "err" ELSE "ok"]),
             \A b \in Blocks : vol'[b] \in {vol[b], Due(i, b), Shifted(i)} /\ dur'[b] \in {dur[b], vol'[b]}
      PROVE  SoundInv'
  <2> DEFINE r == [io[i] EXCEPT !.bad = bad, !.got = got,
                                !.st = IF pieces[i] \ {q} # {} THEN @ ELSE IF bad THEN "err" ELSE "ok"]
  <2>1. SameBio(io[i], r) /\ r.zs = io[i].zs /\ r.k <= r.len
    BY <1>1 DEF Bodies, SameBio
  <2>2. io' = [io EXCEPT ![i] = r]
    BY <1>5 DEF Goes
  <2> HIDE DEF r
  <2>3. \A x : PartOf(x, io[i]) => PartOf(x, r)
    BY <2>1 DEF PartOf, SameBio, Span
  <2>4. \A x \in pieces'[i] : PartOf(x, r)
    BY <1>1, <1>4, <2>3
  <2> QED BY <1>1, <1>3, <1>4, <1>5, <2>1, <2>2, <2>4, SoundStep
<1>6. CASE /\ UNCHANGED <<vol, dur>>
           /\ \E bad, got : Goes(i, [io[i] EXCEPT !.bad = bad, !.got = got,
                                    !.st = IF pieces[i] \ {q} # {} THEN @ ELSE IF bad THEN "err" ELSE "ok"])
  BY <1>5, <1>6
<1> DEFINE p == AsRead(q, io[i])
<1>p. p \in Requests /\ PartOf(p, io[i])
  <2>1. q \in Requests /\ PartOf(q, io[i])
    BY <1>1, <1>2
  <2>2. /\ p \in Requests /\ p.len = q.len /\ Span(p) = Span(q)
        /\ p.op = q.op \/ (p.op = "discard" /\ q.op = "write" /\ Span(q) \subseteq io[i].zs)
    BY ONLY <2>1, AsReadOK
  <2> HIDE DEF p
  <2> QED BY <2>1, <2>2 DEF PartOf
<1> HIDE DEF p
<1>s. io[i].st = "sent"
  BY DEF DataInv, IOInv, BioOK
<1>7. ASSUME p.op # "read",
             NEW d \in IF p.op = "write" /\ p.len > 0 THEN Fetched[p.len] ELSE {NoFetch},
             vol' = [b \in Blocks |-> IF b \in Span(p) THEN Written(i, p, d, b) ELSE vol[b]],
             dur' = DaemonKeeps(p, vol'),
             Goes(i, [io[i] EXCEPT !.bad = io[i].bad, !.got = io[i].got,
                                   !.st = IF pieces[i] \ {q} # {} THEN @ ELSE IF io[i].bad THEN "err" ELSE "ok"])
      PROVE  SoundInv'
  <2>1. \A b \in Span(p) : Written(i, p, d, b) \in {Due(i, b), Shifted(i)}
    BY <1>7, <1>p, <1>s, WrittenDue
  <2>2. \A b \in Blocks : vol'[b] \in {vol[b], Due(i, b), Shifted(i)}
    BY <1>2, <1>7, <2>1
  <2>3. \A b \in Blocks : dur'[b] \in {dur[b], vol'[b]}
    BY <1>7 DEF DaemonKeeps
  <2> QED BY <1>5, <1>7, <2>2, <2>3
<1> QED BY <1>6, <1>7 DEF Serve, p

LEMMA SubmitSound ==
  ASSUME DataInv, SoundInv, NEW i \in Ids, NEW c \in Bios, Submit(i, c)
  PROVE  SoundInv'
<1> DEFINE r == [Idle EXCEPT !.st = FirstStep(c), !.op = c.op, !.off = c.off, !.len = c.len, !.fl = c.fl, !.zs = c.zs]
<1>1. io[i] = Idle /\ io' = [io EXCEPT ![i] = r] /\ UNCHANGED <<path, pieces, vol, dur, eof>>
  BY DEF Submit, conf, store
<1>2. c.len \in Nat /\ (path # "daemon" => c.zs = {})
  BY NumbersOK DEF Bios
<1>3. r.k = 0 /\ r.len = c.len /\ r.zs = c.zs
  BY DEF Idle
<1> HIDE DEF r
<1>4. io[i].st = "none"
  BY <1>1 DEF Idle
<1>5. IOInv(i) /\ io \in [Ids -> Bodies] /\ vol \in [Blocks -> Contents] /\ dur \in [Blocks -> Contents]
  BY DEF DataInv, Types
<1>6. pieces[i] = {} /\ ~Wrote(i)
  BY <1>4, <1>5 DEF IOInv, BioOK
<1>7. io'[i] = r /\ \A j \in Ids \ {i} : io'[j] = io[j]
  BY <1>1, <1>5
<1>8. ASSUME NEW b \in Blocks, NEW a \in Contents, a[1] # i, Carries(b, a) PROVE Carries(b, a)'
  <2>1. a[1] # 0 => a[1] \in Ids \ {i}
    BY <1>8, NumbersOK DEF Contents, Ids
  <2> QED BY <1>7, <1>8, <2>1 DEF Carries
<1>9. ASSUME NEW b \in Blocks PROVE Carries(b, vol[b])' /\ Carries(b, dur[b])'
  <2>1. PICK x \in Contents : x = vol[b] /\ Carries(b, x) /\ x[1] # i
    BY <1>5, <1>6 DEF SoundInv, Wrote
  <2>2. PICK y \in Contents : y = dur[b] /\ Carries(b, y) /\ y[1] # i
    BY <1>5, <1>6 DEF SoundInv, Wrote
  <2>3. Carries(b, x)' /\ Carries(b, y)' /\ vol'[b] = x /\ dur'[b] = y
    BY <1>1, <1>8, <2>1, <2>2
  <2> QED BY <2>3 DEF Carries
<1>10. ASSUME NEW j \in Ids PROVE BioSound(j)'
  <2>1. BioSound(j)
    BY DEF SoundInv
  <2>2. CASE j = i
    BY <1>1, <1>2, <1>3, <1>6, <1>7, <2>2 DEF BioSound
  <2>3. CASE j # i
    BY <1>1, <1>7, <2>1, <2>3 DEF BioSound
  <2> QED BY <2>2, <2>3
<1> QED BY <1>1, <1>9, <1>10 DEF SoundInv

\* A step that moves nothing but contents from the page cache to the medium, or
\* back in a crash, and ends bios.
LEMMA MachineSound ==
  ASSUME DataInv, SoundInv, UNCHANGED <<path, eof>>,
         \A i \in Ids : /\ SameBio(io[i], io'[i]) /\ io'[i].zs = io[i].zs /\ io'[i].k = io[i].k
                        /\ pieces'[i] \subseteq pieces[i],
         \A b \in Blocks : {vol'[b], dur'[b]} \subseteq {vol[b], dur[b]}
  PROVE  SoundInv'
<1>1. vol \in [Blocks -> Contents] /\ dur \in [Blocks -> Contents]
  BY DEF DataInv, Types
<1>2. ASSUME NEW b \in Blocks, NEW c \in Contents, Carries(b, c) PROVE Carries(b, c)'
  <2>1. c[1] # 0 => c[1] \in Ids
    BY NumbersOK DEF Contents, Ids
  <2> QED BY <1>2, <2>1 DEF Carries, SameBio
<1>3. ASSUME NEW b \in Blocks PROVE Carries(b, vol[b])' /\ Carries(b, dur[b])'
  <2>1. \A c \in {vol[b], dur[b]} : c \in Contents /\ Carries(b, c)
    BY <1>1 DEF SoundInv
  <2>2. PICK x \in {vol[b], dur[b]} : x = vol'[b]
    OBVIOUS
  <2>3. PICK y \in {vol[b], dur[b]} : y = dur'[b]
    OBVIOUS
  <2>4. Carries(b, x)' /\ Carries(b, y)'
    BY <1>2, <2>1, <2>2, <2>3
  <2> QED BY <2>2, <2>3, <2>4 DEF Carries
<1>4. ASSUME NEW i \in Ids PROVE BioSound(i)'
  <2>1. BioSound(i) /\ Span(io[i])' = Span(io[i])
    BY DEF SoundInv, SameBio, Span
  <2> QED BY <2>1 DEF BioSound, PartOf, SameBio
<1> QED BY <1>3, <1>4 DEF SoundInv

LEMMA SoundKept ==
  ASSUME DataInv, SoundInv, [Next]_vars
  PROVE  SoundInv'
<1>0. io \in [Ids -> Bodies] /\ dur \in [Blocks -> Contents]
  BY DEF DataInv, Types
<1>1. ASSUME NEW i \in Ids, NEW c \in Bios, Submit(i, c) PROVE SoundInv'
  BY <1>1, SubmitSound
<1>2. ASSUME NEW i \in Ids, Flush(i) \/ WriteSegment(i) \/ ReadSegment(i) \/ Discard(i) \/ Send(i) PROVE SoundInv'
  BY <1>2, FlushSound, WriteSegmentSound, ReadSegmentSound, DiscardSound, SendSound
<1>3. ASSUME NEW i \in Ids, NEW q \in pieces[i], Serve(i, q) PROVE SoundInv'
  BY <1>3, ServeSound
<1>4. ASSUME NEW b \in Blocks, Writeback(b) PROVE SoundInv'
  <2>1. UNCHANGED <<path, eof, io, pieces, vol>> /\ dur' = [dur EXCEPT ![b] = vol[b]]
    BY <1>4 DEF Writeback, conf
  <2>2. \A a \in Blocks : {vol'[a], dur'[a]} \subseteq {vol[a], dur[a]}
    BY <1>0, <2>1
  <2> QED BY <2>1, <2>2, MachineSound DEF SameBio
<1>5. ASSUME Crash PROVE SoundInv'
  <2>1. /\ UNCHANGED <<path, eof, dur>> /\ vol' = dur /\ pieces' = [i \in Ids |-> {}]
        /\ io' = [i \in Ids |-> IF io[i] = Idle \/ i \in Ended THEN io[i] ELSE [io[i] EXCEPT !.st = "gone"]]
    BY <1>5 DEF Crash, conf
  <2>2. ASSUME NEW i \in Ids
        PROVE  SameBio(io[i], io'[i]) /\ io'[i].zs = io[i].zs /\ io'[i].k = io[i].k /\ pieces'[i] \subseteq pieces[i]
    <3>1. io'[i] = io[i] \/ io'[i] = [io[i] EXCEPT !.st = "gone"]
      BY <2>1
    <3>2. io[i] \in Bodies
      BY <1>0
    <3> QED BY <2>1, <3>1, <3>2 DEF SameBio, Bodies
  <2>3. \A b \in Blocks : {vol'[b], dur'[b]} \subseteq {vol[b], dur[b]}
    BY <2>1
  <2> QED BY <2>1, <2>2, <2>3, MachineSound
<1>6. ASSUME UNCHANGED vars PROVE SoundInv'
  <2>1. UNCHANGED <<path, eof, io, pieces, vol, dur>>
    BY <1>6 DEF vars, conf, store
  <2> QED BY <2>1, MachineSound DEF SameBio
<1>7. ASSUME DetectStore PROVE SoundInv'
  <2>1. UNCHANGED <<path, eof, io, pieces, vol, dur>>
    BY <1>7 DEF DetectStore, store
  <2> QED BY <2>1, MachineSound DEF SameBio
<1> QED BY <1>1, <1>2, <1>3, <1>4, <1>5, <1>6, <1>7 DEF Next

LEMMA SoundAlways == Spec => []SoundInv
<1>1. DataInv /\ SoundInv /\ [Next]_vars => SoundInv'
  BY SoundKept
<1> QED BY <1>1, SoundInitial, DataAlways, PTL DEF Spec

\* What is in the page cache and on the medium is what the bios carried, whole and
\* in place, and no bio or request reaches beyond its blocks: for devices, splits
\* and transfers of any size, except where a part of an iovec array ended inside
\* a segment.
THEOREM StorageSafe == Spec => []StorageSound
<1>1. DataInv /\ SoundInv => StorageSound
  <2> SUFFICES ASSUME DataInv, SoundInv PROVE StorageSound
    OBVIOUS
  <2>1. ContentRight
    BY DEF SoundInv, Carries, ContentRight
  <2>2. /\ vol \in [Blocks -> Contents] /\ dur \in [Blocks -> Contents] /\ eof \in 0 .. NBlocks
        /\ safe \subseteq Ids /\ acked \subseteq Ids
    BY DEF DataInv, Types, SoundInv
  <2>3. ASSUME NEW i \in Ids
        PROVE  /\ io[i].st \in {"none", "preflush", "data", "flush", "send", "sent", "ok", "err", "gone"}
               /\ io[i].k \in 0 .. io[i].len
               /\ \A p \in pieces[i] : p.len <= io[i].len /\ Span(p) \subseteq Span(io[i])
               /\ pieces[i] # {} => io[i].st = "sent"
    <3>1. io[i] \in Bodies /\ BioOK(i) /\ BioSound(i)
      BY DEF DataInv, Types, IOInv, SoundInv
    <3>2. io[i].k \in Nat /\ io[i].len \in Nat /\ io[i].k <= io[i].len
      BY <3>1, BodyNumbers DEF BioSound
    <3>3. io[i].k \in 0 .. io[i].len
      BY <3>2
    <3> QED BY <3>1, <3>3 DEF Bodies, BioOK, BioSound, PartOf
  <2> QED BY <2>1, <2>2, <2>3 DEF StorageSound, TypeOK
<1> QED BY <1>1, DataAlways, SoundAlways, PTL

================================================================================
