----------------------------- MODULE FuseIdsProofs -----------------------------
(***************************************************************************)
(* Proofs about the id allocator, for any number of CPUs, requests, ids    *)
(* and generations.                                                        *)
(***************************************************************************)
EXTENDS FuseIds, FiniteSetTheorems, TLAPS

\* What the two halves of a stack contain.
LEMMA TopBelow ==
  ASSUME NEW S, NEW q \in Seq(S), NEW n \in 0 .. Len(q)
  PROVE  /\ TopIds(q, n) \in Seq(S) /\ Len(TopIds(q, n)) = n
         /\ \A k \in 1 .. n : TopIds(q, n)[k] = q[Len(q) - n + k]
         /\ Below(q, n) \in Seq(S) /\ Len(Below(q, n)) = Len(q) - n
         /\ \A k \in 1 .. Len(q) - n : Below(q, n)[k] = q[k]
<1>1. /\ TopIds(q, n) \in Seq(S) /\ Len(TopIds(q, n)) = n
      /\ \A k \in 1 .. n : TopIds(q, n)[k] = q[Len(q) - n + k]
  BY DEF TopIds
<1>2. /\ Below(q, n) \in Seq(S) /\ Len(Below(q, n)) = Len(q) - n
      /\ \A k \in 1 .. Len(q) - n : Below(q, n)[k] = q[k]
  BY DEF Below
<1> QED BY <1>1, <1>2

\* Cutting a stack splits its indexes.
LEMMA SplitIdx ==
  ASSUME NEW q \in Seq(Uid), NEW n \in 0 .. Len(q), OneSlotEach(q)
  PROVE  /\ OneSlotEach(TopIds(q, n)) /\ OneSlotEach(Below(q, n))
         /\ IdxOf(TopIds(q, n)) \union IdxOf(Below(q, n)) = IdxOf(q)
         /\ IdxOf(TopIds(q, n)) \intersect IdxOf(Below(q, n)) = {}
<1> DEFINE top == TopIds(q, n)
           low == Below(q, n)
<1>1. /\ top \in Seq(Uid) /\ Len(top) = n
      /\ \A k \in 1 .. n : top[k] = q[Len(q) - n + k]
      /\ low \in Seq(Uid) /\ Len(low) = Len(q) - n
      /\ \A k \in 1 .. Len(q) - n : low[k] = q[k]
  BY TopBelow
<1> HIDE DEF top, low
<1>2. DOMAIN q = 1 .. Len(q) /\ DOMAIN top = 1 .. n /\ DOMAIN low = 1 .. Len(q) - n
  BY <1>1
<1>3. OneSlotEach(top) /\ OneSlotEach(low)
  <2>1. \A j \in 1 .. n : Len(q) - n + j \in DOMAIN q /\ top[j] = q[Len(q) - n + j]
    BY <1>1, <1>2
  <2>2. \A j \in 1 .. Len(q) - n : j \in DOMAIN q /\ low[j] = q[j]
    BY <1>1, <1>2
  <2>3. ASSUME NEW j \in 1 .. n, NEW k \in 1 .. n, top[j].idx = top[k].idx
        PROVE  j = k
    <3>1. Len(q) - n + j = Len(q) - n + k
      BY <2>1, <2>3 DEF OneSlotEach
    <3> QED BY <3>1
  <2>4. ASSUME NEW j \in 1 .. Len(q) - n, NEW k \in 1 .. Len(q) - n, low[j].idx = low[k].idx
        PROVE  j = k
    BY <2>2, <2>4 DEF OneSlotEach
  <2> QED BY <1>2, <2>3, <2>4 DEF OneSlotEach
<1>4. ASSUME NEW k \in DOMAIN q
      PROVE  q[k].idx \in IdxOf(top) \union IdxOf(low)
  <2>1. CASE k <= Len(q) - n
    BY <1>1, <1>2, <2>1 DEF IdxOf
  <2>2. CASE k > Len(q) - n
    <3>1. k - (Len(q) - n) \in DOMAIN top /\ top[k - (Len(q) - n)] = q[k]
      BY <1>1, <1>2, <2>2
    <3> QED BY <3>1 DEF IdxOf
  <2> QED BY <1>2, <2>1, <2>2
<1>8. \A j \in DOMAIN top : Len(q) - n + j \in DOMAIN q /\ top[j] = q[Len(q) - n + j]
  BY <1>1, <1>2
<1>9. \A j \in DOMAIN low : j \in DOMAIN q /\ low[j] = q[j]
  BY <1>1, <1>2
<1>5. IdxOf(top) \subseteq IdxOf(q) /\ IdxOf(low) \subseteq IdxOf(q)
  BY <1>8, <1>9 DEF IdxOf
<1>6. IdxOf(top) \intersect IdxOf(low) = {}
  <2>1. ASSUME NEW j \in DOMAIN top, NEW k \in DOMAIN low, top[j].idx = low[k].idx
        PROVE  FALSE
    <3>1. Len(q) - n + j = k
      BY <1>8, <1>9, <2>1 DEF OneSlotEach
    <3> QED BY <1>2, <3>1
  <2> QED BY <2>1 DEF IdxOf
<1>7. IdxOf(q) \subseteq IdxOf(top) \union IdxOf(low)
  BY <1>4 DEF IdxOf
<1> QED BY <1>3, <1>5, <1>6, <1>7 DEF top, low

\* The top of a stack.
LEMMA TopIdx ==
  ASSUME NEW q \in Seq(Uid), q # <<>>, OneSlotEach(q)
  PROVE  /\ q[Len(q)] \in Uid /\ Below(q, 1) \in Seq(Uid) /\ Len(Below(q, 1)) = Len(q) - 1
         /\ OneSlotEach(Below(q, 1))
         /\ IdxOf(q) = IdxOf(Below(q, 1)) \union {q[Len(q)].idx}
         /\ q[Len(q)].idx \notin IdxOf(Below(q, 1))
<1>1. Len(q) \in Nat /\ Len(q) >= 1 /\ 1 \in 0 .. Len(q)
  OBVIOUS
<1>2. /\ TopIds(q, 1) \in Seq(Uid) /\ Len(TopIds(q, 1)) = 1
      /\ TopIds(q, 1)[1] = q[Len(q)]
      /\ Below(q, 1) \in Seq(Uid) /\ Len(Below(q, 1)) = Len(q) - 1
  <2>1. /\ TopIds(q, 1) \in Seq(Uid) /\ Len(TopIds(q, 1)) = 1
        /\ \A k \in 1 .. 1 : TopIds(q, 1)[k] = q[Len(q) - 1 + k]
        /\ Below(q, 1) \in Seq(Uid) /\ Len(Below(q, 1)) = Len(q) - 1
    BY <1>1, TopBelow, Zenon
  <2>2. 1 \in 1 .. 1 /\ Len(q) - 1 + 1 = Len(q)
    BY <1>1
  <2> QED BY <2>1, <2>2
<1>3. IdxOf(TopIds(q, 1)) = {q[Len(q)].idx}
  BY <1>2 DEF IdxOf
<1> QED BY <1>1, <1>2, <1>3, SplitIdx

\* Putting ids on a stack.
LEMMA ConcatIdx ==
  ASSUME NEW p \in Seq(Uid), NEW q \in Seq(Uid)
  PROVE  /\ p \o q \in Seq(Uid) /\ Len(p \o q) = Len(p) + Len(q)
         /\ IdxOf(p \o q) = IdxOf(p) \union IdxOf(q)
         /\ (OneSlotEach(p) /\ OneSlotEach(q) /\ IdxOf(p) \intersect IdxOf(q) = {})
              => OneSlotEach(p \o q)
<1>1. /\ p \o q \in Seq(Uid) /\ Len(p \o q) = Len(p) + Len(q)
      /\ Len(p) \in Nat /\ Len(q) \in Nat
      /\ DOMAIN p = 1 .. Len(p) /\ DOMAIN q = 1 .. Len(q)
      /\ DOMAIN (p \o q) = 1 .. Len(p) + Len(q)
  OBVIOUS
<1>2. /\ \A k \in 1 .. Len(p) : (p \o q)[k] = p[k]
      /\ \A k \in 1 .. Len(q) : (p \o q)[Len(p) + k] = q[k]
      /\ \A k \in 1 .. Len(p) + Len(q) :
           k > Len(p) => k - Len(p) \in 1 .. Len(q) /\ (p \o q)[k] = q[k - Len(p)]
  OBVIOUS
<1>3. IdxOf(p) \subseteq IdxOf(p \o q)
  BY <1>1, <1>2 DEF IdxOf
<1>4. IdxOf(q) \subseteq IdxOf(p \o q)
  <2>1. \A k \in DOMAIN q : Len(p) + k \in DOMAIN (p \o q) /\ (p \o q)[Len(p) + k] = q[k]
    BY <1>1, <1>2
  <2> QED BY <2>1 DEF IdxOf
<1>5. IdxOf(p \o q) \subseteq IdxOf(p) \union IdxOf(q)
  <2>1. \A k \in DOMAIN (p \o q) : \/ k \in DOMAIN p /\ (p \o q)[k] = p[k]
                                   \/ k - Len(p) \in DOMAIN q /\ (p \o q)[k] = q[k - Len(p)]
    BY <1>1, <1>2
  <2> QED BY <2>1 DEF IdxOf
<1>6. ASSUME OneSlotEach(p), OneSlotEach(q), IdxOf(p) \intersect IdxOf(q) = {}
      PROVE  OneSlotEach(p \o q)
  <2>1. \A j \in DOMAIN p, k \in DOMAIN q : p[j].idx # q[k].idx
    BY <1>6 DEF IdxOf
  <2> QED BY <1>1, <1>2, <1>6, <2>1 DEF OneSlotEach
<1> QED BY <1>1, <1>3, <1>4, <1>5, <1>6

LEMMA AppendIdx ==
  ASSUME NEW q \in Seq(Uid), NEW u \in Uid
  PROVE  /\ Append(q, u) \in Seq(Uid) /\ Len(Append(q, u)) = Len(q) + 1
         /\ IdxOf(Append(q, u)) = IdxOf(q) \union {u.idx}
         /\ (OneSlotEach(q) /\ u.idx \notin IdxOf(q)) => OneSlotEach(Append(q, u))
<1>1. /\ Append(q, u) \in Seq(Uid) /\ Len(Append(q, u)) = Len(q) + 1 /\ Len(q) \in Nat
      /\ DOMAIN q = 1 .. Len(q) /\ DOMAIN Append(q, u) = 1 .. Len(q) + 1
      /\ \A k \in 1 .. Len(q) : Append(q, u)[k] = q[k]
      /\ Append(q, u)[Len(q) + 1] = u
  OBVIOUS
<1>2. IdxOf(Append(q, u)) = IdxOf(q) \union {u.idx}
  <2>1. IdxOf(q) \union {u.idx} \subseteq IdxOf(Append(q, u))
    BY <1>1 DEF IdxOf
  <2>2. IdxOf(Append(q, u)) \subseteq IdxOf(q) \union {u.idx}
    <3>1. \A k \in DOMAIN Append(q, u) : (k \in DOMAIN q /\ Append(q, u)[k] = q[k]) \/ Append(q, u)[k] = u
      BY <1>1
    <3> QED BY <3>1 DEF IdxOf
  <2> QED BY <2>1, <2>2
<1>3. ASSUME OneSlotEach(q), u.idx \notin IdxOf(q)
      PROVE  OneSlotEach(Append(q, u))
  <2>1. \A k \in DOMAIN q : q[k].idx # u.idx
    BY <1>3 DEF IdxOf
  <2> QED BY <1>1, <1>3, <2>1 DEF OneSlotEach
<1> QED BY <1>1, <1>2, <1>3

\* The generation step keeps the index and never yields zero.
LEMMA NextUidSound ==
  ASSUME NEW u \in Uid
  PROVE  NextUid(u) \in Uid /\ NextUid(u).idx = u.idx /\ NextUid(u) # ZeroUid
BY IdsAssumption DEF NextUid, Uid, Idx, ZeroUid

--------------------------------------------------------------------------------
\* The map slot of a request in flight holds the request.
MapExact == \A r \in Reqs : pc[r] = "sent" => request_map[unique[r].idx] = r

\* The inductive invariant.  IdsDisjoint alone is not inductive: that the
\* late clearing of a slot hits nobody needs the slot's id to be on the
\* clearing CPU's own stack.
IdsInv ==
  TypeOK /\ IdsDisjoint /\ NoIdLost /\ ClearingIsMine /\ MapExact /\ NeverZero

LEMMA HalfFacts == Half \in Nat /\ Half >= 1 /\ Half + Half = PerCpu
BY IdsAssumption DEF Half

LEMMA InitInv == Init => IdsInv
<1> SUFFICES ASSUME Init PROVE IdsInv
  OBVIOUS
<1> USE IdsAssumption DEF Init
<1>1. TypeOK
  BY DEF TypeOK, Uid, Idx, ZeroUid
<1>2. DOMAIN free_ids = 1 .. NumIds /\ \A k \in 1 .. NumIds : free_ids[k].idx = NumIds - k
  OBVIOUS
<1>3. FreeDistinct
  <2>1. ASSUME NEW j \in 1 .. NumIds, NEW k \in 1 .. NumIds, NumIds - j = NumIds - k
        PROVE  j = k
    BY <2>1
  <2>2. OneSlotEach(free_ids)
    BY <1>2, <2>1 DEF OneSlotEach
  <2>3. \A c \in CPUs : cpu_ids[c] = <<>>
    OBVIOUS
  <2>4. OneSlotEach(<<>>) /\ IdxOf(<<>>) = {}
    BY DEF OneSlotEach, IdxOf
  <2> QED BY <2>2, <2>3, <2>4 DEF FreeDistinct, OnCpu, OnGlobal
<1>4. Held = {} /\ HeldIdx = {}
  BY DEF Held, HeldIdx
<1>5. HeldDistinct /\ HeldNotFree /\ NeverZero
  BY <1>4 DEF HeldDistinct, HeldNotFree, NeverZero
<1>6. ClearingIsMine /\ MapExact
  BY DEF ClearingIsMine, MapExact
<1>7. NoIdLost
  <2>1. \A i \in Idx : NumIds - i \in 1 .. NumIds /\ NumIds - (NumIds - i) = i
    BY DEF Idx
  <2>2. OnGlobal = Idx
    <3>1. ASSUME NEW i \in Idx PROVE i \in OnGlobal
      <4>1. NumIds - i \in DOMAIN free_ids /\ free_ids[NumIds - i].idx = i
        BY <1>2, <2>1
      <4> QED BY <4>1 DEF OnGlobal, IdxOf
    <3>2. \A k \in 1 .. NumIds : NumIds - k \in Idx
      BY DEF Idx
    <3>3. OnGlobal \subseteq Idx
      BY <1>2, <3>2 DEF OnGlobal, IdxOf
    <3> QED BY <3>1, <3>3
  <2>3. \A c \in CPUs : OnCpu(c) = {}
    BY DEF OnCpu, IdxOf
  <2> QED BY <1>4, <2>2, <2>3 DEF NoIdLost
<1> QED BY <1>1, <1>3, <1>5, <1>6, <1>7 DEF IdsInv, IdsDisjoint

--------------------------------------------------------------------------------
(***************************************************************************)
(* What an allocation and a return do to the stacks, in terms of indexes.  *)
(***************************************************************************)
Restacked(c) ==
  /\ free_ids' \in Seq(Uid) /\ OneSlotEach(free_ids')
  /\ cpu_ids' \in [CPUs -> Seq(Uid)]
  /\ Len(cpu_ids'[c]) <= PerCpu /\ OneSlotEach(cpu_ids'[c])
  /\ \A d \in CPUs \ {c} : cpu_ids'[d] = cpu_ids[d]
  /\ IdxOf(free_ids') \intersect IdxOf(cpu_ids'[c]) = {}

Taken(c, u) ==
  /\ Restacked(c)
  /\ u.idx \notin IdxOf(free_ids') \union IdxOf(cpu_ids'[c])
  /\ IdxOf(free_ids) \union IdxOf(cpu_ids[c])
       = {u.idx} \union IdxOf(free_ids') \union IdxOf(cpu_ids'[c])

Returned(c, u) ==
  /\ Restacked(c)
  /\ u.idx \in IdxOf(cpu_ids'[c])
  /\ IdxOf(free_ids') \union IdxOf(cpu_ids'[c])
       = {u.idx} \union IdxOf(free_ids) \union IdxOf(cpu_ids[c])

\* fuse_get_unique takes one index off the stacks, refill included.
LEMMA TakenFacts ==
  ASSUME TypeOK, FreeDistinct, NEW c \in CPUs, NEW r \in Reqs, GetUnique(c, r)
  PROVE  \E u \in Uid : Taken(c, u) /\ unique' = [unique EXCEPT ![r] = NextUid(u)]
<1> DEFINE q == cpu_ids[c]
<1>0. /\ q \in Seq(Uid) /\ Len(q) <= PerCpu /\ OneSlotEach(q) /\ free_ids \in Seq(Uid)
      /\ OneSlotEach(free_ids) /\ IdxOf(q) \intersect IdxOf(free_ids) = {}
  BY DEF TypeOK, FreeDistinct, OnCpu, OnGlobal
<1>1. CASE q # <<>> /\ TakeId(c, r, q) /\ UNCHANGED free_ids
  <2> HIDE DEF q
  <2>1. /\ q[Len(q)] \in Uid /\ Below(q, 1) \in Seq(Uid) /\ Len(Below(q, 1)) = Len(q) - 1
        /\ OneSlotEach(Below(q, 1))
        /\ IdxOf(q) = IdxOf(Below(q, 1)) \union {q[Len(q)].idx}
        /\ q[Len(q)].idx \notin IdxOf(Below(q, 1))
    BY <1>0, <1>1, TopIdx
  <2>2. /\ cpu_ids' = [cpu_ids EXCEPT ![c] = Below(q, 1)]
        /\ cpu_ids'[c] = Below(q, 1) /\ cpu_ids' \in [CPUs -> Seq(Uid)]
        /\ \A d \in CPUs \ {c} : cpu_ids'[d] = cpu_ids[d]
    BY <1>1, <2>1 DEF TakeId, TypeOK
  <2>3. Len(Below(q, 1)) <= PerCpu
    BY <1>0, <2>1, IdsAssumption
  <2>4. Restacked(c)
    BY <1>0, <1>1, <2>1, <2>2, <2>3 DEF Restacked
  <2>5. Taken(c, q[Len(q)])
    BY <1>0, <1>1, <2>1, <2>2, <2>4 DEF Taken, q
  <2> QED BY <1>1, <2>1, <2>5 DEF TakeId
<1>2. CASE /\ q = <<>> /\ free_ids # <<>>
           /\ TakeId(c, r, TopIds(free_ids, NumAlloc))
           /\ free_ids' = Below(free_ids, NumAlloc)
  <2> DEFINE n == NumAlloc
             t == TopIds(free_ids, n)
             f == Below(free_ids, n)
  <2>1. n \in 0 .. Len(free_ids) /\ n >= 1 /\ n <= PerCpu
    BY <1>0, <1>2, HalfFacts, IdsAssumption DEF NumAlloc
  <2> HIDE DEF n
  <2>2. /\ t \in Seq(Uid) /\ Len(t) = n /\ f \in Seq(Uid)
    BY <1>0, <2>1, TopBelow, Zenon
  <2>3. /\ OneSlotEach(t) /\ OneSlotEach(f)
        /\ IdxOf(t) \union IdxOf(f) = IdxOf(free_ids)
        /\ IdxOf(t) \intersect IdxOf(f) = {}
    BY <1>0, <2>1, SplitIdx
  <2>4. TakeId(c, r, t) /\ free_ids' = f
    BY <1>2 DEF n
  <2> HIDE DEF t, f
  <2>5. t # <<>>
    BY <2>1, <2>2
  <2>6. /\ t[Len(t)] \in Uid /\ Below(t, 1) \in Seq(Uid) /\ Len(Below(t, 1)) = Len(t) - 1
        /\ OneSlotEach(Below(t, 1))
        /\ IdxOf(t) = IdxOf(Below(t, 1)) \union {t[Len(t)].idx}
        /\ t[Len(t)].idx \notin IdxOf(Below(t, 1))
    BY <2>2, <2>3, <2>5, TopIdx
  <2>7. /\ cpu_ids'[c] = Below(t, 1) /\ cpu_ids' \in [CPUs -> Seq(Uid)]
        /\ \A d \in CPUs \ {c} : cpu_ids'[d] = cpu_ids[d]
    BY <2>4, <2>6 DEF TakeId, TypeOK
  <2>8. Len(Below(t, 1)) <= PerCpu
    BY <2>1, <2>2, <2>6, IdsAssumption
  <2>9. Restacked(c)
    BY <2>2, <2>3, <2>4, <2>6, <2>7, <2>8 DEF Restacked
  <2>10. IdxOf(cpu_ids[c]) = {}
    BY <1>2 DEF IdxOf
  <2>11. Taken(c, t[Len(t)])
    BY <2>3, <2>4, <2>6, <2>7, <2>9, <2>10 DEF Taken
  <2> QED BY <2>4, <2>6, <2>11 DEF TakeId
<1> QED BY <1>1, <1>2 DEF GetUnique

\* fuse_put_unique puts one index on the stacks, spill included.
LEMMA ReturnedFacts ==
  ASSUME TypeOK, FreeDistinct, HeldNotFree, NEW c \in CPUs, NEW u \in ending, PutUnique(c, u)
  PROVE  Returned(c, u)
<1> DEFINE q == cpu_ids[c]
<1>0. /\ q \in Seq(Uid) /\ Len(q) <= PerCpu /\ OneSlotEach(q) /\ free_ids \in Seq(Uid)
      /\ OneSlotEach(free_ids) /\ IdxOf(q) \intersect IdxOf(free_ids) = {}
      /\ u \in Uid
  BY DEF TypeOK, FreeDistinct, OnCpu, OnGlobal
<1>1. u.idx \notin IdxOf(q) /\ u.idx \notin IdxOf(free_ids)
  BY DEF HeldNotFree, HeldIdx, OnCpu, OnGlobal
<1>2. CASE /\ Len(q) < PerCpu
           /\ cpu_ids' = [cpu_ids EXCEPT ![c] = Append(q, u)] /\ UNCHANGED free_ids
  <2> HIDE DEF q
  <2>1. /\ Append(q, u) \in Seq(Uid) /\ Len(Append(q, u)) = Len(q) + 1
        /\ IdxOf(Append(q, u)) = IdxOf(q) \union {u.idx}
        /\ OneSlotEach(Append(q, u))
    BY <1>0, <1>1, AppendIdx
  <2>2. Len(Append(q, u)) <= PerCpu
    BY <1>0, <1>2, <2>1, IdsAssumption
  <2>3. /\ cpu_ids'[c] = Append(q, u) /\ cpu_ids' \in [CPUs -> Seq(Uid)]
        /\ \A d \in CPUs \ {c} : cpu_ids'[d] = cpu_ids[d]
    BY <1>2, <2>1 DEF TypeOK
  <2>4. Restacked(c)
    BY <1>0, <1>1, <1>2, <2>1, <2>2, <2>3 DEF Restacked
  <2> QED BY <1>2, <2>1, <2>3, <2>4 DEF Returned, q
<1>3. CASE /\ Len(q) = PerCpu
           /\ free_ids' = free_ids \o TopIds(q, Half)
           /\ cpu_ids' = [cpu_ids EXCEPT ![c] = Append(Below(q, Half), u)]
  <2> DEFINE t == TopIds(q, Half)
             b == Below(q, Half)
  <2> HIDE DEF q
  <2>1. Half \in 0 .. Len(q)
    BY <1>3, HalfFacts, IdsAssumption
  <2>2. t \in Seq(Uid) /\ b \in Seq(Uid) /\ Len(b) = Len(q) - Half
    BY <1>0, <2>1, TopBelow, Zenon
  <2>3. /\ OneSlotEach(t) /\ OneSlotEach(b)
        /\ IdxOf(t) \union IdxOf(b) = IdxOf(q)
        /\ IdxOf(t) \intersect IdxOf(b) = {}
    BY <1>0, <2>1, SplitIdx
  <2>4. free_ids' = free_ids \o t /\ cpu_ids' = [cpu_ids EXCEPT ![c] = Append(b, u)]
    BY <1>3
  <2> HIDE DEF t, b
  <2>5. /\ free_ids' \in Seq(Uid) /\ OneSlotEach(free_ids')
        /\ IdxOf(free_ids') = IdxOf(free_ids) \union IdxOf(t)
    <3>1. IdxOf(free_ids) \intersect IdxOf(t) = {}
      BY <1>0, <2>3
    <3> QED BY <1>0, <2>2, <2>3, <2>4, <3>1, ConcatIdx
  <2>6. /\ Append(b, u) \in Seq(Uid) /\ Len(Append(b, u)) = Len(b) + 1
        /\ IdxOf(Append(b, u)) = IdxOf(b) \union {u.idx}
        /\ OneSlotEach(Append(b, u))
    <3>1. u.idx \notin IdxOf(b)
      BY <1>1, <2>3
    <3> QED BY <1>0, <2>2, <2>3, <3>1, AppendIdx
  <2>7. Len(Append(b, u)) <= PerCpu
    BY <1>3, <2>2, <2>6, HalfFacts, IdsAssumption
  <2>8. /\ cpu_ids'[c] = Append(b, u) /\ cpu_ids' \in [CPUs -> Seq(Uid)]
        /\ \A d \in CPUs \ {c} : cpu_ids'[d] = cpu_ids[d]
    BY <2>4, <2>6 DEF TypeOK
  <2>9. IdxOf(free_ids') \intersect IdxOf(Append(b, u)) = {}
    BY <1>0, <1>1, <2>3, <2>5, <2>6
  <2>10. Restacked(c)
    BY <2>5, <2>6, <2>7, <2>8, <2>9 DEF Restacked
  <2> QED BY <2>3, <2>5, <2>6, <2>8, <2>10 DEF Returned, q
<1> QED BY <1>2, <1>3 DEF PutUnique

\* Restacking keeps the free ids apart when what is added was on no other CPU.
LEMMA RestackedDistinct ==
  ASSUME TypeOK, FreeDistinct, NEW c \in CPUs, Restacked(c), NEW X,
         IdxOf(free_ids') \union IdxOf(cpu_ids'[c])
           \subseteq X \union IdxOf(free_ids) \union IdxOf(cpu_ids[c]),
         \A d \in CPUs \ {c} : X \intersect IdxOf(cpu_ids[d]) = {}
  PROVE  FreeDistinct'
<1>1. \A d \in CPUs \ {c} : /\ cpu_ids'[d] = cpu_ids[d] /\ OneSlotEach(cpu_ids[d])
                            /\ IdxOf(cpu_ids[d]) \intersect IdxOf(free_ids) = {}
                            /\ IdxOf(cpu_ids[d]) \intersect IdxOf(cpu_ids[c]) = {}
  BY DEF Restacked, FreeDistinct, OnCpu, OnGlobal
<1>2. \A d \in CPUs \ {c} : /\ IdxOf(cpu_ids'[d]) \intersect IdxOf(free_ids') = {}
                            /\ IdxOf(cpu_ids'[d]) \intersect IdxOf(cpu_ids'[c]) = {}
  BY <1>1
<1>3. \A d, e \in CPUs \ {c} : d # e => IdxOf(cpu_ids'[d]) \intersect IdxOf(cpu_ids'[e]) = {}
  BY <1>1 DEF FreeDistinct, OnCpu
<1>4. \A d \in CPUs : OneSlotEach(cpu_ids'[d]) /\ IdxOf(cpu_ids'[d]) \intersect IdxOf(free_ids') = {}
  BY <1>1, <1>2 DEF Restacked
<1>5. \A d, e \in CPUs : d # e => IdxOf(cpu_ids'[d]) \intersect IdxOf(cpu_ids'[e]) = {}
  BY <1>2, <1>3
<1> QED BY <1>4, <1>5 DEF FreeDistinct, OnCpu, OnGlobal, Restacked

\* Steps that leave the stacks alone leave what is free alone.
LEMMA SameStacks ==
  ASSUME UNCHANGED stacks
  PROVE  (FreeDistinct' <=> FreeDistinct) /\ OnGlobal' = OnGlobal
         /\ \A c \in CPUs : OnCpu(c)' = OnCpu(c)
BY DEF stacks, FreeDistinct, OnGlobal, OnCpu

--------------------------------------------------------------------------------
(***************************************************************************)
(* One lemma per action: the invariant is kept, and the step is a step of  *)
(* the abstract pool.                                                      *)
(***************************************************************************)
LEMMA GetStep ==
  ASSUME IdsInv, NEW c \in CPUs, NEW r \in Reqs, GetUnique(c, r)
  PROVE  IdsInv' /\ \E i \in Idx, h \in Holders : Pool!Get(i, h)
<1> USE DEF IdsInv, IdsDisjoint
<1>1. PICK u \in Uid : Taken(c, u) /\ unique' = [unique EXCEPT ![r] = NextUid(u)]
  BY TakenFacts
<1> DEFINE v == NextUid(u)
<1>2. v \in Uid /\ v.idx = u.idx /\ v # ZeroUid /\ u.idx \in Idx
  BY NextUidSound DEF Uid
<1> HIDE DEF v
<1>3. /\ pc[r] = "idle" /\ pc' = [pc EXCEPT ![r] = "got"] /\ clearing[c] = {}
      /\ UNCHANGED <<request_map, ending, clearing>>
      /\ unique' = [unique EXCEPT ![r] = v]
  BY <1>1 DEF GetUnique, TakeId, v
<1>4. /\ Held' = Held \union {r} /\ r \notin Held
      /\ unique'[r] = v /\ \A s \in Reqs \ {r} : unique'[s] = unique[s] /\ pc'[s] = pc[s]
  BY <1>3 DEF Held, TypeOK
<1>5. HeldIdx' = HeldIdx \union {u.idx}
  <2>1. \A s \in Held : s # r /\ unique'[s] = unique[s]
    BY <1>4 DEF Held
  <2>2. {unique'[s].idx : s \in Held \union {r}} = {unique[s].idx : s \in Held} \union {v.idx}
    BY <1>4, <2>1
  <2> QED BY <1>2, <1>3, <1>4, <2>2 DEF HeldIdx
<1>6. u.idx \in IdxOf(free_ids) \union IdxOf(cpu_ids[c])
  BY <1>1 DEF Taken
<1>7. u.idx \notin HeldIdx
  BY <1>6 DEF HeldNotFree, OnGlobal, OnCpu
<1>8. TypeOK'
  BY <1>1, <1>2, <1>3 DEF TypeOK, Taken, Restacked
<1>9. FreeDistinct'
  <2>1. /\ IdxOf(free_ids') \union IdxOf(cpu_ids'[c])
             \subseteq {} \union IdxOf(free_ids) \union IdxOf(cpu_ids[c])
        /\ \A d \in CPUs \ {c} : {} \intersect IdxOf(cpu_ids[d]) = {}
    BY <1>1 DEF Taken
  <2>2. Restacked(c)
    BY <1>1 DEF Taken
  <2> QED BY <2>1, <2>2, RestackedDistinct
<1>10. HeldDistinct'
  <2>1. \A s \in Held : unique[s].idx # v.idx
    BY <1>2, <1>7 DEF HeldIdx
  <2>2. \A w \in ending : w.idx # v.idx
    BY <1>2, <1>7 DEF HeldIdx
  <2>3. \A s \in Held : s # r /\ unique'[s] = unique[s]
    BY <1>4 DEF Held
  <2> QED BY <1>3, <1>4, <2>1, <2>2, <2>3 DEF HeldDistinct
<1>11. \A d \in CPUs \ {c} : IdxOf(cpu_ids'[d]) = IdxOf(cpu_ids[d])
  BY <1>1 DEF Taken, Restacked
<1>12. \A d \in CPUs \ {c} : u.idx \notin IdxOf(cpu_ids[d])
  BY <1>6 DEF FreeDistinct, OnCpu, OnGlobal
<1>13. HeldNotFree'
  <2>1. HeldIdx' \intersect IdxOf(free_ids') = {} /\ HeldIdx' \intersect IdxOf(cpu_ids'[c]) = {}
    BY <1>1, <1>5 DEF Taken, HeldNotFree, OnGlobal, OnCpu
  <2>2. \A d \in CPUs \ {c} : HeldIdx' \intersect IdxOf(cpu_ids'[d]) = {}
    BY <1>5, <1>11, <1>12 DEF HeldNotFree, OnCpu
  <2> QED BY <2>1, <2>2 DEF HeldNotFree, OnGlobal, OnCpu
<1>14. NoIdLost'
  <2>1. (UNION {OnCpu(d)' : d \in CPUs}) \union OnGlobal' \union {u.idx}
          = (UNION {OnCpu(d) : d \in CPUs}) \union OnGlobal
    <3>1. OnCpu(c)' \union OnGlobal' \union {u.idx} = OnCpu(c) \union OnGlobal
      BY <1>1 DEF Taken, OnCpu, OnGlobal
    <3>2. \A d \in CPUs \ {c} : OnCpu(d)' = OnCpu(d)
      BY <1>11 DEF OnCpu
    <3> QED BY <3>1, <3>2
  <2> QED BY <1>5, <2>1 DEF NoIdLost
<1>15. ClearingIsMine'
  BY <1>3, <1>11 DEF ClearingIsMine, OnCpu
<1>16. MapExact' /\ NeverZero'
  <2>1. MapExact'
    BY <1>3, <1>4 DEF MapExact, TypeOK
  <2>2. NeverZero'
    BY <1>2, <1>4 DEF NeverZero, Held
  <2> QED BY <2>1, <2>2
<1>17. Pool!Get(u.idx, <<"send", r>>)
  <2>1. HoldersOf(u.idx) = {}
    BY <1>7 DEF HoldersOf, HeldIdx
  <2>2. \A i \in Idx : {q \in Held' : unique'[q].idx = i}
                         = {q \in Held : unique[q].idx = i} \union (IF i = u.idx THEN {r} ELSE {})
    BY <1>2, <1>4 DEF Held
  <2>3. \A i \in Idx \ {u.idx} : HoldersOf(i)' = HoldersOf(i)
    BY <1>3, <2>2 DEF HoldersOf
  <2>4. HoldersOf(u.idx)' = {<<"send", r>>}
    BY <1>2, <1>3, <2>1, <2>2 DEF HoldersOf
  <2> QED BY <1>2, <2>1, <2>3, <2>4 DEF Pool!Get
<1> QED BY <1>2, <1>8, <1>9, <1>10, <1>13, <1>14, <1>15, <1>16, <1>17 DEF Holders

LEMMA MapStep ==
  ASSUME IdsInv, NEW r \in Reqs, MapRequest(r)
  PROVE  IdsInv' /\ \A i \in Idx : HoldersOf(i)' = HoldersOf(i)
<1> USE DEF IdsInv, IdsDisjoint
<1>1. /\ pc[r] = "got" /\ pc' = [pc EXCEPT ![r] = "sent"]
      /\ request_map' = [request_map EXCEPT ![unique[r].idx] = r]
      /\ UNCHANGED <<free_ids, cpu_ids, unique, ending, clearing>>
  BY DEF MapRequest, stacks
<1>2. Held' = Held /\ HeldIdx' = HeldIdx
  BY <1>1 DEF Held, HeldIdx, TypeOK
<1>8. \A i \in Idx : HoldersOf(i)' = HoldersOf(i)
  BY <1>1, <1>2 DEF HoldersOf
<1>3. unique[r].idx \in Idx
  BY DEF TypeOK, Uid
<1>4. TypeOK'
  BY <1>1, <1>3 DEF TypeOK
<1>5. FreeDistinct' /\ OnGlobal' = OnGlobal /\ \A c \in CPUs : OnCpu(c)' = OnCpu(c)
  BY <1>1, SameStacks DEF stacks
<1>6. HeldDistinct' /\ HeldNotFree' /\ NoIdLost' /\ NeverZero' /\ ClearingIsMine'
  BY <1>1, <1>2, <1>5 DEF HeldDistinct, HeldNotFree, NoIdLost, NeverZero, ClearingIsMine
<1>7. MapExact'
  <2> SUFFICES ASSUME NEW s \in Reqs, pc'[s] = "sent"
               PROVE  request_map'[unique[s].idx] = s
    BY <1>1 DEF MapExact
  <2>1. unique[s].idx \in Idx
    BY DEF TypeOK, Uid
  <2>2. CASE s = r
    BY <1>1, <1>3, <2>2 DEF TypeOK
  <2>3. CASE s # r
    <3>1. pc[s] = "sent" /\ s \in Held /\ r \in Held
      BY <1>1, <2>3 DEF Held, TypeOK
    <3>2. unique[s].idx # unique[r].idx
      BY <2>3, <3>1 DEF HeldDistinct
    <3> QED BY <1>1, <2>1, <3>1, <3>2 DEF MapExact, TypeOK
  <2> QED BY <2>2, <2>3
<1> QED BY <1>4, <1>5, <1>6, <1>7, <1>8

LEMMA EndStep ==
  ASSUME IdsInv, NEW r \in Reqs, EndCallback(r)
  PROVE  IdsInv' /\ \E i \in Idx, h \in Holders : Pool!Pass(i, h)
<1> USE DEF IdsInv, IdsDisjoint
<1>1. /\ pc[r] = "sent" /\ pc' = [pc EXCEPT ![r] = "idle"]
      /\ ending' = ending \union {unique[r]}
      /\ UNCHANGED <<free_ids, cpu_ids, request_map, unique, clearing>>
  BY DEF EndCallback, stacks
<1>2. Held' = Held \ {r} /\ r \in Held
  BY <1>1 DEF Held, TypeOK
<1>3. HeldIdx' = HeldIdx
  <2>1. {unique[s].idx : s \in Held} = {unique[s].idx : s \in Held \ {r}} \union {unique[r].idx}
    BY <1>2
  <2>2. {w.idx : w \in ending'} = {w.idx : w \in ending} \union {unique[r].idx}
    BY <1>1
  <2> QED BY <1>1, <1>2, <2>1, <2>2 DEF HeldIdx
<1>4. TypeOK'
  BY <1>1 DEF TypeOK
<1>5. FreeDistinct' /\ OnGlobal' = OnGlobal /\ \A c \in CPUs : OnCpu(c)' = OnCpu(c)
  BY <1>1, SameStacks DEF stacks
<1>6. HeldNotFree' /\ NoIdLost' /\ NeverZero' /\ ClearingIsMine'
  BY <1>1, <1>2, <1>3, <1>5 DEF HeldNotFree, NoIdLost, NeverZero, ClearingIsMine
<1>7. HeldDistinct'
  BY <1>1, <1>2 DEF HeldDistinct
<1>8. MapExact'
  BY <1>1 DEF MapExact, TypeOK
<1>9. unique[r].idx \in Idx /\ <<"end", unique[r]>> \in Holders
  BY DEF TypeOK, Uid, Holders
<1>10. Pool!Pass(unique[r].idx, <<"end", unique[r]>>)
  <2>0. PICK j \in Idx : j = unique[r].idx
    BY <1>9
  <2>1. {q \in Held : unique[q].idx = j} = {r} /\ {v \in ending : v.idx = j} = {}
    BY <1>2, <2>0 DEF HeldDistinct
  <2>2. {q \in Held' : unique'[q].idx = j} = {} /\ {v \in ending' : v.idx = j} = {unique[r]}
    BY <1>1, <1>2, <2>0, <2>1
  <2>3. \A i \in Idx \ {j} : /\ {q \in Held' : unique'[q].idx = i} = {q \in Held : unique[q].idx = i}
                             /\ {v \in ending' : v.idx = i} = {v \in ending : v.idx = i}
    BY <1>1, <1>2, <2>0
  <2>4. HoldersOf(j) # {} /\ HoldersOf(j)' = {<<"end", unique[r]>>}
    <3>1. HoldersOf(j) = {<<"send", q>> : q \in {r}} \union {<<"end", v>> : v \in {}}
      BY <2>1 DEF HoldersOf
    <3>2. HoldersOf(j)' = {<<"send", q>> : q \in {}} \union {<<"end", v>> : v \in {unique[r]}}
      BY <2>2 DEF HoldersOf
    <3>3. <<"send", r>> \in HoldersOf(j)
      BY <3>1
    <3> QED BY <3>2, <3>3
  <2>5. \A i \in Idx \ {j} : HoldersOf(i)' = HoldersOf(i)
    BY <2>3 DEF HoldersOf
  <2> QED BY <2>0, <2>4, <2>5 DEF Pool!Pass
<1> QED BY <1>4, <1>5, <1>6, <1>7, <1>8, <1>9, <1>10

LEMMA PutStep ==
  ASSUME IdsInv, NEW c \in CPUs, NEW u \in ending, PutUnique(c, u)
  PROVE  IdsInv' /\ u.idx \in Idx /\ Pool!Put(u.idx)
<1> USE DEF IdsInv, IdsDisjoint
<1>1. Returned(c, u)
  BY ReturnedFacts
<1>2. /\ ending' = ending \ {u} /\ clearing' = [clearing EXCEPT ![c] = {u.idx}]
      /\ UNCHANGED <<request_map, pc, unique>>
  BY DEF PutUnique
<1>3. u \in Uid /\ u.idx \in Idx /\ u.idx \in HeldIdx
  BY DEF TypeOK, Uid, HeldIdx
<1>4. Held' = Held
  BY <1>2 DEF Held
<1>5. HeldIdx' = HeldIdx \ {u.idx}
  <2>1. \A s \in Held : unique[s].idx # u.idx
    BY DEF HeldDistinct
  <2>2. {w.idx : w \in ending \ {u}} = {w.idx : w \in ending} \ {u.idx}
    BY DEF HeldDistinct
  <2> QED BY <1>2, <1>4, <2>1, <2>2 DEF HeldIdx
<1>6. TypeOK'
  BY <1>1, <1>2, <1>3 DEF TypeOK, Returned, Restacked
<1>7. \A d \in CPUs \ {c} : IdxOf(cpu_ids'[d]) = IdxOf(cpu_ids[d])
  BY <1>1 DEF Returned, Restacked
<1>8. \A d \in CPUs : u.idx \notin IdxOf(cpu_ids[d])
  BY <1>3 DEF HeldNotFree, OnCpu
<1>9. FreeDistinct'
  <2>1. \A d \in CPUs \ {c} : {u.idx} \intersect IdxOf(cpu_ids[d]) = {}
    BY <1>8
  <2> QED BY <1>1, <2>1, RestackedDistinct DEF Returned
<1>10. HeldDistinct' /\ NeverZero' /\ MapExact'
  BY <1>2, <1>4 DEF HeldDistinct, NeverZero, MapExact
<1>11. HeldNotFree'
  <2>1. HeldIdx' \intersect IdxOf(free_ids') = {} /\ HeldIdx' \intersect IdxOf(cpu_ids'[c]) = {}
    BY <1>1, <1>5 DEF Returned, HeldNotFree, OnGlobal, OnCpu
  <2>2. \A d \in CPUs \ {c} : HeldIdx' \intersect IdxOf(cpu_ids'[d]) = {}
    BY <1>5, <1>7 DEF HeldNotFree, OnCpu
  <2> QED BY <2>1, <2>2 DEF HeldNotFree, OnGlobal, OnCpu
<1>12. NoIdLost'
  <2>1. (UNION {OnCpu(d)' : d \in CPUs}) \union OnGlobal'
          = (UNION {OnCpu(d) : d \in CPUs}) \union OnGlobal \union {u.idx}
    <3>1. OnCpu(c)' \union OnGlobal' = OnCpu(c) \union OnGlobal \union {u.idx}
      BY <1>1 DEF Returned, OnCpu, OnGlobal
    <3>2. \A d \in CPUs \ {c} : OnCpu(d)' = OnCpu(d)
      BY <1>7 DEF OnCpu
    <3> QED BY <3>1, <3>2
  <2> QED BY <1>3, <1>5, <2>1 DEF NoIdLost
<1>13. ClearingIsMine'
  <2>1. clearing'[c] \subseteq IdxOf(cpu_ids'[c])
    BY <1>1, <1>2 DEF Returned, TypeOK
  <2>2. \A d \in CPUs \ {c} : clearing'[d] \subseteq IdxOf(cpu_ids'[d])
    BY <1>2, <1>7 DEF ClearingIsMine, OnCpu, TypeOK
  <2> QED BY <2>1, <2>2 DEF ClearingIsMine, OnCpu
<1>14. Pool!Put(u.idx)
  <2>0. PICK j \in Idx : j = u.idx
    BY <1>3
  <2>1. {q \in Held : unique[q].idx = j} = {} /\ {v \in ending : v.idx = j} = {u}
    BY <2>0 DEF HeldDistinct
  <2>2. {q \in Held' : unique'[q].idx = j} = {} /\ {v \in ending' : v.idx = j} = {}
    BY <1>2, <1>4, <2>1
  <2>3. \A i \in Idx \ {j} : /\ {q \in Held' : unique'[q].idx = i} = {q \in Held : unique[q].idx = i}
                             /\ {v \in ending' : v.idx = i} = {v \in ending : v.idx = i}
    BY <1>2, <1>4, <2>0
  <2>4. HoldersOf(j) # {} /\ HoldersOf(j)' = {}
    BY <2>1, <2>2 DEF HoldersOf
  <2>5. \A i \in Idx \ {j} : HoldersOf(i)' = HoldersOf(i)
    BY <2>3 DEF HoldersOf
  <2> QED BY <2>0, <2>4, <2>5 DEF Pool!Put
<1> QED BY <1>3, <1>6, <1>9, <1>10, <1>11, <1>12, <1>13, <1>14

LEMMA ClearStep ==
  ASSUME IdsInv, NEW c \in CPUs, ClearMap(c)
  PROVE  IdsInv' /\ \A i \in Idx : HoldersOf(i)' = HoldersOf(i)
<1> USE DEF IdsInv, IdsDisjoint
<1>1. /\ request_map' = [i \in Idx |-> IF i \in clearing[c] THEN NoReq ELSE request_map[i]]
      /\ clearing' = [clearing EXCEPT ![c] = {}]
      /\ UNCHANGED <<free_ids, cpu_ids, pc, unique, ending>>
  BY DEF ClearMap, stacks
<1>2. Held' = Held /\ HeldIdx' = HeldIdx
  BY <1>1 DEF Held, HeldIdx
<1>8. \A i \in Idx : HoldersOf(i)' = HoldersOf(i)
  BY <1>1, <1>2 DEF HoldersOf
<1>3. TypeOK'
  BY <1>1 DEF TypeOK
<1>4. FreeDistinct' /\ OnGlobal' = OnGlobal /\ \A d \in CPUs : OnCpu(d)' = OnCpu(d)
  BY <1>1, SameStacks DEF stacks
<1>5. HeldDistinct' /\ HeldNotFree' /\ NoIdLost' /\ NeverZero'
  BY <1>1, <1>2, <1>4 DEF HeldDistinct, HeldNotFree, NoIdLost, NeverZero
<1>6. ClearingIsMine'
  BY <1>1, <1>4 DEF ClearingIsMine, TypeOK
<1>7. MapExact'
  <2> SUFFICES ASSUME NEW s \in Reqs, pc[s] = "sent"
               PROVE  request_map'[unique[s].idx] = s
    BY <1>1 DEF MapExact
  <2>1. unique[s].idx \in HeldIdx /\ unique[s].idx \in Idx
    BY DEF HeldIdx, Held, TypeOK, Uid
  <2>2. unique[s].idx \notin clearing[c]
    BY <2>1 DEF HeldNotFree, ClearingIsMine
  <2> QED BY <1>1, <2>1, <2>2 DEF MapExact
<1> QED BY <1>3, <1>4, <1>5, <1>6, <1>7, <1>8

LEMMA StutterStep ==
  ASSUME IdsInv, UNCHANGED vars
  PROVE  IdsInv' /\ \A i \in Idx : HoldersOf(i)' = HoldersOf(i)
BY DEF vars, IdsInv, TypeOK, IdsDisjoint, FreeDistinct, HeldDistinct, HeldNotFree, NoIdLost,
       ClearingIsMine, MapExact, NeverZero, Held, HeldIdx, HoldersOf, OnGlobal, OnCpu

PoolStep == [Pool!Next]_([i \in Idx |-> HoldersOf(i)])

\* A step keeps the invariant and is a step of the pool or none.
LEMMA StepSound == IdsInv /\ [Next]_vars => IdsInv' /\ PoolStep
<1> SUFFICES ASSUME IdsInv, [Next]_vars PROVE IdsInv' /\ PoolStep
  OBVIOUS
<1>1. CASE \E c \in CPUs, r \in Reqs : GetUnique(c, r)
  BY <1>1, GetStep DEF Pool!Next, PoolStep
<1>2. CASE \E r \in Reqs : MapRequest(r)
  BY <1>2, MapStep DEF PoolStep
<1>3. CASE \E r \in Reqs : EndCallback(r)
  BY <1>3, EndStep DEF Pool!Next, PoolStep
<1>4. CASE \E c \in CPUs, u \in ending : PutUnique(c, u)
  BY <1>4, PutStep DEF Pool!Next, PoolStep
<1>5. CASE \E c \in CPUs : ClearMap(c)
  BY <1>5, ClearStep DEF PoolStep
<1>6. CASE UNCHANGED vars
  BY <1>6, StutterStep DEF PoolStep
<1> QED BY <1>1, <1>2, <1>3, <1>4, <1>5, <1>6 DEF Next

--------------------------------------------------------------------------------
\* The types of the allocator's state, fuse_conn_init to fuse_put_unique: a
\* per-CPU stack never holds more than FUSE_MAX_PER_CPU_IDS ids.
THEOREM TypesSafe == Spec => []TypeOK
<1>1. IdsInv => TypeOK
  BY DEF IdsInv
<1> QED BY InitInv, StepSound, <1>1, PTL DEF Spec

\* fuse_get_unique and fuse_put_unique never let two requests share an index
\* of request_map, nor leave one both free and in use, for any number of
\* CPUs, requests and ids.
THEOREM IdsSafe == Spec => []IdsDisjoint
<1>1. IdsInv => IdsDisjoint
  BY DEF IdsInv
<1> QED BY InitInv, StepSound, <1>1, PTL DEF Spec

\* Refill (dev.c:143-154) and spill (dev.c:173-184) lose no id.
THEOREM NoneLost == Spec => []NoIdLost
<1>1. IdsInv => NoIdLost
  BY DEF IdsInv
<1> QED BY InitInv, StepSound, <1>1, PTL DEF Spec

\* request_find finds every request in flight, although fuse_put_unique
\* clears the map slot after the id is back on a stack.
THEOREM FindSafe == Spec => []FindsInFlight
<1>1. IdsInv => FindsInFlight
  <2> SUFFICES ASSUME IdsInv, NEW r \in Reqs, pc[r] = "sent"
               PROVE  RequestFind(unique[r]) = r
    BY DEF FindsInFlight
  <2>1. request_map[unique[r].idx] = r /\ r # NoReq
    BY IdsAssumption DEF IdsInv, MapExact
  <2> QED BY <2>1 DEF RequestFind
<1> QED BY InitInv, StepSound, <1>1, PTL DEF Spec

\* fuse_get_unique never hands out zero, however often generations wrap.
THEOREM ZeroSafe == Spec => []NeverZero
<1>1. IdsInv => NeverZero
  BY DEF IdsInv
<1> QED BY InitInv, StepSound, <1>1, PTL DEF Spec

\* The per-CPU and global stacks of dev.c implement the abstract id pool.
THEOREM ImplementsPool == Spec => PoolSpec
<1>1. Init => Pool!Init
  BY DEF Init, Pool!Init, HoldersOf, Held
<1> QED BY <1>1, InitInv, StepSound, PTL DEF Spec, PoolSpec, Pool!Spec, PoolStep

--------------------------------------------------------------------------------
(***************************************************************************)
(* The spill: stacks without a repeated index have as many ids as indexes, *)
(* and there are NumIds indexes.                                           *)
(***************************************************************************)
LEMMA StackCount ==
  ASSUME NEW q \in Seq(Uid), OneSlotEach(q)
  PROVE  IsFiniteSet(IdxOf(q)) /\ Cardinality(IdxOf(q)) = Len(q)
<1> DEFINE f == [k \in 1 .. Len(q) |-> q[k].idx]
<1>1. Len(q) \in Nat /\ DOMAIN q = 1 .. Len(q)
  OBVIOUS
<1>2. f \in Bijection(1 .. Len(q), IdxOf(q))
  <2>1. f \in [1 .. Len(q) -> IdxOf(q)]
    BY <1>1 DEF IdxOf
  <2>2. \A j, k \in 1 .. Len(q) : f[j] = f[k] => j = k
    BY <1>1 DEF OneSlotEach
  <2>3. \A i \in IdxOf(q) : \E k \in 1 .. Len(q) : f[k] = i
    BY <1>1 DEF IdxOf
  <2> QED BY <2>1, <2>2, <2>3 DEF Bijection, Injection, Surjection, IsInjective
<1>3. ExistsBijection(1 .. Len(q), IdxOf(q))
  BY <1>2 DEF ExistsBijection
<1>4. IsFiniteSet(1 .. Len(q)) /\ Cardinality(1 .. Len(q)) = Len(q)
  <2>1. /\ IsFiniteSet(1 .. Len(q))
        /\ Cardinality(1 .. Len(q)) = IF 1 > Len(q) THEN 0 ELSE Len(q) - 1 + 1
    BY <1>1, FS_Interval
  <2> QED BY <1>1, <2>1
<1> QED BY <1>3, <1>4, FS_Bijection

\* There are NumIds indexes.
LEMMA IdxCount == IsFiniteSet(Idx) /\ Cardinality(Idx) = NumIds
<1>1. 0 \in Int /\ NumIds - 1 \in Int /\ ~(0 > NumIds - 1)
  BY IdsAssumption
<1>2. /\ IsFiniteSet(0 .. NumIds - 1)
      /\ Cardinality(0 .. NumIds - 1) = IF 0 > NumIds - 1 THEN 0 ELSE NumIds - 1 - 0 + 1
  BY <1>1, FS_Interval
<1> QED BY <1>1, <1>2, IdsAssumption DEF Idx

\* BUG_ON(fc->num_free_ids + num_free > FUSE_MAX_REQUEST_IDS) never fires
\* (dev.c:178): a full CPU that returns an id finds room on the global stack.
THEOREM SpillSafe == Spec => []SpillFits
<1>1. IdsInv => SpillFits
  <2> SUFFICES ASSUME IdsInv, NEW c \in CPUs, Len(cpu_ids[c]) = PerCpu
               PROVE  Len(free_ids) + Half <= NumIds
    BY DEF SpillFits
  <2> DEFINE F == IdxOf(free_ids)
             C == IdxOf(cpu_ids[c])
  <2>1. /\ free_ids \in Seq(Uid) /\ cpu_ids[c] \in Seq(Uid)
        /\ OneSlotEach(free_ids) /\ OneSlotEach(cpu_ids[c]) /\ F \intersect C = {}
    BY DEF IdsInv, TypeOK, IdsDisjoint, FreeDistinct, OnCpu, OnGlobal
  <2>2. /\ IsFiniteSet(F) /\ Cardinality(F) = Len(free_ids)
        /\ IsFiniteSet(C) /\ Cardinality(C) = Len(cpu_ids[c])
    BY <2>1, StackCount
  <2>3. F \union C \subseteq Idx
    BY DEF IdsInv, NoIdLost, OnGlobal, OnCpu
  <2>4. IsFiniteSet(Idx) /\ Cardinality(Idx) = NumIds
    BY IdxCount
  <2> HIDE DEF F, C
  <2>5. Cardinality(F \union C) <= NumIds
    BY <2>3, <2>4, FS_Subset
  <2>6. Cardinality(F \union C) = Cardinality(F) + Cardinality(C) - Cardinality(F \intersect C)
    BY <2>2, FS_Union
  <2>7. Cardinality(F \intersect C) = 0
    BY <2>1, FS_EmptySet
  <2>8. Len(free_ids) \in Nat
    BY <2>1
  <2> QED BY <2>2, <2>5, <2>6, <2>7, <2>8, HalfFacts, IdsAssumption
<1> QED BY InitInv, StepSound, <1>1, PTL DEF Spec

--------------------------------------------------------------------------------
(***************************************************************************)
(* Exhaustion: what the CPUs other than the one that asks may hoard.       *)
(***************************************************************************)
\* A set that a function on a finite set covers is no larger.
LEMMA Covered ==
  ASSUME NEW S, IsFiniteSet(S), NEW f, NEW T, \A y \in T : \E x \in S : y = f[x]
  PROVE  IsFiniteSet(T) /\ Cardinality(T) <= Cardinality(S) /\ Cardinality(T) \in Nat
<1> DEFINE U == {x \in S : f[x] \in T}
           g == [x \in U |-> f[x]]
<1>1. g \in Surjection(U, T)
  BY DEF Surjection
<1>2. IsFiniteSet(U) /\ Cardinality(U) <= Cardinality(S)
  BY FS_Subset
<1> HIDE DEF U, g
<1>3. IsFiniteSet(T) /\ Cardinality(T) <= Cardinality(U)
  BY <1>1, <1>2, FS_Surjection
<1>4. Cardinality(T) \in Nat /\ Cardinality(U) \in Nat /\ Cardinality(S) \in Nat
  BY <1>2, <1>3, FS_CardinalityType
<1> QED BY <1>2, <1>3, <1>4

\* A union is no larger than its parts.
LEMMA UnionBound ==
  ASSUME NEW S, NEW T, IsFiniteSet(S), IsFiniteSet(T)
  PROVE  IsFiniteSet(S \union T) /\ Cardinality(S \union T) <= Cardinality(S) + Cardinality(T)
<1>1. /\ IsFiniteSet(S \union T)
      /\ Cardinality(S \union T) = Cardinality(S) + Cardinality(T) - Cardinality(S \intersect T)
  BY FS_Union
<1>2. IsFiniteSet(S \intersect T)
  BY FS_Intersection
<1>3. Cardinality(S) \in Nat /\ Cardinality(T) \in Nat /\ Cardinality(S \intersect T) \in Nat
  BY <1>2, FS_CardinalityType
<1> QED BY <1>1, <1>3

\* What the stacks of the other CPUs hold.
LEMMA HoardCount ==
  ASSUME TypeOK, IsFiniteSet(CPUs), NEW c \in CPUs
  PROVE  LET H == UNION {OnCpu(d) : d \in CPUs \ {c}}
         IN  IsFiniteSet(H) /\ Cardinality(H) <= (Cardinality(CPUs) - 1) * PerCpu
<1> DEFINE H == UNION {OnCpu(d) : d \in CPUs \ {c}}
           D == (CPUs \ {c}) \X (1 .. PerCpu)
           f == [p \in D |-> cpu_ids[p[1]][p[2]].idx]
<1>1. IsFiniteSet(CPUs \ {c}) /\ Cardinality(CPUs \ {c}) = Cardinality(CPUs) - 1
  BY FS_RemoveElement
<1>2. IsFiniteSet(1 .. PerCpu) /\ Cardinality(1 .. PerCpu) = PerCpu
  <2>1. 1 \in Int /\ PerCpu \in Int /\ ~(1 > PerCpu)
    BY IdsAssumption
  <2>2. /\ IsFiniteSet(1 .. PerCpu)
        /\ Cardinality(1 .. PerCpu) = IF 1 > PerCpu THEN 0 ELSE PerCpu - 1 + 1
    BY <2>1, FS_Interval
  <2> QED BY <2>1, <2>2
<1>3. IsFiniteSet(D) /\ Cardinality(D) = (Cardinality(CPUs) - 1) * PerCpu
  <2> DEFINE E == CPUs \ {c}
             R == 1 .. PerCpu
  <2>1. /\ IsFiniteSet(E) /\ Cardinality(E) = Cardinality(CPUs) - 1
        /\ IsFiniteSet(R) /\ Cardinality(R) = PerCpu /\ D = E \X R
    BY <1>1, <1>2
  <2> HIDE DEF E, R, D
  <2>2. IsFiniteSet(E \X R) /\ Cardinality(E \X R) = Cardinality(E) * Cardinality(R)
    BY ONLY <2>1, FS_Product, Zenon
  <2> QED BY ONLY <2>1, <2>2, Zenon
<1>4. ASSUME NEW i \in H PROVE \E p \in D : i = f[p]
  <2>1. PICK d \in CPUs \ {c} : i \in OnCpu(d)
    BY <1>4
  <2>2. PICK k \in DOMAIN cpu_ids[d] : i = cpu_ids[d][k].idx
    BY <2>1 DEF OnCpu, IdxOf
  <2>3. k \in 1 .. PerCpu
    <3>1. cpu_ids[d] \in Seq(Uid) /\ Len(cpu_ids[d]) <= PerCpu /\ PerCpu \in Nat
      BY <2>1, IdsAssumption DEF TypeOK
    <3>2. k \in 1 .. Len(cpu_ids[d]) /\ Len(cpu_ids[d]) \in Nat
      BY <2>2, <3>1
    <3> QED BY <3>1, <3>2
  <2>4. <<d, k>> \in D /\ f[<<d, k>>] = i
    BY <2>1, <2>2, <2>3
  <2> QED BY <2>4
<1> HIDE DEF D, f, H
<1>5. IsFiniteSet(H) /\ Cardinality(H) <= Cardinality(D)
  BY <1>3, <1>4, Covered
<1>6. IsFiniteSet(H) /\ Cardinality(H) <= (Cardinality(CPUs) - 1) * PerCpu
  BY <1>3, <1>5
<1> QED BY <1>6 DEF H

\* When a CPU that asks for an id finds none (the BUG_ON of dev.c:144), all ids
\* but a full stack on every other CPU are in use, whatever was refilled and
\* spilled before, for any number of CPUs, requests and ids.
THEOREM ExhaustionSafe == Spec => []ExhaustedInUse
<1>1. IdsInv => ExhaustedInUse
  <2> SUFFICES ASSUME IdsInv, NEW c \in CPUs, cpu_ids[c] = <<>>, free_ids = <<>>
               PROVE  Cardinality(HeldIdx) + (Cardinality(CPUs) - 1) * PerCpu >= NumIds
    BY DEF ExhaustedInUse
  <2> DEFINE H == UNION {OnCpu(d) : d \in CPUs \ {c}}
             m == (Cardinality(CPUs) - 1) * PerCpu
  <2>1. Idx = HeldIdx \union H
    <3>1. OnGlobal = {} /\ OnCpu(c) = {}
      BY DEF OnGlobal, OnCpu, IdxOf
    <3> QED BY <3>1 DEF IdsInv, NoIdLost
  <2>2. IsFiniteSet(HeldIdx)
    BY <2>1, IdxCount, FS_Subset
  <2>3. IsFiniteSet(H) /\ Cardinality(H) <= m
    BY HoardCount, IdsAssumption DEF IdsInv
  <2>4. m \in Int
    BY FS_CardinalityType, IdsAssumption
  <2> HIDE DEF H, m
  <2>5. NumIds <= Cardinality(HeldIdx) + Cardinality(H)
    BY <2>1, <2>2, <2>3, UnionBound, IdxCount
  <2>6. Cardinality(HeldIdx) \in Nat /\ Cardinality(H) \in Nat /\ NumIds \in Nat
    BY <2>2, <2>3, FS_CardinalityType, IdsAssumption
  <2>7. Cardinality(HeldIdx) + m >= NumIds
    BY <2>3, <2>4, <2>5, <2>6
  <2> QED BY <2>7 DEF m
<1> QED BY InitInv, StepSound, <1>1, PTL DEF Spec

================================================================================
