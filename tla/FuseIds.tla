-------------------------------- MODULE FuseIds --------------------------------
(***************************************************************************)
(* Request ids of the fuse transport (dev.c).  A unique id is a 64-bit     *)
(* number whose low bits index fc->request_map and whose high bits are a   *)
(* generation that every allocation advances.  Free ids live on a global   *)
(* stack under fc->lock and on one small stack per CPU, which only code    *)
(* running on that CPU with preemption off touches.                        *)
(***************************************************************************)
EXTENDS Integers, FiniteSets, Sequences

CONSTANTS
  CPUs,
  Reqs,        \* the requests that can be outstanding
  NoReq,       \* NULL in request_map
  NumIds,      \* FUSE_MAX_REQUEST_IDS
  PerCpu,      \* FUSE_MAX_PER_CPU_IDS
  Gens,        \* generations of an index: 2^64 / FUSE_MAX_REQUEST_IDS
  MaxEnders    \* threads that are inside request_end at one time

ASSUME IdsAssumption ==
  /\ NumIds \in Nat \ {0}
  /\ PerCpu \in Nat /\ PerCpu >= 2 /\ PerCpu % 2 = 0
  /\ Gens \in Nat /\ Gens >= 2
  /\ MaxEnders \in Nat
  /\ NoReq \notin Reqs
  /\ IsFiniteSet(CPUs)

Idx == 0 .. NumIds - 1
Uid == [idx : Idx, gen : 0 .. Gens - 1]

\* The number zero, which fuse_dev_do_write takes for a notification.
ZeroUid == [idx |-> 0, gen |-> 0]

VARIABLES
  free_ids,    \* fc->free_ids[0 .. num_free_ids - 1], top last
  cpu_ids,     \* the same of per_cpu_ids, per CPU
  request_map,
  pc,          \* per request: not sent, id taken but not in the map, in flight
  unique,      \* in.h.unique of each request
  ending,      \* ids of finished requests whose request_end still has to put them
  clearing     \* per CPU: {} or the index whose map slot it is about to clear

stacks == <<free_ids, cpu_ids>>
vars == <<free_ids, cpu_ids, request_map, pc, unique, ending, clearing>>

Half == PerCpu \div 2

(***************************************************************************)
(* fuse_conn_init                                                          *)
(***************************************************************************)
Init ==
  /\ free_ids = [k \in 1 .. NumIds |-> [idx |-> NumIds - k, gen |-> 0]]
  /\ cpu_ids = [c \in CPUs |-> <<>>]
  /\ request_map = [i \in Idx |-> NoReq]
  /\ pc = [r \in Reqs |-> "idle"]
  /\ unique = [r \in Reqs |-> ZeroUid]
  /\ ending = {}
  /\ clearing = [c \in CPUs |-> {}]

\* Mutant: zero is not skipped.
NextUidZero(u) == [u EXCEPT !.gen = (@ + 1) % Gens]

\* uid += FUSE_MAX_REQUEST_IDS on 64 bits, and once more where that gives zero.
NextUid(u) ==
  LET g == IF u.gen = Gens - 1 THEN 0 ELSE u.gen + 1
  IN  [idx |-> u.idx, gen |-> IF u.idx = 0 /\ g = 0 THEN 1 ELSE g]

\* Mutant: one id too many stays below.
BelowOffByOne(stack, n) == SubSeq(stack, 1, Len(stack) - n + 1)

\* The n ids a stack has on top, and what is left below them.
TopIds(stack, n) == SubSeq(stack, Len(stack) - n + 1, Len(stack))
Below(stack, n) == SubSeq(stack, 1, Len(stack) - n)

\* How many ids an empty per-CPU stack takes from the global one.
NumAlloc == IF Len(free_ids) < Half THEN Len(free_ids) ELSE Half

(***************************************************************************)
(* fuse_get_unique on CPU c.  Between get_cpu and put_cpu nothing else     *)
(* runs on c, so only the section under fc->lock is seen by other CPUs:    *)
(* the call is one step.  The caller stores req in the map afterwards, in  *)
(* a step of its own (dev.c:247).                                          *)
(***************************************************************************)
TakeId(c, r, ids) ==
  /\ cpu_ids' = [cpu_ids EXCEPT ![c] = Below(ids, 1)]
  /\ unique' = [unique EXCEPT ![r] = NextUid(ids[Len(ids)])]
  /\ pc' = [pc EXCEPT ![r] = "got"]
  /\ UNCHANGED <<request_map, ending, clearing>>

\* Mutant: put_cpu comes before the map slot is cleared, so that the CPU may
\* hand out the id in between.
GetUniquePreempting(c, r) ==
  LET n == IF cpu_ids[c] = <<>> THEN NumAlloc ELSE 0
  IN  /\ pc[r] = "idle"
      /\ TakeId(c, r, cpu_ids[c] \o TopIds(free_ids, n))
      /\ free_ids' = Below(free_ids, n)

GetUnique(c, r) ==
  /\ pc[r] = "idle"
  /\ clearing[c] = {}
  /\ \/ /\ cpu_ids[c] # <<>>
        /\ TakeId(c, r, cpu_ids[c])
        /\ UNCHANGED free_ids
     \/ /\ cpu_ids[c] = <<>>
        /\ free_ids # <<>>                     \* BUG_ON(fc->num_free_ids == 0)
        /\ TakeId(c, r, TopIds(free_ids, NumAlloc))
        /\ free_ids' = Below(free_ids, NumAlloc)

MapRequest(r) ==
  /\ pc[r] = "got"
  /\ request_map' = [request_map EXCEPT ![unique[r].idx] = r]
  /\ pc' = [pc EXCEPT ![r] = "sent"]
  /\ UNCHANGED <<stacks, unique, ending, clearing>>

(***************************************************************************)
(* request_end up to and including the end callback: uid is read first,    *)
(* because the callback lets the block layer reuse the request for another *)
(* I/O before fuse_put_unique runs.                                        *)
(***************************************************************************)
EndCallback(r) ==
  /\ pc[r] = "sent"
  /\ Cardinality(ending) < MaxEnders
  /\ ending' = ending \union {unique[r]}
  /\ pc' = [pc EXCEPT ![r] = "idle"]
  /\ UNCHANGED <<stacks, request_map, unique, clearing>>

\* Mutants of fuse_put_unique: num_free_ids of the CPU is compared with
\* nothing, the global count is not advanced.
PutUniqueBody(c, u) ==
  /\ u \in ending
  /\ clearing[c] = {}
  /\ ending' = ending \ {u}
  /\ clearing' = [clearing EXCEPT ![c] = {u.idx}]
  /\ UNCHANGED <<request_map, pc, unique>>

PutUniqueNoSpill(c, u) ==
  /\ PutUniqueBody(c, u)
  /\ cpu_ids' = [cpu_ids EXCEPT ![c] = Append(@, u)]
  /\ UNCHANGED free_ids

PutUniqueDropSpill(c, u) ==
  /\ PutUniqueBody(c, u)
  /\ cpu_ids' = [cpu_ids EXCEPT ![c] = Append(IF Len(@) = PerCpu THEN Below(@, Half) ELSE @, u)]
  /\ UNCHANGED free_ids

(***************************************************************************)
(* fuse_put_unique on CPU c: spill if full, push; then, still with         *)
(* preemption off, clear the map slot, a store other CPUs can see late.    *)
(***************************************************************************)
PutUnique(c, u) ==
  /\ u \in ending
  /\ clearing[c] = {}
  /\ \/ /\ Len(cpu_ids[c]) < PerCpu
        /\ cpu_ids' = [cpu_ids EXCEPT ![c] = Append(@, u)]
        /\ UNCHANGED free_ids
     \/ /\ Len(cpu_ids[c]) = PerCpu
        /\ free_ids' = free_ids \o TopIds(cpu_ids[c], Half)
        /\ cpu_ids' = [cpu_ids EXCEPT ![c] = Append(Below(@, Half), u)]
  /\ ending' = ending \ {u}
  /\ clearing' = [clearing EXCEPT ![c] = {u.idx}]
  /\ UNCHANGED <<request_map, pc, unique>>

ClearMap(c) ==
  /\ clearing[c] # {}
  /\ request_map' = [i \in Idx |-> IF i \in clearing[c] THEN NoReq ELSE request_map[i]]
  /\ clearing' = [clearing EXCEPT ![c] = {}]
  /\ UNCHANGED <<stacks, pc, unique, ending>>

Next ==
  \/ \E c \in CPUs, r \in Reqs : GetUnique(c, r)
  \/ \E r \in Reqs : MapRequest(r)
  \/ \E r \in Reqs : EndCallback(r)
  \/ \E c \in CPUs, u \in ending : PutUnique(c, u)
  \/ \E c \in CPUs : ClearMap(c)

Spec == Init /\ [][Next]_vars

--------------------------------------------------------------------------------
(***************************************************************************)
(* Properties                                                              *)
(***************************************************************************)
Held == {r \in Reqs : pc[r] # "idle"}
HeldIdx == {unique[r].idx : r \in Held} \union {u.idx : u \in ending}
IdxOf(stack) == {stack[k].idx : k \in DOMAIN stack}
OnGlobal == IdxOf(free_ids)
OnCpu(c) == IdxOf(cpu_ids[c])

TypeOK ==
  /\ free_ids \in Seq(Uid)
  /\ cpu_ids \in [CPUs -> Seq(Uid)]
  /\ \A c \in CPUs : Len(cpu_ids[c]) <= PerCpu
  /\ request_map \in [Idx -> Reqs \union {NoReq}]
  /\ pc \in [Reqs -> {"idle", "got", "sent"}]
  /\ unique \in [Reqs -> Uid]
  /\ ending \subseteq Uid
  /\ clearing \in [CPUs -> SUBSET Idx]

\* No index is on two stack positions, with two holders, or both free and
\* held: two requests never share a slot of request_map, whatever CPUs the
\* ids migrate through.
OneSlotEach(stack) ==
  \A j, k \in DOMAIN stack : stack[j].idx = stack[k].idx => j = k

FreeDistinct ==
  /\ OneSlotEach(free_ids)
  /\ \A c \in CPUs : OneSlotEach(cpu_ids[c]) /\ OnCpu(c) \intersect OnGlobal = {}
  /\ \A c, d \in CPUs : c # d => OnCpu(c) \intersect OnCpu(d) = {}

HeldDistinct ==
  /\ \A q, r \in Held : unique[q].idx = unique[r].idx => q = r
  /\ \A u, v \in ending : u.idx = v.idx => u = v
  /\ \A r \in Held : \A u \in ending : unique[r].idx # u.idx

HeldNotFree ==
  /\ HeldIdx \intersect OnGlobal = {}
  /\ \A c \in CPUs : HeldIdx \intersect OnCpu(c) = {}

IdsDisjoint == FreeDistinct /\ HeldDistinct /\ HeldNotFree

\* Every index is free or held: no path through refill and spill loses one,
\* so the pool does not shrink as requests come and go.
NoIdLost == Idx = HeldIdx \union OnGlobal \union UNION {OnCpu(c) : c \in CPUs}

\* request_find (dev.c:585)
RequestFind(u) ==
  LET r == request_map[u.idx]
  IN  IF r # NoReq /\ unique[r] = u THEN r ELSE NoReq

\* A reply to a request in flight always finds that request, although
\* fuse_put_unique clears the slot only after the id is back on a stack.
FindsInFlight == \A r \in Reqs : pc[r] = "sent" => RequestFind(unique[r]) = r

\* Zero is never handed out, not even when the generation wraps: a reply
\* to such a request would be dispatched as a notification (dev.c:1042).
NeverZero == \A r \in Held : unique[r] # ZeroUid

\* An empty CPU finds the global stack empty only while the ids in use, and at
\* most a full stack on every other CPU, are all there are: refill and spill
\* leave no more than FUSE_MAX_PER_CPU_IDS ids out of a CPU's reach (dev.c:143-184).
ExhaustedInUse ==
  \A c \in CPUs : cpu_ids[c] = <<>> /\ free_ids = <<>>
    => Cardinality(HeldIdx) + (Cardinality(CPUs) - 1) * PerCpu >= NumIds

\* BUG_ON(fc->num_free_ids == 0), dev.c:144: a CPU that needs an id for a
\* request that is not sent finds one, on its own stack or on the global one.  It
\* does not hold for a pool of the code's size: see Ids_exhausted.cfg.
NeverExhausted ==
  \A c \in CPUs : (cpu_ids[c] = <<>> /\ Held # Reqs) => free_ids # <<>>

\* BUG_ON(fc->num_free_ids + num_free > FUSE_MAX_REQUEST_IDS), dev.c:178:
\* the global stack has room whenever a full CPU has an id to put.
SpillFits ==
  \A c \in CPUs : (Len(cpu_ids[c]) = PerCpu /\ ending # {})
                     => Len(free_ids) + Half <= NumIds

\* A CPU that has still to clear a map slot keeps the slot's id on its own
\* stack, where no other CPU can take it from.
ClearingIsMine == \A c \in CPUs : clearing[c] \subseteq OnCpu(c)

Holders == ({"send"} \X Reqs) \union ({"end"} \X Uid)
HoldersOf(i) == {<<"send", r>> : r \in {q \in Held : unique[q].idx = i}}
                \union {<<"end", u>> : u \in {v \in ending : v.idx = i}}

Pool == INSTANCE IdPool WITH holders <- [i \in Idx |-> HoldersOf(i)]

\* The stacks implement the abstract pool: an index is handed out only while
\* nobody holds it, and comes back once per allocation.
PoolSpec == Pool!Spec

================================================================================
