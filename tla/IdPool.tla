-------------------------------- MODULE IdPool --------------------------------
(***************************************************************************)
(* What the request id allocator of dev.c promises its callers: an index   *)
(* of request_map that fuse_get_unique hands out belongs to one holder at  *)
(* a time until fuse_put_unique takes it back.  FuseIds shows that the     *)
(* per-CPU stacks of the code keep this promise; FuseConn allocates        *)
(* through it.                                                             *)
(***************************************************************************)
CONSTANTS
  Idx,         \* the indexes of request_map
  Holders      \* who may hold one

VARIABLE
  holders      \* per index: {} or {its holder}

Init == holders = [i \in Idx |-> {}]

\* fuse_get_unique
Get(i, h) ==
  /\ holders[i] = {}
  /\ holders' = [holders EXCEPT ![i] = {h}]

\* request_end takes the id over from the request it finishes.
Pass(i, h) ==
  /\ holders[i] # {}
  /\ holders' = [holders EXCEPT ![i] = {h}]

\* fuse_put_unique
Put(i) ==
  /\ holders[i] # {}
  /\ holders' = [holders EXCEPT ![i] = {}]

Next == \E i \in Idx : Put(i) \/ \E h \in Holders : Get(i, h) \/ Pass(i, h)

Spec == Init /\ [][Next]_holders

================================================================================
