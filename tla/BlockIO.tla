-------------------------------- MODULE BlockIO --------------------------------
(***************************************************************************)
(* What the slow path promises the block layer, for each request tag: an   *)
(* accepted IO is completed once; it is completed with the storage         *)
(* daemon's answer only by a daemon that holds it, and failed by the       *)
(* kernel only while no daemon holds it; a daemon that goes away gives     *)
(* back what it held.                                                      *)
(***************************************************************************)
CONSTANT
  Slots        \* tags of the block layer

VARIABLE
  st           \* per tag: "idle", "queued", "served" by the daemon, or being
               \* completed: "answered" or "failed"

Init == st = [s \in Slots |-> "idle"]

Move(s, from, to) ==
  /\ st[s] = from
  /\ st' = [st EXCEPT ![s] = to]

\* An IO is submitted.
Accept(s) == Move(s, "idle", "queued")

\* The daemon reads it.
Offer(s) == Move(s, "queued", "served")

\* The daemon goes away.
Withdraw == st' = [s \in Slots |-> IF st[s] = "served" THEN "queued" ELSE st[s]]

\* The daemon's answer becomes the IO's result.
Answer(s) == Move(s, "served", "answered")

\* The kernel gives the IO an error of its own.
Fail(s) == Move(s, "queued", "failed")

\* The block layer is told.
Complete(s) == Move(s, "answered", "idle") \/ Move(s, "failed", "idle")

Next ==
  \/ \E s \in Slots : Accept(s) \/ Offer(s) \/ Answer(s) \/ Fail(s) \/ Complete(s)
  \/ Withdraw

Spec == Init /\ [][Next]_st

================================================================================
