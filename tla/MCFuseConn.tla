------------------------------ MODULE MCFuseConn ------------------------------
(* Instances of FuseConn for TLC. *)
EXTENDS FuseConn, TLC

Symmetry == Permutations(Threads) \union Permutations(Slots) \union Permutations(Idx)
================================================================================
