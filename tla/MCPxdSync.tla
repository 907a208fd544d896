------------------------------- MODULE MCPxdSync -------------------------------
(* Instances of PxdSync for TLC: two callers, a suspend of the daemon and a
   failover. *)
EXTENDS PxdSync
================================================================================
