------------------------------ MODULE MCPxdDevice ------------------------------
(* Instances of PxdDevice for TLC. *)
EXTENDS PxdDevice

================================================================================
