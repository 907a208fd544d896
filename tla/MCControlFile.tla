----------------------------- MODULE MCControlFile -----------------------------
(* Instances of ControlFile for TLC: one or two daemons, sysfs writers or none. *)
EXTENDS ControlFile
================================================================================
