---------------------------- MODULE MCDual ----------------------------
(* DualWrite on the small instances of Instances. *)
EXTENDS DualWrite, Instances
=============================================================================
