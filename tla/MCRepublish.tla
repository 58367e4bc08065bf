---------------------------- MODULE MCRepublish ----------------------------
(* Republish on the small instances of Instances. *)
EXTENDS Republish, Instances
=============================================================================
