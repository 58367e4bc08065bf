---------------------------- MODULE MCOrder ----------------------------
(* OrderHistory on the small instances of Instances. *)
EXTENDS OrderHistory, NodeRefinement, Instances
=============================================================================
