---------------------------- MODULE MCNode ----------------------------
(* NodeClaims and NodeOrder on the small instances of Instances. *)
EXTENDS NodeClaims, NodeOrder, Instances

\* Of feed a alone: where the pings of the feeds differ in nothing but their
\* names, what holds of one feed holds of the other.
FeedADrains == Drained(a)
=============================================================================
