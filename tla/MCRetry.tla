---------------------------- MODULE MCRetry ----------------------------
(* RetryHistory on the small instances of Instances. *)
EXTENDS RetryHistory, Instances
=============================================================================
