------------------------------ MODULE NodeClock ------------------------------
(***************************************************************************)
(* PodpingNode with a clock that may be set, by an operator or by ntp: dbif *)
(* takes every createdon and every now from the wall clock.                *)
(***************************************************************************)
EXTENDS PodpingNode

\* The clock is set: a row may look any age, and so may what a handler is about
\* to store.  A row from the future looks as young as one from now.
ClockIsSet ==
  /\ Fault
  /\ \E age \in [DOMAIN queue -> Ages] :
       queue' = [u \in DOMAIN queue |-> [queue[u] EXCEPT !.age = age[u]]]
  /\ \E now \in [{p \in Pings : stage[p] \in InProgress} -> Ages] :
       stamp' = [p \in Pings |-> IF p \in DOMAIN now THEN now[p] ELSE stamp[p]]
  /\ UNCHANGED <<stage, writerVars, checkerVars>>

ClockSpec == Init /\ [][Next \/ ClockIsSet]_vars
=============================================================================
