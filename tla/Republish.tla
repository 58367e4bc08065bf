------------------------------ MODULE Republish ------------------------------
(***************************************************************************)
(* NodeClock with publishers that never stop: each ping of Repeated may    *)
(* come in again once it has been answered, for ever.                      *)
(***************************************************************************)
EXTENDS NodeClock

CONSTANT Repeated

ASSUME RepeatedAssumption == Repeated \subseteq Pings

Again(p) ==
  /\ stage[p] \notin InProgress \cup {"new"}
  /\ stage' = [stage EXCEPT ![p] = "new"]
  /\ UNCHANGED <<queueVars, stamp, writerVars, checkerVars>>

RepublishNext == Next \/ ClockIsSet \/ \E p \in Repeated : Again(p)

RepublishSpec == Init /\ [][RepublishNext]_vars /\ Fairness

-----------------------------------------------------------------------------
\* A live ping sets the row of u back to the end of its delay.
SetBack(u) == \E p \in Pings : UrlOf[p] = u /\ UpdatePing(p)

\* However often its publisher pings, and though the clock be set under the rows,
\* a feed leaves the queue whenever it is in it, unless live pings of its own set
\* its row back again and again, or the socket is replaced again and again.
DrainsUnlessSetBack ==
  \A u \in Urls : <>[][~SetBack(u)]_vars => Drained(u)
=============================================================================
