--------------------------- MODULE NodeRefinement ---------------------------
(***************************************************************************)
(* PodpingNode as an implementation of PingService.  The feeds that wait   *)
(* are the rows of the table, in flight or not, each with its ping.        *)
(***************************************************************************)
EXTENDS PodpingNode

RowPings == [u \in Queued |-> queue[u].ping]

Service ==
  INSTANCE PingService WITH
    stored  <- Stored,
    waiting <- RowPings,
    sent    <- handed,
    settled <- landed \cup refused

\* Every step of handlers, checker, writer, clock and process is one of the
\* service's or none: rows change hands only as PingService says, whatever is
\* lost, reset, sent again, answered out of turn or started over.
ServesPings == Service!Spec
=============================================================================
