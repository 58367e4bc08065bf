---------------------------- MODULE NodeInvariant ----------------------------
(***************************************************************************)
(* The inductive invariant of PodpingNode: what ties the queue table, the  *)
(* batch, the two directions of the connection and the writer together.    *)
(***************************************************************************)
EXTENDS PodpingNode

\* Whatever travels from the table through a batch, the socket and the writer
\* to its settlement was stored, and all of it past the socket was sent.
TravelInv ==
  /\ \A u \in Queued : queue[u].ping \in Stored
  /\ \A item \in batch : item.ping \in Stored
  /\ handed \subseteq Stored
  /\ pipe \in Seq(handed)
  /\ held \subseteq handed
  /\ landed \cup refused \subseteq handed

\* The urls the checker deletes, or will when it has read the replies on their
\* way, are settled.
HonestReply == {r \in Reply : r.kind # "unwritten" => r.urls \subseteq Settled}

AnswerInv ==
  /\ doomed \subseteq Settled
  /\ replies \in Seq(HonestReply)

\* The ping about to be marked was sent.
MarkInv ==
  pc = "mark" => \A item \in batch : IsNext(item, batch) => item.ping \in handed

\* Only a live ping goes on to update a row.
UpdatesAreUrgent ==
  \A p \in Pings : stage[p] = "update" => ReasonOf[p] \in {"Live", "LiveEnd"}

\* A handler goes on to its update, or drops its ping, only if the url was queued
\* when the insertion failed; it then is, or was settled in the meantime.
RefusedIsKept ==
  faults = 0 =>
    \A p \in Pings :
      stage[p] \in {"inserted", "update", "updated", "dropped"}
        => UrlOf[p] \in Queued \cup Settled

\* A handler that got past the checks of its request was right to.
AdmittedInv ==
  \A p \in Pings :
    stage[p] \notin {"new", "turned away", "lost"} => Admitted(Form[p])

\* The whole; the properties of PodpingNode that are invariants are part of it
\* or follow from it.
IInv ==
  /\ TypeOK
  /\ RowsWellFormed
  /\ TravelInv
  /\ AnswerInv
  /\ WithdrawnOnlyIfSettled
  /\ MarkInv
  /\ InflightUrlWasSent
  /\ UpdatesAreUrgent
  /\ RefusedIsKept
  /\ AdmittedInv
=============================================================================
