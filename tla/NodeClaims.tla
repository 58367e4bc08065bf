----------------------------- MODULE NodeClaims -----------------------------
(***************************************************************************)
(* What the repository's documents and comments say of a node and the code *)
(* does not keep.  Each is the subject of a run that finds it violated.    *)
(***************************************************************************)
EXTENDS PodpingNode

\* handler.rs logs "Added: .. to the queue" and the README says the url is
\* saved before 200 is returned: when add_ping_to_queue returns Ok through its
\* update, the url is in the queue.  (It is not when the row was deleted, or
\* the insertion failed for another reason, between the two statements.)
AddedIsQueued ==
  [][\A p \in Pings :
       stage[p] = "update" /\ stage'[p] = "updated" => UrlOf[p] \in Queued']_vars

\* The canary runbook, "every ping received during the outage must eventually
\* land on Hive": a ping that was never sent is not deleted.  (A reply deletes
\* by url, whichever ping the row holds by then; so does the mark.)
DeletedWasSent ==
  [][\A u \in Queued : u \notin Queued' => queue[u].ping \in handed]_vars

\* README, "If an error is returned .., another attempt is made after 180
\* seconds": a url leaves the queue only when it was written to Hive.
ErrorKeepsUrl ==
  [][\A u \in Queued : u \notin Queued' => u \in UrlsOf(landed)]_vars
=============================================================================
