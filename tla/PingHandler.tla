----------------------------- MODULE PingHandler -----------------------------
(***************************************************************************)
(* The HTTP front end: one run of the handler `ping' per request, any      *)
(* number of them at once on the runtime's threads.  A run reads the       *)
(* clock, checks the request, inserts the ping, and, when the insertion    *)
(* fails for a live ping, runs a second statement to update the row.       *)
(***************************************************************************)
EXTENDS PingQueue, RequestCheck

CONSTANT Form   \* Form[p]: the request that carries ping p

\* A request that names no reason carries an Update (the default).
ASSUME FormAssumption ==
  /\ Form \in [Pings -> Request]
  /\ \A p \in Pings : Form[p].reason = "absent" => ReasonOf[p] = "Update"

VARIABLES
  stage,        \* stage[p]: how far the handler of ping p has come
  stamp         \* stamp[p]: the age of the timestamp it has taken

handlerVars == <<stage, stamp>>

InProgress == {"insert", "update"}

\* inserted, updated: add_ping_to_queue returned Ok; dropped: it returned an
\* error; the publisher reads 200 in all three.  turned away: every other
\* answer.  lost: the process exited under the handler.
Stages == {"new", "inserted", "updated", "dropped", "turned away", "lost"}
            \cup InProgress

HandlerTypeOK ==
  /\ stage \in [Pings -> Stages]
  /\ stamp \in [Pings -> Ages]

HandlerInit ==
  /\ stage = [p \in Pings |-> "new"]
  /\ stamp = [p \in Pings |-> 0]

\* The handler of p finishes; its timestamp is gone.
Finish(p, how) ==
  /\ stage' = [stage EXCEPT ![p] = how]
  /\ stamp' = [stamp EXCEPT ![p] = 0]

-----------------------------------------------------------------------------
\* A request comes in; the clock is read first, then come the checks.  A
\* request whose checks panic takes the process down: see PodpingNode.
Receive(p) ==
  /\ stage[p] = "new"
  /\ \E env \in Env :
       /\ IF env = SoundEnv THEN NoFault ELSE Fault
       /\ LET verdict == Verdict(Form[p], env)
          IN /\ verdict # "panic"
             /\ Finish(p, IF verdict = "store" THEN "insert" ELSE "turned away")
  /\ UNCHANGED queue

\* The first half of add_ping_to_queue succeeds.
InsertPing(p) ==
  /\ stage[p] = "insert"
  /\ InsertRow(p, stamp[p])
  /\ Finish(p, "inserted")
  /\ NoFault

\* (mutant) The row in the way of a live ping is deleted.
InsertRefusedDeleting(p) ==
  /\ stage[p] = "insert"
  /\ IF UrlOf[p] \in DOMAIN queue THEN NoFault ELSE Fault
  /\ IF ReasonOf[p] \in {"Live", "LiveEnd"}
     THEN /\ stage' = [stage EXCEPT ![p] = "update"] /\ UNCHANGED stamp
          /\ DeleteRow(UrlOf[p])
     ELSE Finish(p, "dropped") /\ UNCHANGED queue

\* It fails, because the url is queued or for any other reason: a live ping
\* goes on to update the row, an Update is dropped.
InsertRefused(p) ==
  /\ stage[p] = "insert"
  /\ IF UrlOf[p] \in DOMAIN queue THEN NoFault ELSE Fault
  /\ IF ReasonOf[p] \in {"Live", "LiveEnd"}
     THEN stage' = [stage EXCEPT ![p] = "update"] /\ UNCHANGED stamp
     ELSE Finish(p, "dropped")
  /\ UNCHANGED queue

\* (mutant) The row is updated and an error returned.
UpdatePingDenied(p) ==
  /\ stage[p] = "update"
  /\ UpdateRow(p, stamp[p])
  /\ Finish(p, "dropped")
  /\ NoFault

\* update_ping_in_queue, a statement of its own.
UpdatePing(p) ==
  /\ stage[p] = "update"
  /\ UpdateRow(p, stamp[p])
  /\ Finish(p, "updated")
  /\ NoFault

UpdateFails(p) ==
  /\ stage[p] = "update"
  /\ Fault
  /\ Finish(p, "dropped")
  /\ UNCHANGED queue

Handle(p) ==
  InsertPing(p) \/ InsertRefused(p) \/ UpdatePing(p) \/ UpdateFails(p)

-----------------------------------------------------------------------------
\* A second passes for the timestamps the running handlers hold.
AgeStamps ==
  stamp' = [p \in Pings |-> IF stage[p] \in InProgress THEN Older(stamp[p])
                                                       ELSE stamp[p]]

\* The process exits: running handlers never answer, nor do those that end it.
HandlersExit(panicking) ==
  /\ stage' = [p \in Pings |-> IF \/ stage[p] \in InProgress
                                  \/ p \in panicking
                               THEN "lost" ELSE stage[p]]
  /\ stamp' = [p \in Pings |-> 0]
=============================================================================
