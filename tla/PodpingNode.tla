----------------------------- MODULE PodpingNode -----------------------------
(***************************************************************************)
(* A podping.cloud node: the HTTP handlers and the queue checker share the *)
(* queue table, the checker talks to the hive-writer, seconds pass, and    *)
(* the process may exit at any point and be started again by its           *)
(* supervisor (docker's restart policy).                                   *)
(***************************************************************************)
EXTENDS PingHandler, QueueChecker

vars == <<queueVars, handlerVars, writerVars, checkerVars>>

TypeOK == QueueTypeOK /\ HandlerTypeOK /\ WriterTypeOK /\ CheckerTypeOK

Init == QueueInit /\ HandlerInit /\ WriterInit /\ CheckerInit

-----------------------------------------------------------------------------
\* (mutant) The restarted process makes its tables anew.
ExitAndWipe(panicking) ==
  /\ HandlersExit(panicking)
  /\ CheckerExits
  /\ SocketCloses
  /\ queue' = Restrict(queue, {})
  /\ UNCHANGED <<held, landed, refused>>

\* What a process exit does: table and writer stay, all else starts over.
Exit(panicking) ==
  /\ HandlersExit(panicking)
  /\ CheckerExits
  /\ SocketCloses
  /\ UNCHANGED <<queue, held, landed, refused>>

\* The process is killed, or one of the checker thread's unwraps panics: the
\* panic hook turns that into an exit.
Crash == Fault /\ Exit({})

\* The checks of a request panic; the hook does not care in which thread.
PanickingRequest(p) ==
  /\ stage[p] = "new"
  /\ \E env \in Env :
       /\ Verdict(Form[p], env) = "panic"
       /\ IF env = SoundEnv THEN NoFault ELSE Fault
  /\ Exit({p})

Tick ==
  /\ AgeRows
  /\ AgeStamps
  /\ UNCHANGED <<faults, stage, writerVars, checkerVars>>

HandlerStep(p) ==
  /\ Receive(p) \/ Handle(p)
  /\ UNCHANGED <<writerVars, checkerVars>>

CheckerStep == CheckerNext /\ UNCHANGED handlerVars

WriterStep ==
  /\ \/ TakePing
     \/ \E S \in SUBSET held : WriteToHive(S)
     \/ \E p \in held : RefusePing(p)
  /\ UNCHANGED <<queueVars, handlerVars, checkerVars>>

WriterFault ==
  /\ WriterRestart \/ \E S \in SUBSET held : MissBlock(S)
  /\ Fault
  /\ UNCHANGED <<queue, handlerVars, checkerVars>>

Next ==
  \/ \E p \in Pings : HandlerStep(p) \/ PanickingRequest(p)
  \/ CheckerStep
  \/ WriterStep
  \/ WriterFault
  \/ Tick
  \/ Crash

Spec == Init /\ [][Next]_vars

(***************************************************************************)
(* Fairness.  The thread is never blocked for good: every call it makes    *)
(* has a timeout.  Time passes.  The writer goes on taking messages, and   *)
(* does not leave one it holds unwritten for ever.  Nothing is asked of    *)
(* the handlers.                                                           *)
(***************************************************************************)
Fairness ==
  /\ WF_vars(CheckerStep)
  /\ WF_vars(Tick)
  /\ SF_vars(WriterStep /\ TakePing)
  /\ \A p \in Pings :
       SF_vars(WriterStep /\ \E S \in SUBSET held : p \in S /\ WriteToHive(S))

FairSpec == Spec /\ Fairness

-----------------------------------------------------------------------------
Queued == DOMAIN queue

Settled == UrlsOf(landed \cup refused)

\* The pings whose publishers were answered with the queue changed for them.
Stored == {p \in Pings : stage[p] \in {"inserted", "updated"}}

\* A url that was inserted leaves the queue only after the hive-writer has
\* written it to a block or refused it: no crash, lost socket, retry, block
\* number 0 or failed statement withdraws an unannounced url.
WithdrawnOnlyIfSettled ==
  \A p \in Pings :
    stage[p] = "inserted" => UrlOf[p] \in Queued \cup Settled

\* As long as nothing fails, a publisher who was answered 200 has its url in the
\* queue, or the writer has settled it: also when its Update was dropped, because
\* the url was queued, and when its live ping found the row gone after all.
AnsweredIsKept ==
  faults = 0 =>
    \A p \in Pings :
      stage[p] \in {"inserted", "updated", "dropped"}
        => UrlOf[p] \in Queued \cup Settled

\* What the writer settles it was sent, and what it was sent was once stored.
SettledWasSent ==
  /\ landed \cup refused \subseteq handed
  /\ handed \subseteq Stored

\* Nothing goes to Hive but the pings of well-formed requests for whose token the
\* look-ups in auth.db matched a row: not while it was out of reach, nor by way of
\* a row another request's ping had left.
OnlyAdmittedSent == \A p \in handed \cup landed \cup refused : Admitted(Form[p])

\* A row is marked in flight only if a ping for its url was sent.
InflightUrlWasSent ==
  \A u \in Queued : queue[u].inflight => u \in UrlsOf(handed)

\* A row belongs to the url of its ping, and no two rows share a rowid.
RowsWellFormed ==
  /\ \A u \in Queued : UrlOf[queue[u].ping] = u
  /\ \A u, v \in Queued : queue[u].rowid = queue[v].rowid => u = v

\* The ping p is handed to the hive socket in this step.
SentNow(p) == pc = "send" /\ pc' = "mark" /\ pipe' = Append(pipe, p)

\* Row r is at least as old as row s; equal ages above RetryAge do not tell.
NoYounger(r, s) == r.age > s.age \/ (r.age = s.age /\ r.age <= RetryAge)

\* The row of u was inserted before that of v, with a ping it still holds, and
\* is no younger and no less urgent.
GoesFirst(u, v) ==
  /\ stage[queue[u].ping] = "inserted"
  /\ Rank(queue[u].ping) <= Rank(queue[v].ping)
  /\ queue[u].rowid < queue[v].rowid
  /\ NoYounger(queue[u], queue[v])

\* FIFO: a ping is not sent while a row that goes first still waits to be sent for
\* the first time.  (That a live ping goes before updates inserted earlier is
\* UrgentFirst, in OrderHistory.)
NoOvertaking ==
  [][\A u, v \in Queued :
       SentNow(queue[v].ping) /\ GoesFirst(u, v)
         => queue[u].ping \in handed \/ queue[u].inflight]_vars

\* Unless the socket is replaced again and again, the url u leaves the queue
\* whenever it is in it.
Drained(u) == <>[][~SendFails]_vars => (u \in Queued ~> u \notin Queued)
=============================================================================
