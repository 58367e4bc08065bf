---------------------------- MODULE RetryHistory ----------------------------
(***************************************************************************)
(* PodpingNode with one history variable: how long ago each ping was last  *)
(* handed to the hive socket, if its row was marked or had gone by then.   *)
(***************************************************************************)
EXTENDS NodeOrder

VARIABLE since    \* since[p]: seconds since p was last sent and recorded

Never == -1

retryVars == <<vars, since>>

RInit == Init /\ since = [p \in Pings |-> Never]

\* The sending of p goes unrecorded: the mark fails, or the process exits before.
Unrecorded(p) ==
  /\ pc = "mark" /\ pc' # "mark"
  /\ \E item \in batch : IsNext(item, batch) /\ item.ping = p
  /\ ~SetInflight(UrlOf[p])

RNext ==
  \/ /\ Next /\ ~Tick
     /\ since' = [p \in Pings |-> IF SentNow(p) THEN 0
                                  ELSE IF Unrecorded(p) THEN Never
                                  ELSE since[p]]
  \/ /\ Tick
     /\ since' = [p \in Pings |->
                    IF since[p] = Never THEN Never ELSE Older(since[p])]

RSpec == RInit /\ [][RNext]_retryVars

\* No hot loop: a ping whose sending was recorded is not sent again within
\* SendDelay of it, whatever fails, crashes or is replaced, although its row may
\* be reset in the very pass that sent it; the reset makes the row young again.
NoHotResend ==
  [][\A p \in Pings :
       SentNow(p) /\ since[p] # Never => since[p] > SendDelay]_retryVars

\* README and the canary runbook: another attempt is made, unacked pings are
\* sent again, after 180 seconds.  (The age that is compared with 180 seconds
\* counts from the request, not from the attempt.)
RetryAfter180 ==
  [][\A p \in Pings :
       SentNow(p) /\ since[p] # Never => since[p] >= RetryAge]_retryVars
-----------------------------------------------------------------------------
(* The inductive invariant behind NoHotResend, with IInv and FifoInv.        *)

\* The item was sent, and its row comes to be marked next.
BeingMarked(item) == pc = "mark" /\ IsNext(item, batch)

\* A ping that has ever been sent is one of those handed to the socket.
SinceInv ==
  /\ since \in [Pings -> {Never} \cup Ages]
  /\ \A p \in Pings : since[p] # Never => p \in handed

\* The row of a ping that was sent and recorded is in flight, or so young that
\* SendDelay has to pass once more, unless it is about to be marked.
RowsRest ==
  \A u \in Queued : LET p == queue[u].ping
                    IN  since[p] # Never =>
                          \/ queue[u].inflight
                          \/ queue[u].age <= since[p]
                          \/ \E item \in batch : BeingMarked(item) /\ item.ping = p

\* What is in the batch may be sent, unless it just was.
BatchRested ==
  \A item \in batch :
    since[item.ping] # Never =>
      since[item.ping] > SendDelay \/ BeingMarked(item)

RetryInv ==
  /\ SinceInv
  /\ RowsRest
  /\ BatchRested
=============================================================================
