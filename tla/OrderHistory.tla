---------------------------- MODULE OrderHistory ----------------------------
(***************************************************************************)
(* PodpingNode with three history variables: which handlers had finished   *)
(* when another began, the order a publisher can know of; which pings were *)
(* sent although a newer one was stored; and which pings a pass found      *)
(* waiting when it read its batch and has not sent yet.                    *)
(***************************************************************************)
EXTENDS NodeOrder

VARIABLES
  prior,        \* <<p, q>> \in prior: p was answered before q came in
  late,         \* <<p, q>> \in late: p was sent after q was stored
  waited        \* the pings that waited at the beginning of the pass, unsent

orderVars == <<vars, prior, late, waited>>

\* q is stored and makes p, a ping of the same feed, out of date.
Outdates(q, p) == q \in Stored /\ <<p, q>> \in prior /\ UrlOf[p] = UrlOf[q]

OInit == Init /\ prior = {} /\ late = {} /\ waited = {}

\* A pass begins when its batch is read and ends with its reset.
WaitedNext ==
  CASE ~inBatch'            -> {}
    [] ~inBatch /\ inBatch' -> {queue[u].ping : u \in Waiting}
    [] inBatch /\ inBatch'  -> {p \in waited : ~SentNow(p)}

ONext ==
  /\ Next
  /\ prior' = prior \cup
       Stored \X {q \in Pings : stage[q] = "new" /\ stage'[q] # "new"}
  /\ late' = late \cup
       {pair \in prior : SentNow(pair[1]) /\ Outdates(pair[2], pair[1])}
  /\ waited' = WaitedNext

OSpec == OInit /\ [][ONext]_orderVars

\* An outdated ping is sent at most once more, from a batch that was read
\* before the newer ping was stored, and not after the newer one has been: the
\* table never goes back to it, and batches are worked off in turn.
NoStepBack ==
  [][\A p, q \in Pings :
       SentNow(p) /\ Outdates(q, p)
         => q \notin handed /\ <<p, q>> \notin late]_orderVars

\* README, "in FIFO order (live reason is prioritized)": no ping is sent while a
\* more urgent one that waited when the pass began is unsent, also if that one was
\* inserted later, and although rows change, go and come back during the pass.
UrgentFirst ==
  [][\A p \in waited, q \in Pings :
       SentNow(q) => Rank(q) <= Rank(p)]_orderVars

-----------------------------------------------------------------------------
(* The inductive invariant behind them, with IInv and FifoInv.               *)

\* A ping that another may outdate was stored before the other came in.
PriorInv ==
  /\ prior \subseteq Stored \X Pings
  /\ \A pair \in prior : pair[1] # pair[2]
  /\ late \subseteq prior

\* The table holds no outdated ping.
RowsUpToDate ==
  \A p, q \in Pings : Outdates(q, p) => \A u \in Queued : queue[u].ping # p

\* A batch holds no ping outdated by one that was sent.
BatchUpToDate ==
  \A p, q \in Pings :
    Outdates(q, p) /\ q \in handed => \A item \in batch : item.ping # p

\* A ping that was sent late is on its way out of the batch.
LateIsLeaving ==
  \A pair \in late :
    /\ Outdates(pair[2], pair[1])
    /\ \A item \in batch :
         item.ping = pair[1] => pc = "mark" /\ IsNext(item, batch)

\* A ping that waited at the beginning of the pass is in the batch, and not the one
\* just sent, or was left out for others as urgent.
WaitedInBatch ==
  \A p \in waited :
    \/ \E item \in batch :
         item.ping = p /\ ~(pc = "mark" /\ IsNext(item, batch))
    \/ \A item \in batch : Rank(item.ping) <= Rank(p)

\* Outdated pings are in nothing but a batch read before they were outdated, and
\* leave it before or with their sending; what waited goes with the batch.
HistoryInv ==
  /\ PriorInv
  /\ RowsUpToDate
  /\ BatchUpToDate
  /\ LateIsLeaving
  /\ WaitedInBatch
=============================================================================
