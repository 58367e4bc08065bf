------------------------- MODULE OrderHistory_proofs -------------------------
(***************************************************************************)
(* Proofs that HistoryInv is an invariant, from which NoStepBack follows:  *)
(* the queue checker never goes back to an outdated ping, but for the one  *)
(* it may have in its hands; and UrgentFirst: no ping is sent before a     *)
(* more urgent one that waited when the pass began.                        *)
(***************************************************************************)
EXTENDS OrderHistory, NodeOrder_proofs

-----------------------------------------------------------------------------
(* How pings become stored.                                                *)

\* A ping becomes stored only by the statement of its handler.
LEMMA StoredBy ==
  ASSUME TypeOK, [Next]_vars, NEW q \in Pings, q \notin Stored, q \in Stored'
  PROVE  /\ stage[q] \in InProgress
         /\ InsertRow(q, stamp[q]) \/ UpdateRow(q, stamp[q])
<1>0. stage \in [Pings -> Stages]
  BY DEF TypeOK, HandlerTypeOK
<1>1. stage[q] \notin {"inserted", "updated"} /\ stage'[q] \in {"inserted", "updated"}
  BY DEF Stored
<1>2. ASSUME NEW r \in Pings, HandlerStep(r)
      PROVE  /\ stage[q] \in InProgress
             /\ InsertRow(q, stamp[q]) \/ UpdateRow(q, stamp[q])
  <2>1. CASE InsertPing(r) \/ UpdatePing(r)
    BY <1>0, <1>1, <2>1 DEF InsertPing, UpdatePing, Finish, InProgress
  <2>2. CASE Receive(r) \/ InsertRefused(r) \/ UpdateFails(r)
    BY <1>0, <1>1, <2>2 DEF Receive, InsertRefused, UpdateFails, Finish
  <2> QED BY <1>2, <2>1, <2>2 DEF HandlerStep, Handle
<1>3. \A panicking : ~HandlersExit(panicking)
  BY <1>0, <1>1 DEF HandlersExit
<1>4. \/ CheckerStep \/ WriterStep \/ WriterFault \/ Tick \/ UNCHANGED vars
      => UNCHANGED stage
  BY DEF CheckerStep, WriterStep, WriterFault, Tick, vars, handlerVars
<1> QED BY <1>1, <1>2, <1>3, <1>4 DEF Next, PanickingRequest, Crash, Exit

-----------------------------------------------------------------------------
(* The steps.                                                              *)

\* What a step of OSpec adds to the histories.
LEMMA HistoryStep ==
  ASSUME IInv, HistoryInv, [ONext]_orderVars
  PROVE  /\ [Next]_vars
         /\ prior \subseteq prior'
         /\ \A pair \in prior' \ prior :
              /\ pair[1] \in Stored /\ pair[2] \in Pings /\ pair = <<pair[1], pair[2]>>
              /\ pair[2] \notin Stored' /\ pair[2] \notin Stored
         /\ late \subseteq late'
         /\ \A pair \in late' \ late :
              /\ pair \in prior
              /\ SentNow(pair[1]) /\ Outdates(pair[2], pair[1])
<1>1. CASE UNCHANGED orderVars
  BY <1>1 DEF orderVars
<1>2. CASE ONext
  <2>1. Next /\ prior \subseteq prior' /\ late \subseteq late'
    BY <1>2 DEF ONext
  <2>2. ASSUME NEW pair \in prior' \ prior
        PROVE  /\ pair[1] \in Stored /\ pair[2] \in Pings /\ pair = <<pair[1], pair[2]>>
               /\ pair[2] \notin Stored' /\ pair[2] \notin Stored
    <3>1. /\ pair[1] \in Stored /\ pair[2] \in Pings /\ pair = <<pair[1], pair[2]>>
          /\ stage[pair[2]] = "new"
      BY <1>2, <2>2 DEF ONext
    <3>2. pair[2] \notin Stored
      BY <3>1 DEF Stored
    <3>3. pair[2] \notin Stored'
      BY <2>1, <3>1, <3>2, StoredBy DEF IInv, InProgress
    <3> QED BY <3>1, <3>2, <3>3
  <2>3. \A pair \in late' \ late :
          /\ pair \in prior
          /\ SentNow(pair[1]) /\ Outdates(pair[2], pair[1])
    BY <1>2 DEF ONext
  <2> QED BY <2>1, <2>2, <2>3
<1> QED BY <1>1, <1>2

LEMMA StepPrior ==
  ASSUME IInv, HistoryInv, [ONext]_orderVars
  PROVE  PriorInv'
<1>1. PriorInv /\ Stored \subseteq Stored'
  BY HistoryStep, StoredGrows DEF HistoryInv, IInv
<1>2. \A pair \in prior' : pair \in Stored' \X Pings
  BY <1>1, HistoryStep DEF PriorInv
<1>3. \A pair \in prior' : pair[1] # pair[2]
  BY <1>1, HistoryStep DEF PriorInv
<1>4. late' \subseteq prior'
  BY <1>1, HistoryStep DEF PriorInv
<1> QED BY <1>2, <1>3, <1>4 DEF PriorInv

\* A ping that is outdated after a step was before, or its successor has just
\* been stored.
LEMMA OutdatedStep ==
  ASSUME IInv, HistoryInv, [ONext]_orderVars, NEW p, NEW q, Outdates(q, p)'
  PROVE  /\ p \in Stored /\ q \in Pings /\ p # q /\ UrlOf[p] = UrlOf[q]
         /\ q \in Stored => Outdates(q, p)
<1>1. q \in Stored' /\ <<p, q>> \in prior' /\ UrlOf[p] = UrlOf[q]
  BY DEF Outdates
<1>2. <<p, q>> \in prior
  BY <1>1, HistoryStep
<1>3. p \in Stored /\ q \in Pings /\ p # q
  BY <1>2 DEF HistoryInv, PriorInv
<1> QED BY <1>1, <1>2, <1>3 DEF Outdates

\* What is outdated stays so.
LEMMA OutdatedKept ==
  ASSUME IInv, HistoryInv, [ONext]_orderVars, NEW p, NEW q, Outdates(q, p)
  PROVE  Outdates(q, p)'
  BY HistoryStep, StoredGrows DEF Outdates, IInv

\* No step puts an outdated ping into the table, and a ping that becomes
\* outdated leaves it.
LEMMA StepRowsUpToDate ==
  ASSUME IInv, HistoryInv, [ONext]_orderVars
  PROVE  RowsUpToDate'
<1> SUFFICES ASSUME NEW p \in Pings, NEW q \in Pings, Outdates(q, p)',
                    NEW u \in DOMAIN queue', queue'[u].ping = p
             PROVE  FALSE
  BY DEF RowsUpToDate, Queued
<1>1. /\ [Next]_vars /\ TypeOK /\ RowsType /\ RowsWellFormed
      /\ \A r \in Pings : stamp[r] \in Ages
  BY HistoryStep, TypeOfRows DEF IInv, TypeOK, HandlerTypeOK
<1>2. p \in Stored /\ p # q /\ UrlOf[p] = UrlOf[q] /\ (q \in Stored => Outdates(q, p))
  BY OutdatedStep
<1>3. CASE q \in Stored
  <2>1. \A v \in DOMAIN queue : queue[v].ping # p
    BY <1>2, <1>3 DEF HistoryInv, RowsUpToDate, Queued
  <2>2. ASSUME NEW P, NEW M, RowsComeFrom(P, M), p \notin P PROVE FALSE
    BY <2>1, <2>2 DEF RowsComeFrom
  <2>3. ASSUME NEW r \in Pings, stage[r] \in InProgress,
               InsertRow(r, stamp[r]) \/ UpdateRow(r, stamp[r])
        PROVE  FALSE
    <3>1. p \notin {r}
      BY <1>2, <2>3 DEF Stored, InProgress
    <3> QED BY <1>1, <2>2, <2>3, <3>1, InsertRowRows, UpdateRowRows
  <2>4. ASSUME NEW item \in batch, SetInflight(UrlOf[item.ping]) PROVE FALSE
    BY <1>1, <2>2, <2>4, ItemType, SetInflightRows
  <2>5. ASSUME NEW v \in doomed, DeleteRow(v) PROVE FALSE
    BY <1>1, <2>2, <2>5, DeleteRowRows
  <2>6. ~(ResetRows \/ AgeRows \/ UNCHANGED queue)
    BY <1>1, <2>1, <2>2, ResetRowsRows, AgeRowsRows
  <2> QED BY <1>1, <2>3, <2>4, <2>5, <2>6, RowsStep DEF InProgress
<1>4. CASE q \notin Stored
  <2>1. q \in Stored'
    BY DEF Outdates
  <2>2. InsertRow(q, stamp[q]) \/ UpdateRow(q, stamp[q])
    BY <1>1, <1>4, <2>1, StoredBy
  <2>3. \A v \in DOMAIN queue' : v = UrlOf[q] => queue'[v].ping = q
    <3>1. CASE InsertRow(q, stamp[q])
      BY <3>1 DEF InsertRow, WithRow
    <3>2. CASE UpdateRow(q, stamp[q])
      BY <1>1, <3>2, UpdateRowRows
    <3> QED BY <2>2, <3>1, <3>2
  <2>4. u = UrlOf[p]
    <3>1. RowsSound'
      BY <1>1, <2>2, SoundRows, InsertRowRows, UpdateRowRows
    <3> QED BY <3>1 DEF RowsSound
  <2> QED BY <1>2, <2>3, <2>4
<1> QED BY <1>3, <1>4

\* A selection holds no outdated ping.
LEMMA SelectedUpToDate ==
  ASSUME RowsUpToDate, NEW p \in Pings, NEW q \in Pings, Outdates(q, p),
         NEW item \in Selected
  PROVE  item.ping # p
<1>1. SelectedUrls \subseteq Queued
  BY DEF SelectedUrls, Waiting, Queued
<1>2. PICK u \in SelectedUrls :
        item = [ping |-> queue[u].ping, rowid |-> queue[u].rowid]
  BY DEF Selected
<1> QED BY <1>1, <1>2 DEF RowsUpToDate

\* No step has a ping and one it outdates in the batch when the first is sent.
LEMMA StepBatchUpToDate ==
  ASSUME IInv, FifoInv, HistoryInv, [ONext]_orderVars
  PROVE  BatchUpToDate'
<1> SUFFICES ASSUME NEW p \in Pings, NEW q \in Pings, Outdates(q, p)', q \in handed',
                    NEW item \in batch', item.ping = p
             PROVE  FALSE
  BY DEF BatchUpToDate
<1>1. /\ [Next]_vars /\ handed \subseteq Stored
      /\ \A other \in batch : other.ping \in Stored
  BY HistoryStep DEF IInv, TravelInv
<1>2. p # q /\ UrlOf[p] = UrlOf[q] /\ (q \in Stored => Outdates(q, p))
  BY OutdatedStep
<1>3. CASE q \in handed
  <2>1. Outdates(q, p)
    BY <1>1, <1>2, <1>3
  <2>2. item \notin batch
    BY <1>3, <2>1 DEF HistoryInv, BatchUpToDate
  <2>3. item \notin Selected
    BY <2>1, SelectedUpToDate DEF HistoryInv
  <2> QED BY <1>1, <2>2, <2>3, BatchStep
<1>4. CASE q \notin handed
  <2>1. PICK other \in batch : other.ping = q /\ batch' = batch
    BY <1>1, <1>4, HandedBy
  <2>2. other = item
    BY <1>2, <2>1 DEF FifoInv, OneItemEach
  <2> QED BY <1>2, <2>1, <2>2
<1> QED BY <1>3, <1>4

\* What was sent late is marked next, and does not come back.
LEMMA StepLate ==
  ASSUME IInv, FifoInv, HistoryInv, [ONext]_orderVars
  PROVE  LateIsLeaving'
<1> SUFFICES ASSUME NEW pair \in late'
             PROVE  /\ Outdates(pair[2], pair[1])'
                    /\ \A item \in batch' : item.ping = pair[1]
                         => pc' = "mark" /\ IsNext(item, batch')
  BY DEF LateIsLeaving, IsNext
<1> DEFINE p == pair[1]
           q == pair[2]
<1>1. [Next]_vars /\ TypeOK
  BY HistoryStep DEF IInv
<1>2. pair \in prior /\ Outdates(q, p)
  BY HistoryStep DEF HistoryInv, LateIsLeaving, PriorInv
<1>3. p \in Pings /\ q \in Pings
  BY <1>2 DEF HistoryInv, PriorInv, Stored
<1>4. CASE pair \in late
  <2> SUFFICES ASSUME NEW item \in batch', item.ping = p
               PROVE  pc' = "mark" /\ IsNext(item, batch')
    BY <1>2, OutdatedKept
  <2>1. item \in batch
    <3>1. item \notin Selected
      BY <1>2, <1>3, SelectedUpToDate DEF HistoryInv
    <3> QED BY <1>1, <3>1, BatchStep
  <2>2. pc = "mark" /\ IsNext(item, batch)
    BY <1>4, <2>1 DEF HistoryInv, LateIsLeaving
  <2>3. UNCHANGED <<pc, batch>>
    BY <1>1, <2>1, <2>2, MarkedNext
  <2> QED BY <2>2, <2>3
<1>5. CASE pair \notin late
  <2>1. SentNow(p)
    BY <1>5, HistoryStep
  <2>2. PICK item \in batch : Send(item) /\ item.ping = p
    BY <1>1, <2>1, SentIsNext
  <2>3. IsNext(item, batch) /\ batch' = batch /\ pc' = "mark"
    BY <2>2 DEF Send
  <2>4. \A other \in batch : other.ping = p => other = item
    BY <2>2 DEF FifoInv, OneItemEach
  <2> QED BY <1>2, <2>3, <2>4, OutdatedKept
<1> QED BY <1>4, <1>5

\* A pass begins with a selection.
LEMMA PassBegins ==
  ASSUME [Next]_vars, ~inBatch, inBatch'
  PROVE  Select
<1>1. CASE CheckerStep
  <2>1. ReceiveNothing \/ ReceiveReply \/ SendFails \/ Reset => ~inBatch'
    BY DEF ReceiveNothing, ReceiveReply, SendFails, Reset
  <2>2. \A u \in doomed : Delete(u) => ~inBatch'
    BY DEF Delete
  <2>3. \A item \in batch : Send(item) \/ Mark(item) => ~inBatch'
    BY DEF Send, Mark
  <2> QED BY <1>1, <2>1, <2>2, <2>3 DEF CheckerStep, CheckerNext
<1>2. \A panicking : ~Exit(panicking)
  BY DEF Exit, CheckerExits
<1>3. ~(\/ \E p \in Pings : HandlerStep(p)
        \/ WriterStep \/ WriterFault \/ Tick \/ UNCHANGED vars)
  BY DEF HandlerStep, WriterStep, WriterFault, Tick, vars, checkerVars
<1> QED BY <1>1, <1>2, <1>3 DEF Next, PanickingRequest, Crash

\* Within a pass the next item of the batch is sent, or one that was sent is
\* marked, or the rest is abandoned, or the batch stays as it is.
LEMMA PassGoesOn ==
  ASSUME PassInv, [Next]_vars, inBatch, inBatch'
  PROVE  \/ UNCHANGED <<pc, batch>>
         \/ UNCHANGED batch /\ pc' # "mark"
         \/ UNCHANGED batch /\ \E item \in batch :
              IsNext(item, batch) /\ SentNow(item.ping)
         \/ \E item \in batch :
              /\ pc = "mark" /\ pc' # "mark"
              /\ IsNext(item, batch) /\ batch' = batch \ {item}
         \/ batch' = {}
<1>1. CASE CheckerStep
  <2>1. CASE ReceiveNothing \/ ReceiveReply
    BY <2>1 DEF ReceiveNothing, ReceiveReply, AfterReceive
  <2>2. CASE \E u \in doomed : Delete(u)
    BY <2>2 DEF Delete, AfterReceive
  <2>3. ~Select /\ ~Reset
    BY DEF PassInv, Select, Reset
  <2>4. CASE SendFails
    BY <2>4 DEF SendFails
  <2>5. CASE \E item \in batch : Send(item)
    BY <2>5 DEF Send, SentNow
  <2>6. CASE \E item \in batch : Mark(item)
    BY <2>6 DEF Mark
  <2> QED BY <1>1, <2>1, <2>2, <2>3, <2>4, <2>5, <2>6 DEF CheckerStep, CheckerNext
<1>2. \A panicking : ~Exit(panicking)
  BY DEF Exit, CheckerExits
<1>3. \/ \E p \in Pings : HandlerStep(p)
      \/ WriterStep \/ WriterFault \/ Tick \/ UNCHANGED vars
      => UNCHANGED <<pc, batch>>
  BY DEF HandlerStep, WriterStep, WriterFault, Tick, vars, checkerVars
<1> QED BY <1>1, <1>2, <1>3 DEF Next, PanickingRequest, Crash

\* A selection takes the ping of a waiting row, or only others as urgent.
LEMMA SelectedOrAsUrgent ==
  ASSUME IInv, FifoInv, NEW u \in Waiting
  PROVE  \/ \E item \in Selected : item.ping = queue[u].ping
         \/ \A item \in Selected : Rank(item.ping) <= Rank(queue[u].ping)
<1>1. RowsType /\ RowsSound /\ IsFiniteSet(DOMAIN queue)
  BY TypeOfRows, SoundRows DEF IInv, FifoInv, Queued
<1>2. CASE u \in SelectedUrls
  <2>1. ItemOf(u) \in Selected
    BY <1>2 DEF Selected, ItemOf
  <2>2. ItemOf(u).ping = queue[u].ping
    BY DEF ItemOf
  <2> QED BY <2>1, <2>2
<1>3. CASE u \notin SelectedUrls
  <2> SUFFICES ASSUME NEW item \in Selected
               PROVE  Rank(item.ping) <= Rank(queue[u].ping)
    OBVIOUS
  <2>1. PICK v \in SelectedUrls : item = ItemOf(v)
    BY DEF Selected, ItemOf
  <2>2. Before(queue[v], queue[u])
    BY <1>1, <1>3, NotSelectedIsLate
  <2>3. queue[u].ping \in Pings /\ queue[v].ping \in Pings
    BY <1>1 DEF RowsType, Row, Waiting, SelectedUrls
  <2>4. \A p \in Pings : Rank(p) \in 1 .. 3
    BY PingAssumption DEF Rank, Reasons
  <2>5. item.ping = queue[v].ping
    BY <2>1 DEF ItemOf
  <2> QED BY <2>2, <2>3, <2>4, <2>5, SMT DEF Before
<1> QED BY <1>2, <1>3

\* What waited when the pass began stays in the batch until it is sent.
LEMMA StepWaited ==
  ASSUME IInv, FifoInv, HistoryInv, [ONext]_orderVars
  PROVE  WaitedInBatch'
<1>1. [Next]_vars /\ WaitedInBatch
  BY HistoryStep DEF HistoryInv
<1>2. CASE UNCHANGED orderVars
  BY <1>1, <1>2 DEF orderVars, vars, checkerVars, WaitedInBatch, IsNext
<1>3. CASE ONext /\ ~inBatch'
  BY <1>3 DEF ONext, WaitedNext, WaitedInBatch
<1>4. CASE ONext /\ ~inBatch /\ inBatch'
  <2>1. waited' = {queue[u].ping : u \in Waiting}
    BY <1>4 DEF ONext, WaitedNext
  <2>2. Select
    BY <1>1, <1>4, PassBegins
  <2>3. (batch' = Selected \/ batch' = {}) /\ pc' # "mark"
    BY <2>2 DEF Select
  <2> SUFFICES ASSUME NEW u \in Waiting
               PROVE  \/ \E item \in batch' : item.ping = queue[u].ping
                      \/ \A item \in batch' : Rank(item.ping) <= Rank(queue[u].ping)
    BY <2>1, <2>3 DEF WaitedInBatch
  <2> QED BY <2>3, SelectedOrAsUrgent
<1>5. CASE ONext /\ inBatch /\ inBatch'
  <2>1. waited' = {p \in waited : ~SentNow(p)}
    BY <1>5 DEF ONext, WaitedNext
  <2> SUFFICES ASSUME NEW p \in waited, ~SentNow(p)
               PROVE  \/ \E item \in batch' :
                           item.ping = p /\ ~(pc' = "mark" /\ IsNext(item, batch'))
                      \/ \A item \in batch' : Rank(item.ping) <= Rank(p)
    BY <2>1 DEF WaitedInBatch, IsNext
  <2>2. batch \in SUBSET Item
    BY DEF IInv, TypeOK, CheckerTypeOK
  <2>3. CASE UNCHANGED <<pc, batch>>
    BY <1>1, <2>3 DEF WaitedInBatch, IsNext
  <2>4. CASE UNCHANGED batch /\ pc' # "mark"
    BY <1>1, <2>4 DEF WaitedInBatch
  <2>5. CASE UNCHANGED batch /\ \E next \in batch :
               IsNext(next, batch) /\ SentNow(next.ping)
    <3>1. PICK next \in batch : IsNext(next, batch) /\ SentNow(next.ping)
      BY <2>5
    <3>2. \A item \in batch : item.ping = p => ~IsNext(item, batch)
      BY <2>2, <3>1, NextIsUnique
    <3> QED BY <1>1, <2>5, <3>2 DEF WaitedInBatch
  <2>6. CASE \E next \in batch :
               /\ pc = "mark" /\ pc' # "mark"
               /\ IsNext(next, batch) /\ batch' = batch \ {next}
    BY <1>1, <2>6 DEF WaitedInBatch
  <2>7. CASE batch' = {}
    BY <2>7
  <2> QED BY <1>1, <1>5, <2>3, <2>4, <2>5, <2>6, <2>7, PassGoesOn DEF FifoInv
<1> QED BY <1>2, <1>3, <1>4, <1>5

\* With its histories left out, a node is a node.
LEMMA HistoryIsANode == OSpec => Spec
<1>1. [ONext]_orderVars => [Next]_vars
  BY DEF ONext, orderVars
<1> QED BY <1>1, PTL DEF OSpec, OInit, Spec

-----------------------------------------------------------------------------
(* The invariant and what it gives.                                        *)

\* What the checker sends is not outdated by a ping that was sent, nor sent
\* late before.
LEMMA SentIsCurrent ==
  ASSUME IInv, HistoryInv, [ONext]_orderVars, NEW p \in Pings, NEW q \in Pings,
         SentNow(p), Outdates(q, p)
  PROVE  q \notin handed /\ <<p, q>> \notin late
<1>1. PICK item \in batch : Send(item) /\ item.ping = p
  BY HistoryStep, SentIsNext
<1>2. q \notin handed
  BY <1>1 DEF HistoryInv, BatchUpToDate
<1>3. <<p, q>> \notin late
  BY <1>1 DEF HistoryInv, LateIsLeaving, SentNow
<1> QED BY <1>2, <1>3

\* What the checker sends is no less urgent than any ping that waited when the pass
\* began and is unsent.
LEMMA SentIsUrgent ==
  ASSUME IInv, HistoryInv, [ONext]_orderVars, NEW p \in waited, NEW q \in Pings,
         SentNow(q)
  PROVE  Rank(q) <= Rank(p)
<1>1. PICK item \in batch : Send(item) /\ item.ping = q
  BY HistoryStep, SentIsNext
<1>2. /\ pc = "send" /\ IsNext(item, batch)
      /\ \A other \in batch : other.ping \in Pings
  BY <1>1 DEF Send, IInv, TypeOK, CheckerTypeOK, Item
<1>3. \A r \in Pings : Rank(r) \in 1 .. 3
  BY PingAssumption DEF Rank, Reasons
<1>4. \A other \in batch : Rank(q) <= Rank(other.ping)
  BY <1>1, <1>2, <1>3, SMT DEF IsNext, Before
<1>5. \/ \E other \in batch : other.ping = p
      \/ \A other \in batch : Rank(other.ping) <= Rank(p)
  BY DEF HistoryInv, WaitedInBatch
<1> QED BY <1>1, <1>4, <1>5

\* Outdated pings are in nothing but a batch read before they were outdated, and
\* what waited when a pass began goes with its batch.
THEOREM HistoryIsKept == OSpec => []HistoryInv
<1>1. OInit => HistoryInv
  <2>1. OInit => prior = {} /\ late = {} /\ waited = {} /\ batch = {}
    BY DEF OInit, Init, CheckerInit
  <2> QED BY <2>1 DEF HistoryInv, PriorInv, RowsUpToDate, BatchUpToDate,
                      LateIsLeaving, WaitedInBatch, Outdates
<1>2. IInv /\ FifoInv /\ HistoryInv /\ [ONext]_orderVars => HistoryInv'
  BY StepPrior, StepRowsUpToDate, StepBatchUpToDate, StepLate, StepWaited
     DEF HistoryInv
<1> QED BY <1>1, <1>2, HistoryIsANode, Inductive, BatchOrdered, PTL DEF OSpec

\* A node never steps back: an outdated ping is sent at most once more, from a
\* batch read before it was outdated, and not once its successor was sent.
THEOREM NeverStepsBack == OSpec => NoStepBack
<1>1. IInv /\ HistoryInv /\ [ONext]_orderVars =>
        [\A p, q \in Pings : SentNow(p) /\ Outdates(q, p)
           => q \notin handed /\ <<p, q>> \notin late]_orderVars
  BY SentIsCurrent
<1> QED BY <1>1, HistoryIsANode, HistoryIsKept, Inductive, PTL
        DEF OSpec, NoStepBack

\* Within a pass nothing is sent while a more urgent ping that waited when the pass
\* began is unsent, whatever handlers, replies and seconds do to the table.
THEOREM UrgentGoFirst == OSpec => UrgentFirst
<1>1. IInv /\ HistoryInv /\ [ONext]_orderVars =>
        [\A p \in waited, q \in Pings : SentNow(q) => Rank(q) <= Rank(p)]_orderVars
  BY SentIsUrgent
<1> QED BY <1>1, HistoryIsANode, HistoryIsKept, Inductive, PTL
        DEF OSpec, UrgentFirst
=============================================================================
