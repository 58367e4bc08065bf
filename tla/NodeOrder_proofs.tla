--------------------------- MODULE NodeOrder_proofs ---------------------------
(***************************************************************************)
(* Proofs that a pass takes from the table what goes first and no more     *)
(* than a batch, and that a node keeps the order of its queue, first in    *)
(* first out and live pings first: FifoInv is an invariant, from which     *)
(* PassBound, LeftOutOnlyByFullBatch and NoOvertaking follow.              *)
(***************************************************************************)
EXTENDS NodeOrder, PodpingNode_proofs

-----------------------------------------------------------------------------
(* The order of a selection.                                               *)

\* A selection holds whatever goes before any of its rows.
LEMMA SelectedInOrder ==
  ASSUME TypeOK, IsFiniteSet(Queued), NEW u \in Queued, NEW v \in SelectedUrls,
         GoesFirst(u, v)
  PROVE  queue[u].inflight \/ u \in SelectedUrls
<1> SUFFICES ASSUME ~queue[u].inflight PROVE u \in SelectedUrls
  OBVIOUS
<1>1. RowsType
  BY TypeOfRows
<1>2. v \in Waiting /\ v \in Queued
  BY DEF SelectedUrls, Waiting, Queued
<1>3. /\ queue[u].ping \in Pings /\ queue[v].ping \in Pings
      /\ queue[u].rowid \in Nat /\ queue[v].rowid \in Nat
      /\ queue[u].age \in Ages /\ queue[v].age \in Ages
  BY <1>1, <1>2 DEF RowsType, Row, Queued
<1>4. u \in Waiting
  <2>1. queue[u].age >= queue[v].age
    BY <1>3, PingAssumption, SMT DEF GoesFirst, NoYounger, Ages
  <2>2. queue[v].age > SendDelay
    BY <1>2 DEF Waiting
  <2>3. queue[u].age > SendDelay
    BY <1>3, <2>1, <2>2, PingAssumption, SMT DEF Ages
  <2> QED BY <2>3 DEF Waiting, Queued
<1>5. Before(queue[u], queue[v])
  <2>1. \A p \in Pings : Rank(p) \in 1 .. 3
    BY PingAssumption DEF Rank, Reasons
  <2> QED BY <1>3, <2>1, SMT DEF GoesFirst, Before
<1> QED BY <1>1, <1>4, <1>5, SelectedClosed DEF Queued

-----------------------------------------------------------------------------
(* The steps.                                                              *)

\* The table stays finite.
LEMMA StepFinite ==
  ASSUME TypeOK, IsFiniteSet(Queued), [Next]_vars
  PROVE  IsFiniteSet(Queued')
<1>1. RowsType /\ \A p \in Pings : stamp[p] \in Ages
  BY TypeOfRows DEF TypeOK, HandlerTypeOK
<1>2. \A p \in Pings :
        InsertRow(p, stamp[p]) => Queued' = Queued \cup {UrlOf[p]}
  BY <1>1, InsertRowRows DEF Queued
<1>3. \A p \in Pings : UpdateRow(p, stamp[p]) => Queued' = Queued
  BY <1>1, UpdateRowRows DEF Queued
<1>4. \A item \in batch : SetInflight(UrlOf[item.ping]) => Queued' = Queued
  BY <1>1, ItemType, SetInflightRows DEF Queued
<1>5. \A u \in doomed : DeleteRow(u) => Queued' = Queued \ {u}
  BY <1>1, DeleteRowRows DEF Queued
<1>6. ResetRows \/ AgeRows => Queued' = Queued
  BY <1>1, ResetRowsRows, AgeRowsRows DEF Queued
<1>7. UNCHANGED queue => Queued' = Queued
  BY DEF Queued
<1>8. \A u : IsFiniteSet(Queued \cup {u}) /\ IsFiniteSet(Queued \ {u})
  BY FS_AddElement, FS_RemoveElement
<1> QED BY <1>2, <1>3, <1>4, <1>5, <1>6, <1>7, <1>8, RowsStep

\* A pass selects, works off its batch, resets and starts anew, in this order.
LEMMA StepPass ==
  ASSUME PassInv, [Next]_vars
  PROVE  PassInv'
<1>1. CASE UNCHANGED <<pc, inBatch, batch, sent>>
  BY <1>1 DEF PassInv
<1>2. CASE CheckerStep
  <2>1. ReceiveNothing \/ ReceiveReply \/ Select \/ SendFails \/ Reset => PassInv'
    BY DEF PassInv, ReceiveNothing, ReceiveReply, Select, SendFails, Reset,
           AfterReceive
  <2>2. \A u \in doomed : Delete(u) => PassInv'
    BY DEF PassInv, Delete, AfterReceive
  <2>3. \A item \in batch : Send(item) \/ Mark(item) => PassInv'
    BY DEF PassInv, Send, Mark
  <2> QED BY <1>2, <2>1, <2>2, <2>3 DEF CheckerStep, CheckerNext
<1>3. \A panicking : Exit(panicking) => PassInv'
  BY DEF PassInv, Exit, CheckerExits
<1>4. \/ \E p \in Pings : HandlerStep(p)
      \/ WriterStep \/ WriterFault \/ Tick \/ UNCHANGED vars
      => UNCHANGED <<pc, inBatch, batch, sent>>
  BY DEF HandlerStep, WriterStep, WriterFault, Tick, vars, checkerVars
<1> QED BY <1>1, <1>2, <1>3, <1>4 DEF Next, PanickingRequest, Crash

\* A selection fits, and each ping that is sent leaves the batch and is counted.
LEMMA StepPassBound ==
  ASSUME IInv, FifoInv, [Next]_vars
  PROVE  PassBound'
<1>1. /\ RowsType /\ RowsSound /\ IsFiniteSet(DOMAIN queue)
      /\ PassBound /\ PassInv /\ sent \in Nat
  BY TypeOfRows, SoundRows DEF IInv, TypeOK, CheckerTypeOK, FifoInv, Queued
<1>2. CASE UNCHANGED <<batch, sent>>
  BY <1>1, <1>2 DEF PassBound
<1>3. CASE batch' = {} /\ (sent' = 0 \/ sent' = sent)
  <2>1. Cardinality(batch) \in Nat
    BY <1>1, FS_CardinalityType DEF PassBound
  <2>2. IsFiniteSet(batch') /\ Cardinality(batch') = 0
    BY <1>3, FS_EmptySet
  <2> QED BY <1>1, <1>3, <2>1, <2>2, PingAssumption, SMT DEF PassBound
<1>4. CASE Select
  <2>1. sent' = 0
    BY <1>1, <1>4 DEF Select, PassInv
  <2>2. CASE batch' = Selected
    <3>1. /\ IsFiniteSet(Selected) /\ Cardinality(Selected) \in Nat
          /\ Cardinality(Selected) <= BatchSize
      BY <1>1, SelectedIsCounted, SelectedUrlsFit
    <3>2. Cardinality(batch') = Cardinality(Selected) /\ IsFiniteSet(batch')
      BY <2>2, <3>1
    <3> QED BY <2>1, <3>1, <3>2, PingAssumption, SMT DEF PassBound
  <2>3. CASE batch' = {}
    BY <1>3, <2>1, <2>3
  <2> QED BY <1>4, <2>2, <2>3 DEF Select
<1>5. ASSUME NEW item \in batch, Mark(item) PROVE PassBound'
  <2>1. batch' = batch \ {item} /\ sent' = sent + 1
    BY <1>5 DEF Mark
  <2>2. /\ Cardinality(batch) \in Nat
        /\ IsFiniteSet(batch') /\ Cardinality(batch') = Cardinality(batch) - 1
    BY <1>1, <2>1, FS_CardinalityType, FS_RemoveElement DEF PassBound
  <2> QED BY <1>1, <2>1, <2>2, PingAssumption, SMT DEF PassBound
<1>6. CASE CheckerStep
  <2>1. ReceiveNothing \/ ReceiveReply => UNCHANGED <<batch, sent>>
    BY DEF ReceiveNothing, ReceiveReply
  <2>2. \A u \in doomed : Delete(u) => UNCHANGED <<batch, sent>>
    BY DEF Delete
  <2>3. \A item \in batch : Send(item) => UNCHANGED <<batch, sent>>
    BY DEF Send
  <2>4. SendFails \/ Reset => batch' = {} /\ (sent' = 0 \/ sent' = sent)
    BY <1>1 DEF SendFails, Reset, PassInv
  <2> QED BY <1>2, <1>3, <1>4, <1>5, <1>6, <2>1, <2>2, <2>3, <2>4
          DEF CheckerStep, CheckerNext
<1>7. \A panicking : Exit(panicking) => batch' = {} /\ sent' = 0
  BY DEF Exit, CheckerExits
<1>8. \/ \E p \in Pings : HandlerStep(p)
      \/ WriterStep \/ WriterFault \/ Tick \/ UNCHANGED vars
      => UNCHANGED <<batch, sent>>
  BY DEF HandlerStep, WriterStep, WriterFault, Tick, vars, checkerVars
<1> QED BY <1>2, <1>3, <1>6, <1>7, <1>8 DEF Next, PanickingRequest, Crash

\* A selection takes a row once, and a batch only shrinks.
LEMMA StepOneItemEach ==
  ASSUME IInv, OneItemEach, [Next]_vars
  PROVE  OneItemEach'
<1>1. CASE batch' \subseteq batch
  BY <1>1 DEF OneItemEach
<1>2. CASE batch' = Selected
  <2>1. \A item \in Selected : \E u \in Queued : item = ItemOf(u)
    BY DEF Selected, SelectedUrls, Waiting, Queued, ItemOf
  <2>2. \A u \in Queued : UrlOf[ItemOf(u).ping] = u
    BY DEF IInv, RowsWellFormed, ItemOf
  <2> QED BY <1>2, <2>1, <2>2 DEF OneItemEach
<1> QED BY <1>1, <1>2, BatchStep

\* The part of FifoInv that a step has to keep for the rows of u and v and an
\* item of the batch.
Kept(item, u, v) ==
  queue[v].ping = item.ping =>
    /\ item.rowid = queue[v].rowid
    /\ GoesFirst(u, v)
         => queue[u].ping \in handed \/ queue[u].inflight \/ ItemOf(u) \in batch

LEMMA KeptIsAll ==
  ItemsMatchRows /\ BatchInOrder
    <=> \A item \in batch, u, v \in Queued : Kept(item, u, v)
  BY DEF ItemsMatchRows, BatchInOrder, Kept

\* The rows u and v and the pings in them are as they were, u has not left
\* flight, and went first if it does now.
SamePair(u, v) ==
  /\ u \in Queued /\ v \in Queued
  /\ queue'[u].ping = queue[u].ping /\ queue'[u].rowid = queue[u].rowid
  /\ queue'[v].ping = queue[v].ping /\ queue'[v].rowid = queue[v].rowid
  /\ queue[u].inflight => queue'[u].inflight
  /\ GoesFirst(u, v)' => GoesFirst(u, v)

\* Then an item that was kept is kept, if the batch only lost what was sent.
LEMMA SamePairKept ==
  ASSUME NEW item \in batch, NEW u, NEW v, Kept(item, u, v), SamePair(u, v),
         handed \subseteq handed',
         \A other \in batch \ batch' : other.ping \in handed'
  PROVE  Kept(item, u, v)'
<1> SUFFICES ASSUME queue'[v].ping = item.ping
             PROVE  /\ item.rowid = queue'[v].rowid
                    /\ GoesFirst(u, v)' =>
                         queue'[u].ping \in handed' \/ queue'[u].inflight
                           \/ ItemOf(u)' \in batch'
  BY DEF Kept
<1>1. ItemOf(u)' = ItemOf(u) /\ ItemOf(u).ping = queue[u].ping
  BY DEF SamePair, ItemOf
<1>2. queue[v].ping = item.ping
  BY DEF SamePair
<1> QED BY <1>1, <1>2 DEF Kept, SamePair

\* A row's ping is not one that is being inserted.
LEMMA NoRowInserted ==
  ASSUME TypeOK, RowsWellFormed, [Next]_vars, NEW u \in Queued,
         stage'[queue[u].ping] = "inserted"
  PROVE  stage[queue[u].ping] = "inserted"
<1>1. queue[u].ping \in Pings /\ UrlOf[queue[u].ping] = u
  BY TypeOfRows DEF RowsType, Row, Queued, RowsWellFormed
<1>2. ~InsertRow(queue[u].ping, stamp[queue[u].ping])
  BY <1>1 DEF InsertRow, Queued
<1> QED BY <1>1, <1>2, InsertedBy

\* Two rows that stay, neither getting older than the other, are the same pair.
LEMMA SameRows ==
  ASSUME TypeOK, RowsWellFormed, [Next]_vars, NEW u \in Queued, NEW v \in Queued,
         queue'[u].ping = queue[u].ping, queue'[u].rowid = queue[u].rowid,
         queue'[v].ping = queue[v].ping, queue'[v].rowid = queue[v].rowid,
         queue[u].inflight => queue'[u].inflight,
         NoYounger(queue'[u], queue'[v]) => NoYounger(queue[u], queue[v])
  PROVE  SamePair(u, v)
<1>1. GoesFirst(u, v)' => GoesFirst(u, v)
  BY NoRowInserted DEF GoesFirst
<1> QED BY <1>1 DEF SamePair

\* A step of a handler keeps what it has to.
LEMMA HandlerKeeps ==
  ASSUME IInv, FifoInv, NEW p \in Pings, HandlerStep(p), [Next]_vars,
         NEW item \in batch', NEW u \in Queued', NEW v \in Queued'
  PROVE  Kept(item, u, v)'
<1>1. batch' = batch /\ handed' = handed /\ item \in batch
  BY DEF HandlerStep, checkerVars
<1>2. TypeOK /\ RowsWellFormed /\ RowsType
  BY TypeOfRows DEF IInv
<1>3. item.ping \in Stored
  BY <1>1 DEF IInv, TravelInv
<1>4. \A x, y \in Queued : Kept(item, x, y)
  BY <1>1, KeptIsAll DEF FifoInv
<1>5. ASSUME u \in Queued, v \in Queued,
             queue'[u] = queue[u], queue'[v] = queue[v]
      PROVE  Kept(item, u, v)'
  <2>1. SamePair(u, v)
    BY <1>2, <1>5, SameRows
  <2> QED BY <1>1, <1>4, <1>5, <2>1, SamePairKept
<1>6. CASE UNCHANGED queue
  BY <1>5, <1>6 DEF Queued
<1>7. CASE InsertPing(p)
  <2>1. /\ p \notin Stored
        /\ queue' = WithRow(UrlOf[p], [ping |-> p, age |-> stamp[p],
                                       inflight |-> FALSE, rowid |-> NextRowId])
    BY <1>7 DEF InsertPing, InsertRow, Stored
  <2>2. /\ Queued' = Queued \cup {UrlOf[p]}
        /\ queue'[UrlOf[p]].ping = p /\ queue'[UrlOf[p]].rowid = NextRowId
        /\ \A x \in Queued \ {UrlOf[p]} : queue'[x] = queue[x]
    BY <2>1 DEF WithRow, Queued
  <2>3. CASE v = UrlOf[p]
    BY <1>3, <2>1, <2>2, <2>3 DEF Kept
  <2>4. CASE v # UrlOf[p] /\ u = UrlOf[p]
    <3>1. v \in Queued /\ queue'[v] = queue[v]
      BY <2>2, <2>4
    <3>2. NextRowId \in Nat /\ queue[v].rowid \in Nat /\ queue[v].rowid < NextRowId
      BY <1>2, <3>1, NextRowIdIsNew DEF RowsType, Row, Queued
    <3>3. ~(queue'[u].rowid < queue'[v].rowid)
      BY <2>2, <2>4, <3>1, <3>2, SMT
    <3>4. ~GoesFirst(u, v)'
      BY <3>3 DEF GoesFirst
    <3>5. Kept(item, v, v)
      BY <1>4, <3>1
    <3> QED BY <3>1, <3>4, <3>5 DEF Kept
  <2>5. CASE v # UrlOf[p] /\ u # UrlOf[p]
    BY <1>5, <2>2, <2>5
  <2> QED BY <2>3, <2>4, <2>5
<1>8. CASE UpdatePing(p) /\ UrlOf[p] \in Queued
  <2>1. /\ p \notin Stored
        /\ queue' = WithRow(UrlOf[p], [ping |-> p, age |-> stamp[p],
                      inflight |-> FALSE, rowid |-> queue[UrlOf[p]].rowid])
        /\ stage'[p] = "updated"
    BY <1>2, <1>8 DEF UpdatePing, UpdateRow, Stored, Queued, Finish, TypeOK,
                      HandlerTypeOK
  <2>2. /\ Queued' = Queued
        /\ queue'[UrlOf[p]].ping = p
        /\ \A x \in Queued \ {UrlOf[p]} : queue'[x] = queue[x]
    BY <1>8, <2>1 DEF WithRow, Queued
  <2>3. CASE v = UrlOf[p]
    BY <1>3, <2>1, <2>2, <2>3 DEF Kept
  <2>4. CASE v # UrlOf[p] /\ u = UrlOf[p]
    <3>1. v \in Queued /\ queue'[v] = queue[v]
      BY <2>2, <2>4
    <3>2. ~GoesFirst(u, v)'
      BY <2>1, <2>2, <2>4 DEF GoesFirst
    <3>3. Kept(item, v, v)
      BY <1>4, <3>1
    <3> QED BY <3>1, <3>2, <3>3 DEF Kept
  <2>5. CASE v # UrlOf[p] /\ u # UrlOf[p]
    BY <1>5, <2>2, <2>5
  <2> QED BY <2>3, <2>4, <2>5
<1>9. UpdatePing(p) /\ UrlOf[p] \notin Queued => UNCHANGED queue
  BY DEF UpdatePing, UpdateRow, Queued
<1>10. Receive(p) \/ InsertRefused(p) \/ UpdateFails(p) => UNCHANGED queue
  BY DEF Receive, InsertRefused, UpdateFails
<1> QED BY <1>6, <1>7, <1>8, <1>9, <1>10 DEF HandlerStep, Handle

\* So does a step of the checker.
LEMMA CheckerKeeps ==
  ASSUME IInv, FifoInv, CheckerStep, [Next]_vars,
         NEW item \in batch', NEW u \in Queued', NEW v \in Queued'
  PROVE  Kept(item, u, v)'
<1>1. /\ TypeOK /\ RowsWellFormed /\ RowsType /\ MarkInv /\ IsFiniteSet(Queued)
      /\ handed \subseteq handed'
      /\ UNCHANGED stage
  BY TypeOfRows, HandedGrows DEF IInv, FifoInv, CheckerStep, handlerVars
<1>2. ASSUME item \in batch, u \in Queued, v \in Queued, SamePair(u, v),
             \A other \in batch \ batch' : other.ping \in handed'
      PROVE  Kept(item, u, v)'
  <2>1. Kept(item, u, v)
    BY <1>2, KeptIsAll DEF FifoInv
  <2> QED BY <1>1, <1>2, <2>1, SamePairKept
<1>3. CASE UNCHANGED <<queue, batch>>
  <2>1. u \in Queued /\ v \in Queued /\ item \in batch
    BY <1>3 DEF Queued
  <2>2. SamePair(u, v)
    BY <1>1, <1>3, <2>1, SameRows
  <2> QED BY <1>2, <1>3, <2>1, <2>2
<1>4. CASE Select
  <2>1. UNCHANGED queue /\ (batch' = {} \/ batch' = Selected) /\ handed' = handed
    BY <1>4 DEF Select
  <2>2. PICK w \in SelectedUrls : item = ItemOf(w)
    BY <2>1 DEF Selected, ItemOf
  <2>3. w \in Queued /\ u \in Queued /\ v \in Queued
    BY <2>1, <2>2 DEF SelectedUrls, Waiting, Queued
  <2>4. GoesFirst(u, v)' <=> GoesFirst(u, v)
    BY <1>1, <2>1 DEF GoesFirst
  <2>5. ASSUME queue[v].ping = item.ping PROVE v = w
    BY <1>1, <2>2, <2>3, <2>5 DEF RowsWellFormed, ItemOf
  <2>6. ASSUME GoesFirst(u, w)
        PROVE  queue[u].inflight \/ ItemOf(u) \in batch'
    <3>1. queue[u].inflight \/ u \in SelectedUrls
      BY <1>1, <2>2, <2>3, <2>6, SelectedInOrder
    <3> QED BY <2>1, <3>1 DEF Selected, ItemOf
  <2>7. ItemOf(u)' = ItemOf(u) /\ item.rowid = queue[w].rowid
    BY <2>1, <2>2 DEF ItemOf
  <2> QED BY <2>1, <2>4, <2>5, <2>6, <2>7 DEF Kept
<1>5. ASSUME NEW other \in batch, Mark(other) PROVE Kept(item, u, v)'
  <2>1. /\ pc = "mark" /\ IsNext(other, batch)
        /\ batch' = batch \ {other}
        /\ SetInflight(UrlOf[other.ping]) \/ UNCHANGED queue
    BY <1>5 DEF Mark
  <2>2. other.ping \in handed'
    BY <1>1, <2>1 DEF MarkInv
  <2>3. /\ DOMAIN queue' = DOMAIN queue
        /\ \A x \in DOMAIN queue :
             /\ queue'[x].ping = queue[x].ping
             /\ queue'[x].rowid = queue[x].rowid
             /\ queue'[x].age = queue[x].age
             /\ queue[x].inflight => queue'[x].inflight
    BY <1>1, <2>1 DEF SetInflight, RowsType, Row
  <2>4. u \in Queued /\ v \in Queued /\ SamePair(u, v)
    BY <1>1, <2>3, SameRows DEF Queued, NoYounger
  <2> QED BY <1>2, <2>1, <2>2, <2>4
<1>6. ASSUME NEW x \in doomed, Delete(x) PROVE Kept(item, u, v)'
  <2>1. batch' = batch /\ (DeleteRow(x) \/ UNCHANGED queue)
    BY <1>6 DEF Delete
  <2>2. /\ DOMAIN queue' \subseteq DOMAIN queue
        /\ \A y \in DOMAIN queue' : queue'[y] = queue[y]
    BY <2>1 DEF DeleteRow, Restrict
  <2>3. u \in Queued /\ v \in Queued /\ queue'[u] = queue[u] /\ queue'[v] = queue[v]
    BY <2>2 DEF Queued
  <2>4. SamePair(u, v)
    BY <1>1, <2>3, SameRows
  <2> QED BY <1>2, <2>1, <2>3, <2>4
<1>7. Reset => batch' = {}
  BY DEF Reset, FifoInv, PassInv
<1>8. SendFails => batch' = {}
  BY DEF SendFails
<1>9. ReceiveNothing \/ ReceiveReply => UNCHANGED <<queue, batch>>
  BY DEF ReceiveNothing, ReceiveReply, queueVars
<1>10. \A other \in batch : Send(other) => UNCHANGED <<queue, batch>>
  BY DEF Send, queueVars
<1> QED BY <1>3, <1>4, <1>5, <1>6, <1>7, <1>8, <1>9, <1>10
        DEF CheckerStep, CheckerNext

\* And a second's passing, in which no row overtakes another.
LEMMA TickKeeps ==
  ASSUME IInv, FifoInv, Tick, [Next]_vars,
         NEW item \in batch', NEW u \in Queued', NEW v \in Queued'
  PROVE  Kept(item, u, v)'
<1>1. /\ TypeOK /\ RowsWellFormed /\ RowsType
      /\ batch' = batch /\ handed' = handed
      /\ queue' = [x \in DOMAIN queue |->
                     [queue[x] EXCEPT !.age = Older(queue[x].age)]]
  BY TypeOfRows DEF IInv, Tick, checkerVars, AgeRows
<1>2. u \in Queued /\ v \in Queued
  BY <1>1 DEF Queued
<1>3. ASSUME NEW x \in Queued
      PROVE  /\ queue'[x].ping = queue[x].ping
             /\ queue'[x].rowid = queue[x].rowid
             /\ queue'[x].inflight = queue[x].inflight
             /\ queue'[x].age = Older(queue[x].age)
             /\ queue[x].age \in Ages
  BY <1>1, <1>3 DEF RowsType, Row, Queued
<1>4. NoYounger(queue'[u], queue'[v]) => NoYounger(queue[u], queue[v])
  BY <1>2, <1>3, PingAssumption, SMT DEF NoYounger, Older, Ages
<1>5. SamePair(u, v)
  BY <1>1, <1>2, <1>3, <1>4, SameRows
<1>6. Kept(item, u, v)
  BY <1>1, <1>2, KeptIsAll DEF FifoInv
<1> QED BY <1>1, <1>5, <1>6, SamePairKept

\* Every step keeps the order of the batch.
LEMMA StepOrder ==
  ASSUME IInv, FifoInv, [Next]_vars
  PROVE  ItemsMatchRows' /\ BatchInOrder'
<1>1. SUFFICES ASSUME NEW item \in batch', NEW u \in Queued', NEW v \in Queued'
               PROVE  Kept(item, u, v)'
  BY DEF ItemsMatchRows, BatchInOrder, Kept
<1>2. CASE WriterStep \/ WriterFault \/ UNCHANGED vars
  <2>1. UNCHANGED <<queue, stage, batch, handed>>
    BY <1>2 DEF WriterStep, WriterFault, vars, queueVars, handlerVars, checkerVars
  <2>2. item \in batch /\ u \in Queued /\ v \in Queued
    BY <2>1 DEF Queued
  <2>3. Kept(item, u, v)
    BY <2>2, KeptIsAll DEF FifoInv
  <2>4. SamePair(u, v)
    BY <2>1, <2>2, SameRows DEF IInv
  <2> QED BY <2>1, <2>3, <2>2, <2>4, SamePairKept
<1>3. \A panicking : Exit(panicking) => batch' = {}
  BY DEF Exit, CheckerExits
<1> QED BY <1>2, <1>3, HandlerKeeps, CheckerKeeps, TickKeeps
        DEF Next, PanickingRequest, Crash

-----------------------------------------------------------------------------
(* The invariant and what it gives.                                        *)

\* The batch in order, and all it rests on, is an invariant.
THEOREM BatchOrdered == Spec => []FifoInv
<1>1. Init => FifoInv
  <2> SUFFICES ASSUME Init PROVE FifoInv
    OBVIOUS
  <2>1. Queued = {} /\ batch = {} /\ sent = 0 /\ pc = "receive"
    BY DEF Init, QueueInit, CheckerInit, Queued
  <2>2. PassBound
    BY <2>1, FS_EmptySet, PingAssumption, SMT DEF PassBound
  <2> QED BY <2>1, <2>2, FS_EmptySet
          DEF FifoInv, PassInv, OneItemEach, ItemsMatchRows, BatchInOrder
<1>2. IInv /\ FifoInv /\ [Next]_vars => FifoInv'
  <2> SUFFICES ASSUME IInv, FifoInv, [Next]_vars PROVE FifoInv'
    OBVIOUS
  <2>1. IsFiniteSet(Queued')
    BY StepFinite DEF IInv, FifoInv
  <2>2. PassInv' /\ OneItemEach'
    BY StepPass, StepOneItemEach DEF FifoInv
  <2>3. PassBound'
    BY StepPassBound
  <2> QED BY <2>1, <2>2, <2>3, StepOrder DEF FifoInv
<1> QED BY <1>1, <1>2, Inductive, PTL DEF Spec

\* A pass never sends more pings than PING_BATCH_SIZE.
THEOREM PassIsBounded == Spec => []PassBound
<1>1. FifoInv => PassBound
  BY DEF FifoInv
<1> QED BY <1>1, BatchOrdered, PTL

\* The checker goes on from its selection by selecting.
LEMMA SelectedBy ==
  ASSUME [Next]_vars, pc = "select", pc' \in {"send", "reset"}
  PROVE  Select
<1>1. CheckerStep
  <2>1. \A panicking : Exit(panicking) => pc' = "receive"
    BY DEF Exit, CheckerExits
  <2>2. \/ \E p \in Pings : HandlerStep(p)
        \/ WriterStep \/ WriterFault \/ Tick \/ UNCHANGED vars
        => UNCHANGED pc
    BY DEF HandlerStep, WriterStep, WriterFault, Tick, vars, checkerVars
  <2> QED BY <2>1, <2>2 DEF Next, PanickingRequest, Crash
<1>2. ~(ReceiveNothing \/ ReceiveReply \/ SendFails \/ Reset)
  BY DEF ReceiveNothing, ReceiveReply, SendFails, Reset
<1>3. \A u \in doomed : ~Delete(u)
  BY DEF Delete
<1>4. \A item \in batch : ~Send(item) /\ ~Mark(item)
  BY DEF Send, Mark
<1> QED BY <1>1, <1>2, <1>3, <1>4 DEF CheckerStep, CheckerNext

\* A fault is counted.
LEMMA FaultIsCounted ==
  ASSUME TypeOK, NoFault
  PROVE  ~Fault
<1>1. faults \in Nat
  BY DEF TypeOK, QueueTypeOK
<1> QED BY <1>1, SMT DEF Fault, NoFault

\* What a pass leaves out while it waits, a full batch goes before.
LEMMA LeftOut ==
  ASSUME RowsType, RowsSound, IsFiniteSet(DOMAIN queue), batch' = Selected,
         NEW u \in Waiting
  PROVE  \/ ItemOf(u) \in batch'
         \/ /\ Cardinality(batch') = BatchSize
            /\ \A item \in batch' : Before(item, ItemOf(u))
<1>1. CASE u \in SelectedUrls
  BY <1>1 DEF Selected, ItemOf
<1>2. CASE u \notin SelectedUrls
  <2>1. Cardinality(batch') = BatchSize
    BY <1>2, NotSelectedIsLate, SelectedIsCounted
  <2>2. ASSUME NEW item \in Selected PROVE Before(item, ItemOf(u))
    <3>1. PICK v \in SelectedUrls : item = ItemOf(v)
      BY DEF Selected, ItemOf
    <3>2. Before(queue[v], queue[u])
      BY <1>2, NotSelectedIsLate
    <3> QED BY <3>1, <3>2 DEF Before, ItemOf
  <2> QED BY <2>1, <2>2
<1> QED BY <1>1, <1>2

\* The LIMIT of the selection keeps a waiting row out of a pass only when as many
\* rows as it allows go before: neither rows in flight nor young ones count.
THEOREM OnlyFullBatchesLeaveOut == Spec => LeftOutOnlyByFullBatch
<1>1. IInv /\ FifoInv /\ [Next]_vars =>
        [pc = "select" /\ pc' \in {"send", "reset"} /\ NoFault =>
           \A u \in Waiting :
             \/ ItemOf(u) \in batch'
             \/ /\ Cardinality(batch') = BatchSize
                /\ \A item \in batch' : Before(item, ItemOf(u))]_vars
  <2> SUFFICES ASSUME IInv, FifoInv, [Next]_vars, NoFault,
                      pc = "select", pc' \in {"send", "reset"}, NEW u \in Waiting
               PROVE  \/ ItemOf(u) \in batch'
                      \/ /\ Cardinality(batch') = BatchSize
                         /\ \A item \in batch' : Before(item, ItemOf(u))
    OBVIOUS
  <2>1. Select
    BY SelectedBy
  <2>2. batch' = Selected
    <3>1. ~Fault
      BY FaultIsCounted DEF IInv
    <3> QED BY <2>1, <3>1 DEF Select
  <2>3. RowsType /\ RowsSound /\ IsFiniteSet(DOMAIN queue)
    BY TypeOfRows, SoundRows DEF IInv, FifoInv, Queued
  <2> QED BY <2>2, <2>3, LeftOut
<1> QED BY <1>1, Inductive, BatchOrdered, PTL DEF Spec, LeftOutOnlyByFullBatch

\* A ping becomes sent only by a send.
LEMMA HandedBy ==
  ASSUME [Next]_vars, NEW q, q \notin handed, q \in handed'
  PROVE  \E item \in batch : item.ping = q /\ batch' = batch
<1>1. ASSUME CheckerStep PROVE \E item \in batch : item.ping = q /\ batch' = batch
  <2>1. ReceiveNothing \/ ReceiveReply \/ Select \/ SendFails \/ Reset
          => UNCHANGED handed
    BY DEF ReceiveNothing, ReceiveReply, Select, SendFails, Reset
  <2>2. \A u \in doomed : Delete(u) => UNCHANGED handed
    BY DEF Delete
  <2>3. \A item \in batch : Mark(item) => UNCHANGED handed
    BY DEF Mark
  <2>4. PICK item \in batch : Send(item)
    BY <1>1, <2>1, <2>2, <2>3 DEF CheckerStep, CheckerNext
  <2> QED BY <2>4 DEF Send
<1>2. \A panicking : Exit(panicking) => UNCHANGED handed
  BY DEF Exit, CheckerExits
<1>3. \/ \E p \in Pings : HandlerStep(p)
      \/ WriterStep \/ WriterFault \/ Tick \/ UNCHANGED vars
      => UNCHANGED handed
  BY DEF HandlerStep, WriterStep, WriterFault, Tick, vars, checkerVars
<1> QED BY <1>1, <1>2, <1>3 DEF Next, PanickingRequest, Crash

\* An item about to be marked is marked, or the batch is dropped, or nothing
\* the checker holds changes.
LEMMA MarkedNext ==
  ASSUME TypeOK, [Next]_vars, pc = "mark", NEW item \in batch, IsNext(item, batch)
  PROVE  item \notin batch' \/ UNCHANGED <<pc, batch>>
<1>1. ASSUME CheckerStep PROVE item \notin batch'
  <2>1. ~(ReceiveNothing \/ ReceiveReply \/ Select \/ SendFails \/ Reset)
    BY DEF ReceiveNothing, ReceiveReply, Select, SendFails, Reset
  <2>2. \A u \in doomed : ~Delete(u)
    BY DEF Delete
  <2>3. \A other \in batch : ~Send(other)
    BY DEF Send
  <2>4. PICK other \in batch : Mark(other)
    BY <1>1, <2>1, <2>2, <2>3 DEF CheckerStep, CheckerNext
  <2>5. other = item
    <3>1. batch \in SUBSET Item
      BY DEF TypeOK, CheckerTypeOK
    <3> QED BY <2>4, <3>1, NextIsUnique DEF Mark
  <2> QED BY <2>4, <2>5 DEF Mark
<1>2. \A panicking : Exit(panicking) => batch' = {}
  BY DEF Exit, CheckerExits
<1>3. \/ \E p \in Pings : HandlerStep(p)
      \/ WriterStep \/ WriterFault \/ Tick \/ UNCHANGED vars
      => UNCHANGED <<pc, batch>>
  BY DEF HandlerStep, WriterStep, WriterFault, Tick, vars, checkerVars
<1> QED BY <1>1, <1>2, <1>3 DEF Next, PanickingRequest, Crash

\* What is handed to the socket in a step is the next item of the batch.
LEMMA SentIsNext ==
  ASSUME IInv, [Next]_vars, NEW p, SentNow(p)
  PROVE  \E item \in batch : Send(item) /\ item.ping = p
<1>1. pc = "send" /\ pc' = "mark" /\ pipe' = Append(pipe, p)
  BY DEF SentNow
<1>2. CheckerStep
  <2>1. \A panicking : ~Exit(panicking)
    BY <1>1 DEF Exit, CheckerExits
  <2>2. \/ \E q \in Pings : HandlerStep(q)
        \/ WriterStep \/ WriterFault \/ Tick \/ UNCHANGED vars
        => UNCHANGED pc
    BY DEF HandlerStep, WriterStep, WriterFault, Tick, vars, checkerVars
  <2> QED BY <1>1, <2>1, <2>2 DEF Next, PanickingRequest, Crash
<1>3. PICK item \in batch : Send(item)
  <2>1. AfterReceive # "mark"
    BY DEF AfterReceive
  <2>2. ~(ReceiveNothing \/ ReceiveReply \/ Select \/ SendFails \/ Reset)
    BY <1>1 DEF ReceiveNothing, ReceiveReply, Select, SendFails, Reset
  <2>3. \A u \in doomed : ~Delete(u)
    BY <1>1 DEF Delete
  <2>4. \A item \in batch : ~Mark(item)
    BY <1>1 DEF Mark
  <2> QED BY <1>2, <2>2, <2>3, <2>4 DEF CheckerStep, CheckerNext
<1>4. item.ping = p
  <2>1. pipe \in Seq(Pings) /\ Append(pipe, p) = Append(pipe, item.ping)
    BY <1>1, <1>3 DEF Send, IInv, TypeOK, WriterTypeOK
  <2>2. Append(pipe, p)[Len(pipe) + 1] = Append(pipe, item.ping)[Len(pipe) + 1]
    BY <2>1
  <2> QED BY <2>1, <2>2
<1> QED BY <1>3, <1>4

\* First in, first out: no ping is sent while one that was inserted before it, and
\* is no younger and no less urgent, waits for its first sending.
THEOREM NobodyOvertakes == Spec => NoOvertaking
<1>1. IInv /\ FifoInv /\ [Next]_vars =>
        [\A u, v \in Queued :
           SentNow(queue[v].ping) /\ GoesFirst(u, v)
             => queue[u].ping \in handed \/ queue[u].inflight]_vars
  <2> SUFFICES ASSUME IInv, FifoInv, [Next]_vars, NEW u \in Queued, NEW v \in Queued,
                      SentNow(queue[v].ping), GoesFirst(u, v)
               PROVE  queue[u].ping \in handed \/ queue[u].inflight
    OBVIOUS
  <2>1. PICK item \in batch : IsNext(item, batch) /\ item.ping = queue[v].ping
    BY SentIsNext DEF Send
  <2>2. /\ item.rowid = queue[v].rowid
        /\ queue[u].ping \in handed \/ queue[u].inflight \/ ItemOf(u) \in batch
    BY <2>1 DEF FifoInv, ItemsMatchRows, BatchInOrder
  <2>3. RowsType
    BY TypeOfRows DEF IInv
  <2>4. ItemOf(u) \notin batch
    <3>1. /\ queue[u].ping \in Pings /\ queue[u].rowid \in Nat
          /\ queue[v].ping \in Pings /\ queue[v].rowid \in Nat
      BY <2>3 DEF RowsType, Row, Queued
    <3>2. \A p \in Pings : Rank(p) \in 1 .. 3
      BY PingAssumption DEF Rank, Reasons
    <3>3. /\ Rank(queue[u].ping) <= Rank(queue[v].ping)
          /\ queue[u].rowid < queue[v].rowid
      BY DEF GoesFirst
    <3>4. ItemOf(u).ping = queue[u].ping /\ ItemOf(u).rowid = queue[u].rowid
      BY DEF ItemOf
    <3>5. ~Before(item, ItemOf(u)) /\ ItemOf(u) # item
      BY <2>1, <2>2, <3>1, <3>2, <3>3, <3>4, SMT DEF Before
    <3> QED BY <2>1, <3>5 DEF IsNext
  <2> QED BY <2>2, <2>4
<1> QED BY <1>1, Inductive, BatchOrdered, PTL DEF Spec, NoOvertaking
=============================================================================
