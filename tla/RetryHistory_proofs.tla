------------------------- MODULE RetryHistory_proofs -------------------------
(***************************************************************************)
(* Proofs that RetryInv is an invariant, from which NoHotResend follows:   *)
(* no ping whose sending was recorded is sent again within the delay,      *)
(* whatever fails, exits or is replaced.                                   *)
(***************************************************************************)
EXTENDS RetryHistory, NodeOrder_proofs

-----------------------------------------------------------------------------
(* The history.                                                            *)

\* What a step that is no second's passing adds to the history.
SinceMoves ==
  since' = [p \in Pings |-> IF SentNow(p) THEN 0
                            ELSE IF Unrecorded(p) THEN Never
                            ELSE since[p]]

\* What a second adds to it.
SinceAges ==
  since' = [p \in Pings |-> IF since[p] = Never THEN Never ELSE Older(since[p])]

\* A step is one of the node's, and either moves the history or ages it.
LEMMA RetryStep ==
  ASSUME SinceInv, [RNext]_retryVars
  PROVE  /\ [Next]_vars
         /\ \/ SinceMoves /\ (Tick => UNCHANGED vars)
            \/ SinceAges /\ Tick
<1>1. CASE RNext
  BY <1>1 DEF RNext, SinceMoves, SinceAges, Next
<1>2. CASE UNCHANGED retryVars
  <2>1. UNCHANGED <<vars, pc, since>>
    BY <1>2 DEF retryVars, vars, checkerVars
  <2>2. \A p \in Pings : ~SentNow(p) /\ ~Unrecorded(p)
    BY <2>1 DEF SentNow, Unrecorded
  <2>3. since = [p \in Pings |-> since[p]]
    BY DEF SinceInv
  <2> QED BY <2>1, <2>2, <2>3 DEF SinceMoves
<1> QED BY <1>1, <1>2

\* Only a send and the end of a marking move it.
LEMMA SinceStands ==
  ASSUME SinceMoves, NEW p \in Pings,
         pc # "send" \/ pc' # "mark", pc # "mark" \/ pc' = "mark"
  PROVE  since'[p] = since[p]
  BY DEF SinceMoves, SentNow, Unrecorded

\* Where it did not move to 0 it stands, or the ping counts as never sent.
LEMMA SinceForgotten ==
  ASSUME SinceMoves, NEW p \in Pings, ~SentNow(p)
  PROVE  since'[p] = since[p] \/ since'[p] = Never
  BY DEF SinceMoves

LEMMA StepSince ==
  ASSUME IInv, SinceInv, [RNext]_retryVars
  PROVE  SinceInv'
<1>1. [Next]_vars /\ handed \subseteq handed'
  BY RetryStep, HandedGrows
<1>2. 0 \in Ages
  BY PingAssumption, SMT DEF Ages
<1>3. CASE SinceMoves
  <2>1. since' \in [Pings -> {Never} \cup Ages]
    BY <1>2, <1>3 DEF SinceMoves, SinceInv
  <2>2. ASSUME NEW p \in Pings, since'[p] # Never PROVE p \in handed'
    <3>1. SentNow(p) => p \in handed'
      BY <1>1, SentIsNext DEF Send
    <3>2. ~SentNow(p) => since[p] # Never
      BY <1>3, <2>2, SinceForgotten
    <3> QED BY <1>1, <3>1, <3>2 DEF SinceInv
  <2> QED BY <2>1, <2>2 DEF SinceInv
<1>4. CASE SinceAges
  BY <1>1, <1>4, OlderType DEF SinceInv, SinceAges
<1> QED BY <1>3, <1>4, RetryStep

-----------------------------------------------------------------------------
(* The rows and the batch, step by step.                                   *)

\* The parts of RowsRest and BatchRested for a row and an item.
RowRests(u) ==
  since[queue[u].ping] # Never =>
    \/ queue[u].inflight
    \/ queue[u].age <= since[queue[u].ping]
    \/ \E item \in batch : BeingMarked(item) /\ item.ping = queue[u].ping

ItemRested(item) ==
  since[item.ping] # Never => since[item.ping] > SendDelay \/ BeingMarked(item)

\* Whatever is in the table or the batch is a ping, and a row is a row.
LEMMA PartsTyped ==
  ASSUME TypeOK
  PROVE  /\ \A u \in Queued : queue[u] \in Row /\ queue[u].ping \in Pings
         /\ \A item \in batch : item.ping \in Pings
  BY TypeOfRows, ItemType DEF RowsType, Row, Queued

\* A row the step leaves alone rests, while nothing is marked.
LEMMA SameRowRests ==
  ASSUME RowsRest, NEW u \in Queued, pc # "mark",
         queue'[u] = queue[u], since'[queue[u].ping] = since[queue[u].ping]
  PROVE  RowRests(u)'
<1>1. RowRests(u)
  BY DEF RowsRest, RowRests
<1> QED BY <1>1 DEF RowRests, BeingMarked

\* What a handler stores was never sent before; other rows it leaves alone.
LEMMA HandlerRests ==
  ASSUME IInv, RetryInv, SinceMoves, NEW p \in Pings, HandlerStep(p), [Next]_vars
  PROVE  RowsRest' /\ BatchRested'
<1>1. /\ TypeOK /\ RowsType /\ handed \subseteq Stored
      /\ UNCHANGED <<pc, batch>>
      /\ \A q \in Pings : stamp[q] \in Ages
  BY TypeOfRows
     DEF IInv, TravelInv, TypeOK, HandlerTypeOK, HandlerStep, checkerVars
<1>2. \A q \in Pings : since'[q] = since[q]
  BY <1>1, SinceStands
<1>3. BatchRested'
  <2>1. \A item \in batch' : item \in batch /\ item.ping \in Pings
    BY <1>1, PartsTyped
  <2> QED BY <1>1, <1>2, <2>1 DEF RetryInv, BatchRested, BeingMarked
<1>4. ASSUME NEW u \in Queued, queue'[u] = queue[u] PROVE RowRests(u)'
  <2>1. RowRests(u)
    BY DEF RetryInv, RowsRest, RowRests
  <2>2. queue[u].ping \in Pings
    BY <1>1, PartsTyped
  <2> QED BY <1>1, <1>2, <1>4, <2>1, <2>2 DEF RowRests, BeingMarked
<1>5. p \notin Stored => since[p] = Never
  BY <1>1 DEF RetryInv, SinceInv
<1>6. ASSUME NEW u \in Queued'
      PROVE  RowRests(u)'
  <2>1. CASE UNCHANGED queue
    BY <1>4, <2>1 DEF Queued
  <2>2. CASE InsertPing(p) \/ UpdatePing(p)
    <3>1. p \notin Stored
      BY <1>1, <2>2 DEF InsertPing, UpdatePing, Stored
    <3>2. /\ Queued' \subseteq Queued \cup {UrlOf[p]}
          /\ \A v \in Queued' : \/ v \in Queued /\ queue'[v] = queue[v]
                               \/ queue'[v].ping = p
      BY <2>2 DEF InsertPing, UpdatePing, InsertRow, UpdateRow, WithRow, Queued
    <3> QED BY <1>2, <1>4, <1>5, <3>1, <3>2 DEF RowRests
  <2>3. Receive(p) \/ InsertRefused(p) \/ UpdateFails(p) => UNCHANGED queue
    BY DEF Receive, InsertRefused, UpdateFails
  <2> QED BY <2>1, <2>2, <2>3 DEF HandlerStep, Handle
<1> QED BY <1>3, <1>6 DEF RowsRest, RowRests

\* What is sent is about to be marked, and nothing else is touched.
LEMMA SendRests ==
  ASSUME IInv, FifoInv, RetryInv, SinceMoves, [Next]_vars,
         NEW item \in batch, Send(item)
  PROVE  RowsRest' /\ BatchRested'
<1>1. /\ TypeOK /\ pc = "send" /\ pc' = "mark" /\ IsNext(item, batch)
      /\ UNCHANGED <<queue, batch>>
  BY DEF IInv, Send, queueVars
<1>2. \A q \in Pings : q # item.ping => since'[q] = since[q]
  <2> SUFFICES ASSUME NEW q \in Pings, q # item.ping PROVE since'[q] = since[q]
    OBVIOUS
  <2>1. ~SentNow(q)
    <3>1. ASSUME NEW other \in batch, Send(other) PROVE other = item
      <4>1. batch \in SUBSET Item
        BY <1>1 DEF TypeOK, CheckerTypeOK
      <4> QED BY <1>1, <3>1, <4>1, NextIsUnique DEF Send
    <3> QED BY <3>1, SentIsNext
  <2> QED BY <1>1, <2>1 DEF SinceMoves, Unrecorded
<1>3. BeingMarked(item)'
  BY <1>1 DEF BeingMarked, IsNext
<1>4. ASSUME NEW u \in Queued' PROVE RowRests(u)'
  <2>1. u \in Queued /\ queue'[u] = queue[u] /\ queue[u].ping \in Pings
    BY <1>1, PartsTyped DEF Queued
  <2>2. CASE queue[u].ping = item.ping
    BY <1>1, <1>3, <2>1, <2>2 DEF RowRests
  <2>3. CASE queue[u].ping # item.ping
    BY <1>1, <1>2, <2>1, <2>3, SameRowRests DEF RetryInv
  <2> QED BY <2>2, <2>3
<1>5. ASSUME NEW other \in batch' PROVE ItemRested(other)'
  <2>1. other \in batch /\ other.ping \in Pings
    BY <1>1, PartsTyped
  <2>2. CASE other = item
    BY <1>3, <2>2 DEF ItemRested
  <2>3. CASE other # item
    <3>1. other.ping # item.ping
      BY <2>1, <2>3 DEF FifoInv, OneItemEach
    <3>2. since[other.ping] # Never => since[other.ping] > SendDelay
      BY <1>1, <2>1 DEF RetryInv, BatchRested, BeingMarked
    <3> QED BY <1>2, <2>1, <3>1, <3>2 DEF ItemRested
  <2> QED BY <2>2, <2>3
<1> QED BY <1>4, <1>5 DEF RowsRest, RowRests, BatchRested, ItemRested

\* A row leaves the marking in flight, or its ping counts as never sent.
LEMMA MarkRests ==
  ASSUME IInv, RetryInv, SinceMoves, NEW item \in batch, Mark(item)
  PROVE  RowsRest' /\ BatchRested'
<1>1. /\ TypeOK /\ RowsType /\ RowsWellFormed
      /\ pc = "mark" /\ pc' = "receive" /\ IsNext(item, batch)
      /\ batch' = batch \ {item}
      /\ SetInflight(UrlOf[item.ping]) \/ UNCHANGED queue
  BY TypeOfRows DEF IInv, Mark
<1>2. \A other \in batch : IsNext(other, batch) => other = item
  <2>1. batch \in SUBSET Item
    BY <1>1 DEF TypeOK, CheckerTypeOK
  <2> QED BY <1>1, <2>1, NextIsUnique
<1>3. /\ \A q \in Pings : since'[q] = since[q] \/ since'[q] = Never
      /\ ~SetInflight(UrlOf[item.ping]) /\ item.ping \in Pings
           => since'[item.ping] = Never
  <2>1. \A q \in Pings : ~SentNow(q)
    BY <1>1 DEF SentNow
  <2>2. ~SetInflight(UrlOf[item.ping]) => Unrecorded(item.ping)
    BY <1>1 DEF Unrecorded
  <2> QED BY <2>1, <2>2 DEF SinceMoves
<1>4. ASSUME NEW u \in Queued' PROVE RowRests(u)'
  <2>1. /\ u \in Queued /\ queue[u] \in Row /\ queue[u].ping \in Pings
        /\ queue'[u].ping = queue[u].ping
        /\ queue'[u].age = queue[u].age
        /\ queue[u].inflight => queue'[u].inflight
    BY <1>1, PartsTyped DEF SetInflight, Queued, RowsType, Row
  <2>2. CASE queue[u].ping = item.ping
    <3>1. u = UrlOf[item.ping]
      BY <1>1, <2>1, <2>2 DEF RowsWellFormed
    <3>2. SetInflight(UrlOf[item.ping]) => queue'[u].inflight
      BY <2>1, <3>1 DEF SetInflight, Queued, Row
    <3> QED BY <1>3, <2>1, <2>2, <3>2 DEF RowRests
  <2>3. CASE queue[u].ping # item.ping
    <3>1. RowRests(u)
      BY <2>1 DEF RetryInv, RowsRest, RowRests
    <3>2. ~\E other \in batch : BeingMarked(other) /\ other.ping = queue[u].ping
      BY <1>2, <2>3 DEF BeingMarked
    <3> QED BY <1>3, <2>1, <3>1, <3>2 DEF RowRests
  <2> QED BY <2>2, <2>3
<1>5. ASSUME NEW other \in batch' PROVE ItemRested(other)'
  <2>1. other \in batch /\ other # item /\ other.ping \in Pings
    BY <1>1, PartsTyped
  <2>2. since[other.ping] # Never => since[other.ping] > SendDelay
    BY <1>2, <2>1 DEF RetryInv, BatchRested, BeingMarked
  <2> QED BY <1>3, <2>1, <2>2 DEF ItemRested
<1> QED BY <1>4, <1>5 DEF RowsRest, RowRests, BatchRested, ItemRested

\* A selection takes only rows that have rested.
LEMMA SelectRests ==
  ASSUME IInv, RetryInv, SinceMoves, Select
  PROVE  RowsRest' /\ BatchRested'
<1>1. /\ TypeOK /\ pc = "select" /\ pc' # "mark" /\ UNCHANGED queue
      /\ batch' = {} \/ batch' = Selected
  BY DEF IInv, Select
<1>2. \A q \in Pings : since'[q] = since[q]
  BY <1>1, SinceStands
<1>3. ASSUME NEW u \in Queued' PROVE RowRests(u)'
  <2>1. u \in Queued /\ queue'[u] = queue[u] /\ queue[u].ping \in Pings
    BY <1>1, PartsTyped DEF Queued
  <2> QED BY <1>1, <1>2, <2>1, SameRowRests DEF RetryInv
<1>4. ASSUME NEW item \in batch' PROVE ItemRested(item)'
  <2>1. PICK u \in Waiting : item.ping = queue[u].ping
    <3>1. SelectedUrls \subseteq Waiting
      BY DEF SelectedUrls
    <3> QED BY <1>1, <3>1 DEF Selected
  <2>2. u \in Queued /\ ~queue[u].inflight /\ queue[u].age > SendDelay
    BY DEF Waiting, Queued
  <2>3. /\ queue[u].ping \in Pings /\ queue[u].age \in Ages
        /\ since[item.ping] \in {Never} \cup Ages
    BY <1>1, <2>1, <2>2, PartsTyped DEF Row, RetryInv, SinceInv
  <2>4. since[item.ping] # Never => queue[u].age <= since[item.ping]
    BY <1>1, <2>1, <2>2 DEF RetryInv, RowsRest, BeingMarked
  <2>5. since[item.ping] # Never => since[item.ping] > SendDelay
    BY <2>2, <2>3, <2>4, PingAssumption, SMT DEF Ages
  <2> QED BY <1>2, <2>1, <2>3, <2>5 DEF ItemRested
<1> QED BY <1>3, <1>4 DEF RowsRest, RowRests, BatchRested, ItemRested

\* A reset makes rows young; the other steps of the checker change no row but by
\* taking it away.
LEMMA OtherRests ==
  ASSUME IInv, RetryInv, SinceMoves,
         \/ ReceiveNothing \/ ReceiveReply \/ SendFails \/ Reset
         \/ \E u \in doomed : Delete(u)
  PROVE  RowsRest' /\ BatchRested'
<1>1. /\ TypeOK /\ RowsType /\ pc # "mark" /\ pc' # "mark"
      /\ batch' \subseteq batch
  BY TypeOfRows DEF IInv, ReceiveNothing, ReceiveReply, SendFails, Reset, Delete,
                    AfterReceive
<1>2. \A q \in Pings : since'[q] = since[q]
  BY <1>1, SinceStands
<1>3. ASSUME NEW u \in Queued'
      PROVE  /\ u \in Queued
             /\ \/ queue'[u] = queue[u]
                \/ queue'[u].ping = queue[u].ping /\ queue'[u].age = 0
  <2>1. CASE UNCHANGED queue
    BY <2>1 DEF Queued
  <2>2. ASSUME NEW v, DeleteRow(v)
        PROVE  u \in Queued /\ queue'[u] = queue[u]
    BY <2>2 DEF DeleteRow, Restrict, Queued
  <2>3. CASE ResetRows
    <3>1. PICK S : queue' = [v \in DOMAIN queue |->
                     IF v \in S
                     THEN [queue[v] EXCEPT !.inflight = FALSE, !.age = 0]
                     ELSE queue[v]]
      BY <2>3 DEF ResetRows
    <3>2. u \in DOMAIN queue /\ queue[u] \in Row
      BY <1>1, <3>1 DEF RowsType, Queued
    <3> QED BY <3>1, <3>2 DEF Queued, Row
  <2> QED BY <2>1, <2>2, <2>3
          DEF ReceiveNothing, ReceiveReply, SendFails, Reset, Delete, queueVars
<1>4. ASSUME NEW u \in Queued' PROVE RowRests(u)'
  <2>1. u \in Queued /\ queue[u].ping \in Pings
    BY <1>1, <1>3, PartsTyped
  <2>2. CASE queue'[u] = queue[u]
    BY <1>1, <1>2, <2>1, <2>2, SameRowRests DEF RetryInv
  <2>3. CASE queue'[u].ping = queue[u].ping /\ queue'[u].age = 0
    <3>1. since[queue[u].ping] \in {Never} \cup Ages
      BY <2>1 DEF RetryInv, SinceInv
    <3>2. since[queue[u].ping] # Never => 0 <= since[queue[u].ping]
      BY <3>1, PingAssumption, SMT DEF Ages
    <3> QED BY <1>2, <2>1, <2>3, <3>2 DEF RowRests
  <2> QED BY <1>3, <2>2, <2>3
<1>5. ASSUME NEW item \in batch' PROVE ItemRested(item)'
  <2>1. item \in batch /\ item.ping \in Pings
    BY <1>1, PartsTyped
  <2> QED BY <1>1, <1>2, <2>1 DEF RetryInv, BatchRested, BeingMarked, ItemRested
<1> QED BY <1>4, <1>5 DEF RowsRest, RowRests, BatchRested, ItemRested

\* The batch is gone with the process, and what it had sent unrecorded counts as
\* never sent.
LEMMA ExitRests ==
  ASSUME IInv, RetryInv, SinceMoves, NEW panicking, Exit(panicking)
  PROVE  RowsRest' /\ BatchRested'
<1>1. TypeOK /\ RowsWellFormed /\ UNCHANGED queue /\ batch' = {} /\ pc' = "receive"
  BY DEF IInv, Exit, CheckerExits
<1>2. \A q \in Pings : since'[q] = since[q] \/ since'[q] = Never
  BY <1>1 DEF SinceMoves, SentNow
<1>3. ASSUME NEW u \in Queued' PROVE RowRests(u)'
  <2>1. /\ u \in Queued /\ queue'[u] = queue[u] /\ queue[u].ping \in Pings
        /\ queue[u] \in Row
    BY <1>1, PartsTyped DEF Queued
  <2>2. RowRests(u)
    BY <2>1 DEF RetryInv, RowsRest, RowRests
  <2>3. ASSUME NEW item \in batch, BeingMarked(item), item.ping = queue[u].ping
        PROVE  queue[u].inflight \/ since'[queue[u].ping] = Never
    <3>1. u = UrlOf[item.ping]
      BY <1>1, <2>1, <2>3 DEF RowsWellFormed
    <3>2. SetInflight(u) => queue[u].inflight
      BY <1>1, <2>1 DEF SetInflight, Queued, Row
    <3>3. ~SetInflight(u) => Unrecorded(queue[u].ping)
      BY <1>1, <2>1, <2>3, <3>1 DEF Unrecorded, BeingMarked
    <3>4. ~SentNow(queue[u].ping)
      BY <1>1 DEF SentNow
    <3> QED BY <2>1, <3>2, <3>3, <3>4 DEF SinceMoves
  <2> QED BY <1>2, <2>1, <2>2, <2>3 DEF RowRests
<1> QED BY <1>1, <1>3 DEF RowsRest, RowRests, BatchRested

\* Rows and history age alike.
LEMMA TickRests ==
  ASSUME IInv, RetryInv, Tick, SinceAges
  PROVE  RowsRest' /\ BatchRested'
<1>1. /\ TypeOK /\ UNCHANGED <<pc, batch>>
      /\ queue' = [u \in DOMAIN queue |->
                     [queue[u] EXCEPT !.age = Older(queue[u].age)]]
  BY DEF IInv, Tick, checkerVars, AgeRows
<1>2. \A p \in Pings : since[p] \in {Never} \cup Ages
  BY DEF RetryInv, SinceInv
<1>3. /\ \A x, y \in Ages : x <= y => Older(x) <= Older(y)
      /\ \A x \in Ages : x > SendDelay => Older(x) > SendDelay
      /\ \A x \in Ages : Older(x) # Never
  BY PingAssumption, SMT DEF Older, Ages, Never
<1>4. ASSUME NEW u \in Queued' PROVE RowRests(u)'
  <2>1. /\ u \in Queued /\ queue[u] \in Row /\ queue[u].ping \in Pings
        /\ queue[u].age \in Ages
    BY <1>1, PartsTyped DEF Queued, Row
  <2>2. /\ queue'[u].ping = queue[u].ping
        /\ queue'[u].inflight = queue[u].inflight
        /\ queue'[u].age = Older(queue[u].age)
    BY <1>1, <2>1 DEF Row, Queued
  <2>3. RowRests(u)
    BY <2>1 DEF RetryInv, RowsRest, RowRests
  <2>4. since'[queue[u].ping] # Never =>
          /\ since[queue[u].ping] # Never /\ since[queue[u].ping] \in Ages
          /\ since'[queue[u].ping] = Older(since[queue[u].ping])
    BY <1>2, <2>1 DEF SinceAges
  <2> QED BY <1>1, <1>3, <2>1, <2>2, <2>3, <2>4 DEF RowRests, BeingMarked
<1>5. ASSUME NEW item \in batch' PROVE ItemRested(item)'
  <2>1. item \in batch /\ item.ping \in Pings
    BY <1>1, PartsTyped
  <2>2. ItemRested(item)
    BY <2>1 DEF RetryInv, BatchRested, ItemRested
  <2>3. since'[item.ping] # Never =>
          /\ since[item.ping] # Never /\ since[item.ping] \in Ages
          /\ since'[item.ping] = Older(since[item.ping])
    BY <1>2, <2>1 DEF SinceAges
  <2> QED BY <1>1, <1>3, <2>2, <2>3 DEF ItemRested, BeingMarked
<1> QED BY <1>4, <1>5 DEF RowsRest, RowRests, BatchRested, ItemRested

\* What a step of the writer, or none, leaves alone.
LEMMA StillRests ==
  ASSUME IInv, RetryInv, SinceMoves, UNCHANGED <<queue, pc, batch>>
  PROVE  RowsRest' /\ BatchRested'
<1>1. TypeOK /\ \A q \in Pings : since'[q] = since[q]
  BY SinceStands DEF IInv
<1>2. ASSUME NEW u \in Queued' PROVE RowRests(u)'
  <2>1. u \in Queued /\ queue[u].ping \in Pings
    BY <1>1, PartsTyped DEF Queued
  <2>2. RowRests(u)
    BY <2>1 DEF RetryInv, RowsRest, RowRests
  <2> QED BY <1>1, <2>1, <2>2 DEF RowRests, BeingMarked
<1>3. ASSUME NEW item \in batch' PROVE ItemRested(item)'
  <2>1. item \in batch /\ item.ping \in Pings
    BY <1>1, PartsTyped
  <2> QED BY <1>1, <2>1 DEF RetryInv, BatchRested, BeingMarked, ItemRested
<1> QED BY <1>2, <1>3 DEF RowsRest, RowRests, BatchRested, ItemRested

\* Every step keeps rows and batch at rest.
LEMMA StepRests ==
  ASSUME IInv, FifoInv, RetryInv, [RNext]_retryVars
  PROVE  RowsRest' /\ BatchRested'
<1>1. [Next]_vars
  BY RetryStep DEF RetryInv
<1>2. CASE SinceMoves /\ (Tick => UNCHANGED vars)
  <2>1. CheckerStep => RowsRest' /\ BatchRested'
    BY <1>1, <1>2, SendRests, MarkRests, SelectRests, OtherRests
       DEF CheckerStep, CheckerNext
  <2>2. \A panicking : Exit(panicking) => RowsRest' /\ BatchRested'
    BY <1>2, ExitRests
  <2>3. WriterStep \/ WriterFault \/ UNCHANGED vars => RowsRest' /\ BatchRested'
    <3>1. WriterStep \/ WriterFault \/ UNCHANGED vars
            => UNCHANGED <<queue, pc, batch>>
      BY DEF WriterStep, WriterFault, vars, queueVars, checkerVars
    <3> QED BY <1>2, <3>1, StillRests
  <2>4. \A p \in Pings : HandlerStep(p) => RowsRest' /\ BatchRested'
    BY <1>1, <1>2, HandlerRests
  <2> QED BY <1>1, <1>2, <2>1, <2>2, <2>3, <2>4 DEF Next, PanickingRequest, Crash
<1>3. CASE SinceAges /\ Tick
  BY <1>3, TickRests
<1> QED BY <1>2, <1>3, RetryStep DEF RetryInv

\* With its history left out, a node is a node.
LEMMA RetriesAreANode == RSpec => Spec
<1>1. [RNext]_retryVars => [Next]_vars
  BY DEF RNext, Next, retryVars
<1> QED BY <1>1, PTL DEF RSpec, RInit, Spec

-----------------------------------------------------------------------------
(* The invariant and what it gives.                                        *)

\* The row of a ping that was sent and recorded is in flight, or young, or about
\* to be marked; and no such ping is in the batch but after its delay.
THEOREM RetriesRest == RSpec => []RetryInv
<1>1. RInit => RetryInv
  <2>1. RInit => batch = {} /\ queue = [u \in {} |-> 0]
                 /\ since = [p \in Pings |-> Never]
    BY DEF RInit, Init, QueueInit, CheckerInit
  <2> QED BY <2>1 DEF RetryInv, SinceInv, RowsRest, BatchRested, Queued
<1>2. IInv /\ FifoInv /\ RetryInv /\ [RNext]_retryVars => RetryInv'
  BY StepSince, StepRests DEF RetryInv
<1> QED BY <1>1, <1>2, RetriesAreANode, Inductive, BatchOrdered, PTL DEF RSpec

\* No hot loop: a ping whose sending was recorded is not sent again within the
\* delay, however its row was reset, replaced or lost meanwhile.
THEOREM NobodyIsResentHot == RSpec => NoHotResend
<1>1. IInv /\ RetryInv /\ [RNext]_retryVars =>
        [\A p \in Pings :
           SentNow(p) /\ since[p] # Never => since[p] > SendDelay]_retryVars
  <2> SUFFICES ASSUME IInv, RetryInv, [RNext]_retryVars, NEW p \in Pings,
                      SentNow(p), since[p] # Never
               PROVE  since[p] > SendDelay
    OBVIOUS
  <2>1. PICK item \in batch : Send(item) /\ item.ping = p
    BY RetryStep, SentIsNext DEF RetryInv
  <2>2. ~BeingMarked(item)
    BY <2>1 DEF Send, BeingMarked
  <2> QED BY <2>1, <2>2 DEF RetryInv, BatchRested
<1> QED BY <1>1, RetriesAreANode, RetriesRest, Inductive, PTL
        DEF RSpec, NoHotResend
=============================================================================
