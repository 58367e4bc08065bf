------------------------- MODULE PodpingNode_proofs -------------------------
(***************************************************************************)
(* Proofs that IInv is an inductive invariant of PodpingNode, for every    *)
(* set of pings and urls and every value of the limits, and the safety     *)
(* properties it gives.                                                    *)
(***************************************************************************)
EXTENDS NodeInvariant, PingQueue_proofs, SequenceTheorems

-----------------------------------------------------------------------------
(* What the two directions of the connection keep when one end takes,      *)
(* sends, closes or restarts.                                              *)

\* What is in a queue of the connection is in any larger set of messages.
LEMMA SeqOfMore ==
  ASSUME NEW S, NEW T, S \subseteq T, NEW s \in Seq(S)
  PROVE  s \in Seq(T)
<1>1. Len(s) \in Nat /\ s \in [1 .. Len(s) -> S]
  BY LenProperties
<1>2. s \in [1 .. Len(s) -> T]
  BY <1>1
<1> QED BY <1>1, <1>2

\* A message more.
LEMMA SeqAppend ==
  ASSUME NEW S, NEW s \in Seq(S), NEW m \in S
  PROVE  Append(s, m) \in Seq(S)
  OBVIOUS

\* The front of a queue, what is left when the other end has closed.
LEMMA SeqFront ==
  ASSUME NEW S, NEW s \in Seq(S), NEW i \in 0 .. Len(s)
  PROVE  SubSeq(s, 1, i) \in Seq(S)
<1>1. Len(s) \in Nat
  BY LenProperties
<1>2. \A k \in 1 .. i : s[k] \in S
  BY <1>1, ElementOfSeq
<1>3. i \in Int /\ 1 \in Int
  BY <1>1
<1> QED BY <1>2, <1>3, SubSeqProperties

\* The rear of a queue, what is left when the first messages are lost.
LEMMA SeqRear ==
  ASSUME NEW S, NEW s \in Seq(S), NEW i \in 0 .. Len(s)
  PROVE  SubSeq(s, i + 1, Len(s)) \in Seq(S)
<1>1. Len(s) \in Nat
  BY LenProperties
<1>2. \A k \in i + 1 .. Len(s) : s[k] \in S
  <2>1. \A k \in i + 1 .. Len(s) : k \in 1 .. Len(s)
    BY <1>1
  <2> QED BY <2>1, ElementOfSeq
<1>3. i + 1 \in Int /\ Len(s) \in Int
  BY <1>1
<1> QED BY <1>2, <1>3, SubSeqProperties

\* The first message and the others.
LEMMA SeqHeadTail ==
  ASSUME NEW S, NEW s \in Seq(S), s # <<>>
  PROVE  Head(s) \in S /\ Tail(s) \in Seq(S)
  BY HeadTailProperties

-----------------------------------------------------------------------------
(* The invariant's parts as PingQueue_proofs states them.                  *)

\* The queue's part of the type invariant, as PingQueue_proofs states it.
LEMMA TypeOfRows == TypeOK => RowsType
  BY DEF TypeOK, QueueTypeOK, RowsType

\* The table's part of the inductive invariant, as PingQueue_proofs states it.
LEMMA SoundRows == RowsSound <=> RowsWellFormed
  BY DEF RowsSound, RowsWellFormed, Queued

-----------------------------------------------------------------------------
(* Type correctness.                                                       *)

\* The queue keeps its type if its rows do and at most one fault happens.
LEMMA QueueTypeStep ==
  ASSUME QueueTypeOK, RowsType', Fault \/ NoFault
  PROVE  QueueTypeOK'
<1>1. faults' \in 0 .. MaxFaults
  BY PingAssumption, SMT DEF QueueTypeOK, Fault, NoFault
<1> QED BY <1>1 DEF QueueTypeOK, RowsType

\* A component whose variables do not change keeps its type.
LEMMA TypeUnchanged ==
  ASSUME TypeOK
  PROVE  /\ UNCHANGED queueVars => QueueTypeOK'
         /\ UNCHANGED queue => RowsType'
         /\ UNCHANGED handlerVars => HandlerTypeOK'
         /\ UNCHANGED writerVars => WriterTypeOK'
         /\ UNCHANGED checkerVars => CheckerTypeOK'
<1>1. UNCHANGED queueVars => QueueTypeOK'
  BY DEF TypeOK, QueueTypeOK, RowIdsBounded, queueVars
<1>2. UNCHANGED queue => RowsType'
  BY DEF TypeOK, QueueTypeOK, RowIdsBounded, RowsType
<1>3. UNCHANGED handlerVars => HandlerTypeOK'
  BY DEF TypeOK, HandlerTypeOK, handlerVars
<1>4. UNCHANGED writerVars => WriterTypeOK'
  BY DEF TypeOK, WriterTypeOK, writerVars
<1>5. UNCHANGED checkerVars => CheckerTypeOK'
  BY DEF TypeOK, CheckerTypeOK, checkerVars
<1> QED BY <1>1, <1>2, <1>3, <1>4, <1>5

\* The initial state has the types.
LEMMA InitType == Init => TypeOK
<1> SUFFICES ASSUME Init PROVE TypeOK
  OBVIOUS
<1>1. QueueTypeOK
  <2>1. DOMAIN queue = {}
    BY DEF Init, QueueInit
  <2>2. RowIdsBounded
    BY <2>1 DEF RowIdsBounded
  <2> QED BY <2>1, <2>2, PingAssumption, SMT DEF Init, QueueInit, QueueTypeOK
<1>2. HandlerTypeOK
  <2>1. 0 \in Ages
    BY PingAssumption, SMT DEF Ages
  <2> QED BY <2>1 DEF Init, HandlerInit, HandlerTypeOK, Stages
<1>3. WriterTypeOK
  BY DEF Init, WriterInit, WriterTypeOK
<1>4. CheckerTypeOK
  BY DEF Init, CheckerInit, CheckerTypeOK, Steps
<1> QED BY <1>1, <1>2, <1>3, <1>4 DEF TypeOK

\* A step of a handler keeps the types.
LEMMA HandlerType ==
  ASSUME TypeOK, NEW p \in Pings, HandlerStep(p)
  PROVE  TypeOK'
<1>1. WriterTypeOK' /\ CheckerTypeOK'
  BY TypeUnchanged DEF HandlerStep
<1>2. /\ HandlerTypeOK /\ QueueTypeOK /\ RowsType
      /\ stamp[p] \in Ages /\ stamp[p] \in Ages
  BY TypeOfRows DEF TypeOK, HandlerTypeOK
<1>3. ASSUME NEW how \in Stages, Finish(p, how) PROVE HandlerTypeOK'
  <2>1. 0 \in Ages
    BY PingAssumption, SMT DEF Ages
  <2> QED BY <1>2, <1>3, <2>1 DEF Finish, HandlerTypeOK
<1>4. CASE Receive(p)
  <2>1. HandlerTypeOK'
    BY <1>3, <1>4 DEF Receive, Stages, InProgress
  <2>2. RowsType' /\ (Fault \/ NoFault)
    BY <1>4, TypeUnchanged DEF Receive
  <2> QED BY <1>1, <1>2, <2>1, <2>2, QueueTypeStep DEF TypeOK
<1>5. CASE InsertPing(p)
  <2>1. HandlerTypeOK'
    BY <1>3, <1>5 DEF InsertPing, Stages
  <2>2. RowsType' /\ NoFault
    BY <1>2, <1>5, InsertRowRows DEF InsertPing
  <2> QED BY <1>1, <1>2, <2>1, <2>2, QueueTypeStep DEF TypeOK
<1>6. CASE InsertRefused(p)
  <2>1. HandlerTypeOK'
    <3>1. CASE stage' = [stage EXCEPT ![p] = "update"] /\ UNCHANGED stamp
      BY <1>2, <3>1 DEF HandlerTypeOK, Stages, InProgress
    <3>2. CASE Finish(p, "dropped")
      BY <1>3, <3>2 DEF Stages
    <3> QED BY <1>6, <3>1, <3>2 DEF InsertRefused
  <2>2. RowsType' /\ (Fault \/ NoFault)
    BY <1>6, TypeUnchanged DEF InsertRefused
  <2> QED BY <1>1, <1>2, <2>1, <2>2, QueueTypeStep DEF TypeOK
<1>7. CASE UpdatePing(p)
  <2>1. HandlerTypeOK'
    BY <1>3, <1>7 DEF UpdatePing, Stages
  <2>2. RowsType' /\ NoFault
    BY <1>2, <1>7, UpdateRowRows DEF UpdatePing
  <2> QED BY <1>1, <1>2, <2>1, <2>2, QueueTypeStep DEF TypeOK
<1>8. CASE UpdateFails(p)
  <2>1. HandlerTypeOK'
    BY <1>3, <1>8 DEF UpdateFails, Stages
  <2>2. RowsType' /\ Fault
    BY <1>8, TypeUnchanged DEF UpdateFails
  <2> QED BY <1>1, <1>2, <2>1, <2>2, QueueTypeStep DEF TypeOK
<1> QED BY <1>4, <1>5, <1>6, <1>7, <1>8 DEF HandlerStep, Handle
\* The ping and the url of what the checker handles are pings and urls.
LEMMA ItemType ==
  ASSUME TypeOK, NEW item \in batch
  PROVE  item.ping \in Pings /\ UrlOf[item.ping] \in Urls
<1>1. item \in Item
  BY DEF TypeOK, CheckerTypeOK
<1> QED BY <1>1, PingAssumption DEF Item

\* What is left of the connection when the node's end closes.
LEMMA SocketClosesType ==
  ASSUME WriterTypeOK, SocketCloses
  PROVE  pipe' \in Seq(Pings) /\ replies' \in Seq(Reply)
<1>1. pipe' \in Seq(Pings)
  BY SeqFront DEF SocketCloses, WriterTypeOK
<1>2. replies' \in Seq(Reply)
  BY DEF SocketCloses
<1> QED BY <1>1, <1>2

\* A step of the queue checker keeps the types.
LEMMA CheckerType ==
  ASSUME TypeOK, CheckerStep
  PROVE  TypeOK'
<1>1. HandlerTypeOK'
  BY TypeUnchanged DEF CheckerStep
<1>2. QueueTypeOK /\ WriterTypeOK /\ CheckerTypeOK /\ RowsType
  BY TypeOfRows DEF TypeOK
<1>3. AfterReceive \in Steps
  BY DEF AfterReceive, Steps
<1>4. CASE ReceiveNothing
  <2>1. QueueTypeOK' /\ WriterTypeOK'
    BY <1>4, TypeUnchanged DEF ReceiveNothing
  <2>2. CheckerTypeOK'
    BY <1>2, <1>3, <1>4 DEF ReceiveNothing, CheckerTypeOK
  <2> QED BY <1>1, <2>1, <2>2 DEF TypeOK
<1>5. CASE ReceiveReply
  <2>1. Head(replies) \in Reply /\ Tail(replies) \in Seq(Reply)
    BY <1>2, <1>5, SeqHeadTail DEF ReceiveReply, WriterTypeOK
  <2>2. doomed' \subseteq Urls
    BY <1>5, <2>1 DEF ReceiveReply, Reply
  <2>3. QueueTypeOK'
    BY <1>5, TypeUnchanged DEF ReceiveReply
  <2>4. WriterTypeOK'
    BY <1>2, <1>5, <2>1 DEF ReceiveReply, WriterTypeOK
  <2>5. CheckerTypeOK'
    BY <1>2, <1>3, <1>5, <2>2 DEF ReceiveReply, CheckerTypeOK, Steps
  <2> QED BY <1>1, <2>3, <2>4, <2>5 DEF TypeOK
<1>6. ASSUME NEW u \in doomed, Delete(u) PROVE TypeOK'
  <2>1. RowsType' /\ (Fault \/ NoFault)
    BY <1>2, <1>6, DeleteRowRows, TypeUnchanged DEF Delete
  <2>2. QueueTypeOK' /\ WriterTypeOK'
    BY <1>2, <1>6, <2>1, QueueTypeStep, TypeUnchanged DEF Delete
  <2>3. CheckerTypeOK'
    BY <1>2, <1>3, <1>6 DEF Delete, CheckerTypeOK, Steps
  <2> QED BY <1>1, <2>2, <2>3 DEF TypeOK
<1>7. CASE Select
  <2>1. QueueTypeOK' /\ WriterTypeOK'
    BY <1>2, <1>7, QueueTypeStep, TypeUnchanged DEF Select
  <2>2. Selected \subseteq Item
    <3>1. SelectedUrls \subseteq DOMAIN queue
      BY DEF SelectedUrls, Waiting
    <3>2. \A u \in DOMAIN queue : queue[u].ping \in Pings /\ queue[u].rowid \in Nat
      BY <1>2 DEF RowsType, Row
    <3> QED BY <3>1, <3>2 DEF Selected, Item
  <2>3. CheckerTypeOK'
    BY <1>2, <1>7, <2>2 DEF Select, CheckerTypeOK, Steps
  <2> QED BY <1>1, <2>1, <2>3 DEF TypeOK
<1>8. ASSUME NEW item \in batch, Send(item) PROVE TypeOK'
  <2>1. item.ping \in Pings
    BY ItemType
  <2>2. QueueTypeOK'
    BY <1>8, TypeUnchanged DEF Send
  <2>3. pipe' \in Seq(Pings)
    BY <1>2, <1>8, <2>1, SeqAppend DEF Send, WriterTypeOK
  <2>4. WriterTypeOK'
    BY <1>2, <1>8, <2>3 DEF Send, WriterTypeOK
  <2>5. CheckerTypeOK'
    BY <1>2, <1>8, <2>1 DEF Send, CheckerTypeOK, Steps
  <2> QED BY <1>1, <2>2, <2>4, <2>5 DEF TypeOK
<1>9. ASSUME NEW item \in batch, Mark(item) PROVE TypeOK'
  <2>1. RowsType' /\ (Fault \/ NoFault)
    BY <1>2, <1>9, ItemType, SetInflightRows, TypeUnchanged DEF Mark
  <2>2. QueueTypeOK' /\ WriterTypeOK'
    BY <1>2, <1>9, <2>1, QueueTypeStep, TypeUnchanged DEF Mark
  <2>3. sent' \in Nat
    BY <1>2, <1>9 DEF Mark, CheckerTypeOK
  <2>4. CheckerTypeOK'
    BY <1>2, <1>9, <2>3 DEF Mark, CheckerTypeOK, Steps
  <2> QED BY <1>1, <2>2, <2>4 DEF TypeOK
<1>10. CASE SendFails
  <2>1. QueueTypeOK'
    BY <1>10, TypeUnchanged DEF SendFails
  <2>2. WriterTypeOK'
    BY <1>2, <1>10, SocketClosesType DEF SendFails, WriterTypeOK
  <2>3. CheckerTypeOK'
    BY <1>2, <1>10 DEF SendFails, CheckerTypeOK, Steps
  <2> QED BY <1>1, <2>1, <2>2, <2>3 DEF TypeOK
<1>11. CASE Reset
  <2>1. RowsType' /\ (Fault \/ NoFault)
    BY <1>2, <1>11, ResetRowsRows, TypeUnchanged DEF Reset
  <2>2. QueueTypeOK' /\ WriterTypeOK'
    BY <1>2, <1>11, <2>1, QueueTypeStep, TypeUnchanged DEF Reset
  <2>3. CheckerTypeOK'
    BY <1>2, <1>11 DEF Reset, CheckerTypeOK, Steps
  <2> QED BY <1>1, <2>2, <2>3 DEF TypeOK
<1> QED BY <1>4, <1>5, <1>6, <1>7, <1>8, <1>9, <1>10, <1>11
        DEF CheckerStep, CheckerNext

\* A step of the writer, at fault or not, keeps the types.
LEMMA WriterType ==
  ASSUME TypeOK, WriterStep \/ WriterFault
  PROVE  TypeOK'
<1>1. WriterTypeOK /\ QueueTypeOK
  BY DEF TypeOK
<1>2. HandlerTypeOK' /\ CheckerTypeOK'
  BY TypeUnchanged DEF WriterStep, WriterFault
<1>3. QueueTypeOK'
  BY <1>1, TypeUnchanged, QueueTypeStep DEF WriterStep, WriterFault
<1>4. ASSUME NEW kind \in {"written", "unwritten", "error"},
             NEW S \in SUBSET held, Answer(kind, S),
             landed' \subseteq Pings, refused' \subseteq Pings
      PROVE  WriterTypeOK'
  <2>1. UrlsOf(S) \subseteq Urls
    BY <1>1, PingAssumption DEF UrlsOf, WriterTypeOK
  <2>2. [kind |-> kind, urls |-> UrlsOf(S)] \in Reply
    BY <2>1 DEF Reply
  <2>3. replies' \in Seq(Reply)
    BY <1>1, <1>4, <2>2, SeqAppend DEF Answer, WriterTypeOK
  <2> QED BY <1>1, <1>4, <2>3 DEF Answer, WriterTypeOK
<1>5. CASE TakePing
  <2>1. Head(pipe) \in Pings /\ Tail(pipe) \in Seq(Pings)
    BY <1>1, <1>5, SeqHeadTail DEF TakePing, WriterTypeOK
  <2>2. WriterTypeOK'
    BY <1>1, <1>5, <2>1 DEF TakePing, WriterTypeOK
  <2> QED BY <1>2, <1>3, <2>2 DEF TypeOK
<1>6. ASSUME NEW S \in SUBSET held, WriteToHive(S) \/ MissBlock(S)
      PROVE  TypeOK'
  <2>1. WriterTypeOK'
    BY <1>1, <1>4, <1>6 DEF WriteToHive, MissBlock, WriterTypeOK
  <2> QED BY <1>2, <1>3, <2>1 DEF TypeOK
<1>7. ASSUME NEW p \in held, RefusePing(p) PROVE TypeOK'
  <2>1. {p} \in SUBSET held /\ p \in Pings
    BY <1>1, <1>7 DEF WriterTypeOK
  <2>2. WriterTypeOK'
    BY <1>1, <1>4, <1>7, <2>1 DEF RefusePing, WriterTypeOK
  <2> QED BY <1>2, <1>3, <2>2 DEF TypeOK
<1>8. CASE WriterRestart
  <2>1. pipe' \in Seq(Pings)
    BY <1>1, <1>8, SeqRear DEF WriterRestart, WriterTypeOK
  <2>2. replies' \in Seq(Reply)
    BY <1>1, <1>8, SeqFront DEF WriterRestart, WriterTypeOK
  <2>3. WriterTypeOK'
    BY <1>1, <1>8, <2>1, <2>2 DEF WriterRestart, WriterTypeOK
  <2> QED BY <1>2, <1>3, <2>3 DEF TypeOK
<1> QED BY <1>5, <1>6, <1>7, <1>8 DEF WriterStep, WriterFault
\* A second's passing keeps the types.
LEMMA TickType ==
  ASSUME TypeOK, Tick
  PROVE  TypeOK'
<1>1. WriterTypeOK' /\ CheckerTypeOK'
  BY TypeUnchanged DEF Tick
<1>2. QueueTypeOK'
  <2>1. QueueTypeOK /\ RowsType /\ AgeRows /\ NoFault
    BY TypeOfRows DEF TypeOK, Tick, NoFault
  <2> QED BY <2>1, AgeRowsRows, QueueTypeStep
<1>3. HandlerTypeOK'
  <2>1. HandlerTypeOK
    BY DEF TypeOK
  <2>2. \A p \in Pings : stamp[p] \in Ages /\ Older(stamp[p]) \in Ages
    BY <2>1, OlderType DEF HandlerTypeOK
  <2> QED BY <2>1, <2>2 DEF Tick, AgeStamps, HandlerTypeOK
<1> QED BY <1>1, <1>2, <1>3 DEF TypeOK

\* An exit of the process keeps the types.
LEMMA ExitType ==
  ASSUME TypeOK, Fault \/ NoFault, NEW panicking, Exit(panicking)
  PROVE  TypeOK'
<1>1. HandlerTypeOK /\ WriterTypeOK /\ CheckerTypeOK /\ QueueTypeOK
  BY DEF TypeOK
<1>2. QueueTypeOK'
  BY <1>1, TypeUnchanged, QueueTypeStep DEF Exit
<1>3. HandlerTypeOK'
  <2>1. 0 \in Ages
    BY PingAssumption, SMT DEF Ages
  <2> QED BY <1>1, <2>1 DEF Exit, HandlersExit, HandlerTypeOK, Stages
<1>4. WriterTypeOK'
  BY <1>1, SocketClosesType DEF Exit, WriterTypeOK
<1>5. CheckerTypeOK'
  BY <1>1 DEF Exit, CheckerExits, CheckerTypeOK, Steps
<1> QED BY <1>2, <1>3, <1>4, <1>5 DEF TypeOK

\* Every step keeps the types.
LEMMA StepType == TypeOK /\ [Next]_vars => TypeOK'
<1> SUFFICES ASSUME TypeOK, [Next]_vars PROVE TypeOK'
  OBVIOUS
<1>1. ASSUME NEW p \in Pings, PanickingRequest(p) PROVE TypeOK'
  BY <1>1, ExitType DEF PanickingRequest
<1>2. CASE Crash
  BY <1>2, ExitType DEF Crash
<1>3. CASE UNCHANGED vars
  BY <1>3, TypeUnchanged DEF TypeOK, vars
<1> QED BY <1>1, <1>2, <1>3, HandlerType, CheckerType, WriterType, TickType
        DEF Next

\* Types are an invariant.
THEOREM TypeCorrect == Spec => []TypeOK
  BY InitType, StepType, PTL DEF Spec

-----------------------------------------------------------------------------
(* The rows of the table.                                                  *)

\* What a step does to the rows: it leaves them alone, or it is a handler's
\* insertion or update of its ping, a mark, a deletion, a reset or a second's
\* passing.
LEMMA RowsStep ==
  ASSUME TypeOK, [Next]_vars
  PROVE  \/ UNCHANGED queue
         \/ \E p \in Pings : stage[p] = "insert" /\ InsertRow(p, stamp[p])
                             /\ stage' = [stage EXCEPT ![p] = "inserted"]
         \/ \E p \in Pings : stage[p] = "update" /\ UpdateRow(p, stamp[p])
                             /\ stage' = [stage EXCEPT ![p] = "updated"]
         \/ \E item \in batch : pc = "mark" /\ IsNext(item, batch)
                                /\ SetInflight(UrlOf[item.ping])
         \/ \E u \in doomed : DeleteRow(u)
         \/ ResetRows
         \/ AgeRows
<1>1. ASSUME NEW p \in Pings, HandlerStep(p)
      PROVE  \/ UNCHANGED queue
             \/ /\ stage[p] = "insert" /\ InsertRow(p, stamp[p])
                /\ stage' = [stage EXCEPT ![p] = "inserted"]
             \/ /\ stage[p] = "update" /\ UpdateRow(p, stamp[p])
                /\ stage' = [stage EXCEPT ![p] = "updated"]
  BY <1>1 DEF HandlerStep, Handle, Receive, InsertPing, InsertRefused,
              UpdatePing, UpdateFails, Finish
<1>2. ASSUME NEW p \in Pings, PanickingRequest(p) PROVE UNCHANGED queue
  BY <1>2 DEF PanickingRequest, Exit
<1>3. CASE CheckerStep
  <2>1. ReceiveNothing \/ ReceiveReply \/ SendFails => UNCHANGED queue
    BY DEF ReceiveNothing, ReceiveReply, SendFails, queueVars
  <2>2. Select => UNCHANGED queue
    BY DEF Select
  <2>3. \A u \in doomed : Delete(u) => DeleteRow(u) \/ UNCHANGED queue
    BY DEF Delete
  <2>4. \A item \in batch : Send(item) => UNCHANGED queue
    BY DEF Send, queueVars
  <2>5. \A item \in batch : Mark(item) =>
          \/ UNCHANGED queue
          \/ /\ pc = "mark" /\ IsNext(item, batch)
             /\ SetInflight(UrlOf[item.ping])
    BY DEF Mark
  <2>6. Reset => ResetRows \/ UNCHANGED queue
    BY DEF Reset
  <2> QED BY <1>3, <2>1, <2>2, <2>3, <2>4, <2>5, <2>6 DEF CheckerStep, CheckerNext
<1>4. WriterStep \/ WriterFault \/ Crash => UNCHANGED queue
  BY DEF WriterStep, WriterFault, Crash, Exit, queueVars
<1>5. Tick => AgeRows
  BY DEF Tick
<1>6. UNCHANGED vars => UNCHANGED queue
  BY DEF vars, queueVars
<1> QED BY <1>1, <1>2, <1>3, <1>4, <1>5, <1>6 DEF Next

\* Every step keeps the rows sound.
LEMMA StepRows ==
  ASSUME TypeOK, RowsWellFormed, [Next]_vars
  PROVE  RowsWellFormed'
<1>1. RowsType /\ RowsSound
  BY TypeOfRows, SoundRows
<1>2. \A p \in Pings : stamp[p] \in Ages
  BY DEF TypeOK, HandlerTypeOK
<1>3. RowsSound'
  <2>1. UNCHANGED queue => RowsSound'
    BY <1>1 DEF RowsSound
  <2>2. \A item \in batch : SetInflight(UrlOf[item.ping]) => RowsSound'
    BY <1>1, ItemType, SetInflightRows
  <2>3. \A u \in doomed : DeleteRow(u) => RowsSound'
    BY <1>1, DeleteRowRows
  <2>4. \A p \in Pings : InsertRow(p, stamp[p]) => RowsSound'
    BY <1>1, <1>2, InsertRowRows
  <2>5. \A p \in Pings : UpdateRow(p, stamp[p]) => RowsSound'
    BY <1>1, <1>2, UpdateRowRows
  <2>6. ResetRows => RowsSound'
    BY <1>1, ResetRowsRows
  <2>7. AgeRows => RowsSound'
    BY <1>1, AgeRowsRows
  <2> QED BY <2>1, <2>2, <2>3, <2>4, <2>5, <2>6, <2>7, RowsStep
<1> QED BY <1>3, SoundRows, PTL
-----------------------------------------------------------------------------
(* From the table through the batch and the socket to the writer.          *)

\* A ping once stored stays so.
LEMMA StoredGrows ==
  ASSUME TypeOK, [Next]_vars
  PROVE  Stored \subseteq Stored'
<1>1. ASSUME NEW p \in Pings, HandlerStep(p) PROVE Stored \subseteq Stored'
  <2>1. stage \in [Pings -> Stages]
    BY DEF TypeOK, HandlerTypeOK
  <2>2. /\ stage[p] \notin {"inserted", "updated"}
        /\ \E how : stage' = [stage EXCEPT ![p] = how]
    BY <1>1 DEF HandlerStep, Handle, Receive, InsertPing, InsertRefused,
                UpdatePing, UpdateFails, Finish
  <2> QED BY <2>1, <2>2 DEF Stored
<1>2. ASSUME NEW panicking, HandlersExit(panicking),
             \A p \in panicking : p \in Pings => stage[p] = "new"
      PROVE  Stored \subseteq Stored'
  BY <1>2 DEF HandlersExit, Stored, InProgress
<1>3. ASSUME NEW p \in Pings, PanickingRequest(p) PROVE Stored \subseteq Stored'
  BY <1>2, <1>3 DEF PanickingRequest, Exit
<1>4. Crash => Stored \subseteq Stored'
  BY <1>2 DEF Crash, Exit
<1>5. UNCHANGED stage => Stored \subseteq Stored'
  BY DEF Stored
<1>6. CheckerStep \/ WriterStep \/ WriterFault \/ Tick \/ UNCHANGED vars
        => UNCHANGED stage
  BY DEF CheckerStep, WriterStep, WriterFault, Tick, vars, handlerVars
<1> QED BY <1>1, <1>3, <1>4, <1>5, <1>6 DEF Next

\* Every row holds a stored ping.
LEMMA StepRowPings ==
  ASSUME TypeOK, TravelInv, [Next]_vars
  PROVE  \A u \in Queued' : queue'[u].ping \in Stored'
<1> DEFINE Goal == \A u \in DOMAIN queue' : queue'[u].ping \in Stored'
<1> SUFFICES Goal
  BY DEF Queued
<1>1. /\ RowsType /\ Stored \subseteq Stored'
      /\ \A u \in DOMAIN queue : queue[u].ping \in Stored
      /\ \A p \in Pings : stamp[p] \in Ages
  BY TypeOfRows, StoredGrows DEF TypeOK, HandlerTypeOK, TravelInv, Queued
<1>2. ASSUME NEW P, NEW M, RowsComeFrom(P, M), P \subseteq Stored' PROVE Goal
  BY <1>1, <1>2 DEF RowsComeFrom
<1>3. ASSUME NEW p \in Pings, NEW how \in {"inserted", "updated"},
             stage' = [stage EXCEPT ![p] = how]
      PROVE  {p} \subseteq Stored'
  BY <1>3 DEF Stored, TypeOK, HandlerTypeOK
<1>4. CASE UNCHANGED queue
  BY <1>1, <1>4
<1>5. ASSUME NEW p \in Pings, InsertRow(p, stamp[p]),
             stage' = [stage EXCEPT ![p] = "inserted"]
      PROVE  Goal
  <2>1. RowsComeFrom({p}, {})
    BY <1>1, <1>5, InsertRowRows
  <2> QED BY <1>2, <1>3, <1>5, <2>1
<1>6. ASSUME NEW p \in Pings, UpdateRow(p, stamp[p]),
             stage' = [stage EXCEPT ![p] = "updated"]
      PROVE  Goal
  <2>1. RowsComeFrom({p}, {})
    BY <1>1, <1>6, UpdateRowRows
  <2> QED BY <1>2, <1>3, <1>6, <2>1
<1>7. ASSUME NEW item \in batch, SetInflight(UrlOf[item.ping]) PROVE Goal
  <2>1. RowsComeFrom({}, {UrlOf[item.ping]})
    BY <1>1, <1>7, ItemType, SetInflightRows
  <2> QED BY <1>2, <2>1
<1>8. ASSUME NEW u \in doomed, DeleteRow(u) PROVE Goal
  <2>1. RowsComeFrom({}, {})
    BY <1>1, <1>8, DeleteRowRows
  <2> QED BY <1>2, <2>1
<1>9. CASE ResetRows \/ AgeRows
  <2>1. RowsComeFrom({}, {})
    BY <1>1, <1>9, ResetRowsRows, AgeRowsRows
  <2> QED BY <1>2, <2>1
<1> QED BY <1>4, <1>5, <1>6, <1>7, <1>8, <1>9, RowsStep

\* What a step does to the batch: it selects one, or shortens it.
LEMMA BatchStep ==
  ASSUME [Next]_vars
  PROVE  batch' \subseteq batch \/ batch' = Selected
<1>1. ReceiveNothing \/ ReceiveReply \/ SendFails \/ Reset
        => batch' \subseteq batch
  BY DEF ReceiveNothing, ReceiveReply, SendFails, Reset
<1>2. \A u \in doomed : Delete(u) => batch' \subseteq batch
  BY DEF Delete
<1>3. \A item \in batch : Send(item) \/ Mark(item) => batch' \subseteq batch
  BY DEF Send, Mark
<1>4. Select => batch' \subseteq batch \/ batch' = Selected
  BY DEF Select
<1>5. CheckerStep => batch' \subseteq batch \/ batch' = Selected
  BY <1>1, <1>2, <1>3, <1>4 DEF CheckerStep, CheckerNext
<1>6. \A panicking : Exit(panicking) => batch' \subseteq batch
  BY DEF Exit, CheckerExits
<1>7. \/ \E p \in Pings : HandlerStep(p)
      \/ WriterStep \/ WriterFault \/ Tick \/ UNCHANGED vars
      => batch' \subseteq batch
  BY DEF HandlerStep, WriterStep, WriterFault, Tick, vars, checkerVars
<1> QED BY <1>5, <1>6, <1>7 DEF Next, PanickingRequest, Crash

\* What travels past the socket, at a step.
Passed ==
  /\ handed \subseteq Stored
  /\ pipe \in Seq(handed)
  /\ held \subseteq handed
  /\ landed \cup refused \subseteq handed

\* All that passes the socket was stored and sent.
LEMMA StepPassed ==
  ASSUME TypeOK, TravelInv, [Next]_vars
  PROVE  Passed'
<1>1. /\ Passed
      /\ Stored \subseteq Stored'
      /\ \A item \in batch : item.ping \in Stored
  BY StoredGrows DEF TravelInv, Passed
<1>2. CASE UNCHANGED <<handed, writerVars>>
  BY <1>1, <1>2 DEF Passed, writerVars
<1>3. CASE SocketCloses /\ UNCHANGED <<handed, held, landed, refused>>
  <2>1. pipe' \in Seq(handed)
    BY <1>1, <1>3, SeqFront DEF SocketCloses, Passed
  <2> QED BY <1>1, <1>3, <2>1 DEF Passed
<1>4. ASSUME NEW item \in batch, Send(item) PROVE Passed'
  <2>1. handed' = handed \cup {item.ping} /\ pipe' = Append(pipe, item.ping)
    BY <1>4 DEF Send
  <2>2. pipe \in Seq(handed')
    BY <1>1, <2>1, SeqOfMore DEF Passed
  <2>3. pipe' \in Seq(handed')
    BY <2>1, <2>2, SeqAppend
  <2>4. UNCHANGED <<held, landed, refused>>
    BY <1>4 DEF Send
  <2> QED BY <1>1, <2>1, <2>3, <2>4 DEF Passed
<1>5. CASE ReceiveReply
  BY <1>1, <1>5 DEF ReceiveReply, Passed
<1>6. CheckerStep => Passed'
  <2>1. ReceiveNothing \/ Select \/ Reset => UNCHANGED <<handed, writerVars>>
    BY DEF ReceiveNothing, Select, Reset
  <2>2. \A u \in doomed : Delete(u) => UNCHANGED <<handed, writerVars>>
    BY DEF Delete
  <2>3. \A item \in batch : Mark(item) => UNCHANGED <<handed, writerVars>>
    BY DEF Mark
  <2>4. SendFails => SocketCloses /\ UNCHANGED <<handed, held, landed, refused>>
    BY DEF SendFails
  <2> QED BY <1>2, <1>3, <1>4, <1>5, <2>1, <2>2, <2>3, <2>4
          DEF CheckerStep, CheckerNext
<1>7. ASSUME NEW panicking, Exit(panicking) PROVE Passed'
  BY <1>3, <1>7 DEF Exit, CheckerExits
<1>8. ASSUME WriterStep \/ WriterFault PROVE Passed'
  <2>1. UNCHANGED <<handed, stage>>
    BY <1>8 DEF WriterStep, WriterFault, checkerVars, handlerVars
  <2>2. CASE TakePing
    <3>1. Head(pipe) \in handed /\ Tail(pipe) \in Seq(handed)
      BY <1>1, <2>2, SeqHeadTail DEF TakePing, Passed
    <3> QED BY <1>1, <2>1, <2>2, <3>1 DEF TakePing, Passed
  <2>3. ASSUME NEW S \in SUBSET held, WriteToHive(S) \/ MissBlock(S)
        PROVE  Passed'
    BY <1>1, <2>1, <2>3 DEF WriteToHive, MissBlock, Answer, Passed
  <2>4. ASSUME NEW p \in held, RefusePing(p) PROVE Passed'
    BY <1>1, <2>1, <2>4 DEF RefusePing, Answer, Passed
  <2>5. CASE WriterRestart
    <3>1. pipe' \in Seq(handed)
      BY <1>1, <2>5, SeqRear DEF WriterRestart, Passed
    <3> QED BY <1>1, <2>1, <2>5, <3>1 DEF WriterRestart, Passed
  <2> QED BY <1>8, <2>2, <2>3, <2>4, <2>5 DEF WriterStep, WriterFault
<1>9. \/ \E p \in Pings : HandlerStep(p)
      \/ Tick \/ UNCHANGED vars
      => UNCHANGED <<handed, writerVars>>
  BY DEF HandlerStep, Tick, vars, checkerVars
<1> QED BY <1>2, <1>6, <1>7, <1>8, <1>9 DEF Next, PanickingRequest, Crash

\* Every step keeps what travels stored, and what passed the socket sent.
LEMMA StepTravel ==
  ASSUME TypeOK, TravelInv, [Next]_vars
  PROVE  TravelInv'
<1>1. \A item \in batch' : item.ping \in Stored'
  <2>1. \A item \in batch : item.ping \in Stored
    BY DEF TravelInv
  <2>2. \A item \in Selected : item.ping \in Stored
    <3>1. SelectedUrls \subseteq Queued
      BY DEF SelectedUrls, Waiting, Queued
    <3> QED BY <3>1 DEF Selected, TravelInv
  <2> QED BY <2>1, <2>2, BatchStep, StoredGrows
<1> QED BY <1>1, StepRowPings, StepPassed DEF TravelInv, Passed
-----------------------------------------------------------------------------
(* From the writer back to the table.                                      *)

\* What is settled stays so.
LEMMA SettledGrows ==
  ASSUME [Next]_vars
  PROVE  Settled \subseteq Settled'
<1>1. landed \subseteq landed' /\ refused \subseteq refused'
  <2>1. WriterStep \/ WriterFault => landed \subseteq landed' /\ refused \subseteq refused'
    BY DEF WriterStep, WriterFault, TakePing, WriteToHive, RefusePing,
           MissBlock, WriterRestart
  <2>2. CheckerStep => UNCHANGED <<landed, refused>>
    BY DEF CheckerStep, CheckerNext, ReceiveNothing, ReceiveReply, Delete,
           Select, Send, SendFails, Mark, Reset, writerVars
  <2>3. \/ \E p \in Pings : HandlerStep(p) \/ PanickingRequest(p)
        \/ Crash \/ Tick \/ UNCHANGED vars
        => UNCHANGED <<landed, refused>>
    BY DEF HandlerStep, PanickingRequest, Crash, Exit, Tick, vars, writerVars
  <2> QED BY <2>1, <2>2, <2>3 DEF Next
<1> QED BY <1>1 DEF Settled, UrlsOf

\* The replies on their way stay honest, and the new ones are.
LEMMA StepReplies ==
  ASSUME TypeOK, AnswerInv, [Next]_vars
  PROVE  replies' \in Seq(HonestReply')
<1>1. replies \in Seq(HonestReply)
  BY DEF AnswerInv
<1>2. HonestReply \subseteq HonestReply'
  BY SettledGrows DEF HonestReply
<1>3. SUFFICES replies' \in Seq(HonestReply) \/ replies' \in Seq(HonestReply')
  BY <1>2, SeqOfMore
<1>4. CASE UNCHANGED replies
  BY <1>1, <1>4
<1>5. CASE SocketCloses
  BY <1>5 DEF SocketCloses
<1>6. CASE CheckerStep
  <2>1. CASE ReceiveReply
    BY <1>1, <2>1, SeqHeadTail DEF ReceiveReply
  <2>2. ReceiveNothing \/ Select \/ Reset => UNCHANGED replies
    BY DEF ReceiveNothing, Select, Reset, writerVars
  <2>3. \A u \in doomed : Delete(u) => UNCHANGED replies
    BY DEF Delete, writerVars
  <2>4. \A item \in batch : Send(item) \/ Mark(item) => UNCHANGED replies
    BY DEF Send, Mark, writerVars
  <2>5. SendFails => SocketCloses
    BY DEF SendFails
  <2> QED BY <1>4, <1>5, <1>6, <2>1, <2>2, <2>3, <2>4, <2>5
          DEF CheckerStep, CheckerNext
<1>7. CASE WriterStep \/ WriterFault
  <2>1. ASSUME NEW kind \in {"written", "unwritten", "error"},
               NEW S \in SUBSET held, Answer(kind, S),
               kind # "unwritten" => UrlsOf(S) \subseteq Settled'
        PROVE  replies' \in Seq(HonestReply')
    <3>1. UrlsOf(S) \subseteq Urls
      BY PingAssumption DEF UrlsOf, TypeOK, WriterTypeOK
    <3>2. [kind |-> kind, urls |-> UrlsOf(S)] \in HonestReply'
      BY <2>1, <3>1 DEF HonestReply, Reply
    <3>3. replies \in Seq(HonestReply')
      BY <1>1, <1>2, SeqOfMore
    <3> QED BY <2>1, <3>2, <3>3, SeqAppend DEF Answer
  <2>2. ASSUME NEW S \in SUBSET held, WriteToHive(S)
        PROVE  replies' \in Seq(HonestReply')
    BY <2>1, <2>2 DEF WriteToHive, Settled, UrlsOf
  <2>3. ASSUME NEW S \in SUBSET held, MissBlock(S)
        PROVE  replies' \in Seq(HonestReply')
    BY <2>1, <2>3 DEF MissBlock
  <2>4. ASSUME NEW p \in held, RefusePing(p)
        PROVE  replies' \in Seq(HonestReply')
    BY <2>1, <2>4 DEF RefusePing, Settled, UrlsOf
  <2>5. CASE WriterRestart
    BY <1>1, <2>5, SeqFront DEF WriterRestart
  <2>6. CASE TakePing
    BY <1>4, <2>6 DEF TakePing
  <2> QED BY <1>7, <2>2, <2>3, <2>4, <2>5, <2>6 DEF WriterStep, WriterFault
<1>8. \/ \E p \in Pings : HandlerStep(p)
      \/ Tick \/ UNCHANGED vars
      => UNCHANGED replies
  BY DEF HandlerStep, Tick, vars, writerVars
<1>9. \/ \E p \in Pings : PanickingRequest(p)
      \/ Crash
      => SocketCloses
  BY DEF PanickingRequest, Crash, Exit
<1> QED BY <1>4, <1>5, <1>6, <1>7, <1>8, <1>9 DEF Next

\* The checker only sets out to delete what is settled.
LEMMA StepAnswer ==
  ASSUME TypeOK, AnswerInv, [Next]_vars
  PROVE  AnswerInv'
<1>1. /\ doomed \subseteq Settled
      /\ replies \in Seq(HonestReply)
  BY DEF AnswerInv
<1>2. doomed' \subseteq Settled
  <2>1. CASE ReceiveReply
    <3>1. Head(replies) \in HonestReply
      BY <1>1, <2>1, SeqHeadTail DEF ReceiveReply
    <3> QED BY <2>1, <3>1 DEF ReceiveReply, HonestReply
  <2>2. ReceiveNothing \/ Select \/ Reset \/ SendFails => UNCHANGED doomed
    BY DEF ReceiveNothing, Select, Reset, SendFails
  <2>3. \A u \in doomed : Delete(u) => doomed' \subseteq doomed
    BY DEF Delete
  <2>4. \A item \in batch : Send(item) \/ Mark(item) => UNCHANGED doomed
    BY DEF Send, Mark
  <2>5. CheckerStep => doomed' \subseteq Settled
    BY <1>1, <2>1, <2>2, <2>3, <2>4 DEF CheckerStep, CheckerNext
  <2>6. \A panicking : Exit(panicking) => doomed' = {}
    BY DEF Exit, CheckerExits
  <2>7. \/ \E p \in Pings : HandlerStep(p)
        \/ WriterStep \/ WriterFault \/ Tick \/ UNCHANGED vars
        => UNCHANGED doomed
    BY DEF HandlerStep, WriterStep, WriterFault, Tick, vars, checkerVars
  <2> QED BY <1>1, <2>5, <2>6, <2>7 DEF Next, PanickingRequest, Crash
<1> QED BY <1>2, SettledGrows, StepReplies DEF AnswerInv
\* A ping becomes inserted only by an insertion.
LEMMA InsertedBy ==
  ASSUME TypeOK, [Next]_vars, NEW p \in Pings, stage'[p] = "inserted"
  PROVE  \/ stage[p] = "inserted"
         \/ InsertRow(p, stamp[p])
<1>0. stage \in [Pings -> Stages]
  BY DEF TypeOK, HandlerTypeOK
<1>1. ASSUME NEW q \in Pings, HandlerStep(q)
      PROVE  stage[p] = "inserted" \/ InsertRow(p, stamp[p])
  <2>1. CASE InsertPing(q)
    BY <1>0, <2>1 DEF InsertPing, Finish
  <2>2. CASE Receive(q) \/ InsertRefused(q) \/ UpdatePing(q) \/ UpdateFails(q)
    BY <1>0, <2>2 DEF Receive, InsertRefused, UpdatePing, UpdateFails, Finish
  <2> QED BY <1>1, <2>1, <2>2 DEF HandlerStep, Handle
<1>2. ASSUME NEW panicking, HandlersExit(panicking) PROVE stage[p] = "inserted"
  BY <1>0, <1>2 DEF HandlersExit
<1>3. \/ CheckerStep \/ WriterStep \/ WriterFault \/ Tick \/ UNCHANGED vars
      => UNCHANGED stage
  BY DEF CheckerStep, WriterStep, WriterFault, Tick, vars, handlerVars
<1> QED BY <1>1, <1>2, <1>3 DEF Next, PanickingRequest, Crash, Exit

\* A row leaves the table only by the deletion of a doomed url.
LEMMA QueuedStep ==
  ASSUME TypeOK, [Next]_vars
  PROVE  /\ Queued \subseteq Queued' \cup doomed
         /\ \A p \in Pings : InsertRow(p, stamp[p]) => UrlOf[p] \in Queued'
<1>1. RowsType /\ \A p \in Pings : stamp[p] \in Ages
  BY TypeOfRows DEF TypeOK, HandlerTypeOK
<1>2. \A p \in Pings :
        InsertRow(p, stamp[p]) => Queued' = Queued \cup {UrlOf[p]}
  BY <1>1, InsertRowRows DEF Queued
<1>3. \A p \in Pings : UpdateRow(p, stamp[p]) => Queued' = Queued
  BY <1>1, UpdateRowRows DEF Queued
<1>4. \A item \in batch : SetInflight(UrlOf[item.ping]) => Queued' = Queued
  BY <1>1, ItemType, SetInflightRows DEF Queued
<1>5. \A u \in doomed : DeleteRow(u) => Queued' = Queued \ {u}
  BY <1>1, DeleteRowRows DEF Queued
<1>6. ResetRows \/ AgeRows => Queued' = Queued
  BY <1>1, ResetRowsRows, AgeRowsRows DEF Queued
<1>7. UNCHANGED queue => Queued' = Queued
  BY DEF Queued
<1> QED BY <1>2, <1>3, <1>4, <1>5, <1>6, <1>7, RowsStep

\* Every step is at most one fault.
LEMMA FaultOrNot ==
  ASSUME [Next]_vars
  PROVE  Fault \/ NoFault
<1>1. ASSUME NEW p \in Pings, HandlerStep(p) PROVE Fault \/ NoFault
  BY <1>1 DEF HandlerStep, Handle, Receive, InsertPing, InsertRefused, UpdatePing,
              UpdateFails
<1>2. ASSUME NEW p \in Pings, PanickingRequest(p) PROVE Fault \/ NoFault
  BY <1>2 DEF PanickingRequest
<1>3. CASE CheckerStep
  <2>1. ReceiveNothing \/ ReceiveReply \/ SendFails => NoFault
    BY DEF ReceiveNothing, ReceiveReply, SendFails, queueVars, NoFault
  <2>2. Select \/ Reset => Fault \/ NoFault
    BY DEF Select, Reset
  <2>3. \A u \in doomed : Delete(u) => Fault \/ NoFault
    BY DEF Delete
  <2>4. \A item \in batch : Send(item) \/ Mark(item) => Fault \/ NoFault
    BY DEF Send, Mark, queueVars, NoFault
  <2> QED BY <1>3, <2>1, <2>2, <2>3, <2>4 DEF CheckerStep, CheckerNext
<1>4. WriterFault \/ Crash => Fault
  BY DEF WriterFault, Crash
<1>5. WriterStep \/ Tick \/ UNCHANGED vars => NoFault
  BY DEF WriterStep, Tick, vars, queueVars, NoFault
<1> QED BY <1>1, <1>2, <1>3, <1>4, <1>5 DEF Next

\* In a step without a fault a handler gets past its insertion only by inserting
\* its row, or because there was one.
LEMMA AnsweredBy ==
  ASSUME TypeOK, [Next]_vars, ~Fault, NEW p \in Pings,
         stage'[p] \in {"inserted", "update", "updated", "dropped"},
         stage[p] \notin {"inserted", "update", "updated", "dropped"}
  PROVE  InsertRow(p, stamp[p]) \/ UrlOf[p] \in Queued
<1>0. stage \in [Pings -> Stages]
  BY DEF TypeOK, HandlerTypeOK
<1>1. ASSUME NEW q \in Pings, HandlerStep(q)
      PROVE  InsertRow(p, stamp[p]) \/ UrlOf[p] \in Queued
  <2>1. CASE InsertPing(q)
    BY <1>0, <2>1 DEF InsertPing, Finish
  <2>2. CASE InsertRefused(q)
    BY <1>0, <2>2 DEF InsertRefused, Finish, Queued
  <2>3. CASE Receive(q) \/ UpdatePing(q) \/ UpdateFails(q)
    BY <1>0, <2>3 DEF Receive, UpdatePing, UpdateFails, Finish
  <2> QED BY <1>1, <2>1, <2>2, <2>3 DEF HandlerStep, Handle
<1>2. \A panicking : ~HandlersExit(panicking)
  BY <1>0 DEF HandlersExit
<1>3. \/ CheckerStep \/ WriterStep \/ WriterFault \/ Tick \/ UNCHANGED vars
      => UNCHANGED stage
  BY DEF CheckerStep, WriterStep, WriterFault, Tick, vars, handlerVars
<1> QED BY <1>1, <1>2, <1>3 DEF Next, PanickingRequest, Crash, Exit

\* No step withdraws an unsettled url.
LEMMA StepWithdrawn ==
  ASSUME TypeOK, AnswerInv, WithdrawnOnlyIfSettled, [Next]_vars
  PROVE  WithdrawnOnlyIfSettled'
<1> SUFFICES ASSUME NEW p \in Pings, stage'[p] = "inserted"
             PROVE  UrlOf[p] \in Queued' \cup Settled'
  BY DEF WithdrawnOnlyIfSettled
<1>1. CASE stage[p] = "inserted"
  <2>1. UrlOf[p] \in Queued \cup Settled
    BY <1>1 DEF WithdrawnOnlyIfSettled
  <2> QED BY <2>1, QueuedStep, SettledGrows DEF AnswerInv
<1>2. CASE InsertRow(p, stamp[p])
  BY <1>2, QueuedStep
<1> QED BY <1>1, <1>2, InsertedBy

\* As long as nothing fails, an insertion is refused only because the url is
\* queued, and from then on it is kept like any other.
LEMMA StepRefused ==
  ASSUME TypeOK, AnswerInv, RefusedIsKept, [Next]_vars
  PROVE  RefusedIsKept'
<1> DEFINE Answered == {"inserted", "update", "updated", "dropped"}
<1> SUFFICES ASSUME faults' = 0, NEW p \in Pings, stage'[p] \in Answered
             PROVE  UrlOf[p] \in Queued' \cup Settled'
  BY DEF RefusedIsKept
<1>1. faults = 0 /\ ~Fault
  <2>1. faults \in Nat
    BY DEF TypeOK, QueueTypeOK
  <2>2. ~Fault
    BY <2>1, SMT DEF Fault
  <2> QED BY <2>1, <2>2, FaultOrNot DEF NoFault
<1>2. UrlOf[p] \in Queued \cup Settled => UrlOf[p] \in Queued' \cup Settled'
  BY QueuedStep, SettledGrows DEF AnswerInv
<1>3. CASE stage[p] \in Answered
  BY <1>1, <1>2, <1>3 DEF RefusedIsKept
<1>4. CASE stage[p] \notin Answered
  <2>1. InsertRow(p, stamp[p]) \/ UrlOf[p] \in Queued
    BY <1>1, <1>4, AnsweredBy
  <2> QED BY <1>2, <2>1, QueuedStep
<1> QED BY <1>3, <1>4

-----------------------------------------------------------------------------
(* Marks.                                                                  *)

\* The checker comes to the mark only by a send, and waits there unchanged.
LEMMA StepMark ==
  ASSUME TypeOK, MarkInv, [Next]_vars
  PROVE  MarkInv'
<1>1. CASE pc' # "mark"
  BY <1>1 DEF MarkInv
<1>2. CASE UNCHANGED <<pc, batch, handed>>
  BY <1>2 DEF MarkInv, IsNext
<1>3. ASSUME NEW item \in batch, Send(item) PROVE MarkInv'
  <2>1. batch' = batch /\ item.ping \in handed' /\ IsNext(item, batch)
    BY <1>3 DEF Send
  <2>2. batch \in SUBSET Item
    BY DEF TypeOK, CheckerTypeOK
  <2>3. \A other \in batch : IsNext(other, batch) => other = item
    BY <2>1, <2>2, NextIsUnique
  <2>4. \A other \in batch' : IsNext(other, batch') => other.ping \in handed'
    BY <2>1, <2>3
  <2> QED BY <2>4 DEF MarkInv, IsNext
<1>4. CASE CheckerStep
  <2>1. AfterReceive # "mark"
    BY DEF AfterReceive
  <2>2. ReceiveNothing \/ ReceiveReply \/ Select \/ SendFails \/ Reset
          => pc' # "mark"
    BY <2>1 DEF ReceiveNothing, ReceiveReply, Select, SendFails, Reset
  <2>3. \A u \in doomed : Delete(u) => pc' # "mark"
    BY <2>1 DEF Delete
  <2>4. \A item \in batch : Mark(item) => pc' # "mark"
    BY DEF Mark
  <2> QED BY <1>1, <1>3, <1>4, <2>2, <2>3, <2>4 DEF CheckerStep, CheckerNext
<1>5. \A panicking : Exit(panicking) => pc' # "mark"
  BY DEF Exit, CheckerExits
<1>6. \/ \E p \in Pings : HandlerStep(p)
      \/ WriterStep \/ WriterFault \/ Tick \/ UNCHANGED vars
      => UNCHANGED <<pc, batch, handed>>
  BY DEF HandlerStep, WriterStep, WriterFault, Tick, vars, checkerVars
<1> QED BY <1>1, <1>2, <1>4, <1>5, <1>6 DEF Next, PanickingRequest, Crash

\* What has been sent stays so.
LEMMA HandedGrows ==
  ASSUME [Next]_vars
  PROVE  handed \subseteq handed'
<1>1. CheckerStep => handed \subseteq handed'
  BY DEF CheckerStep, CheckerNext, ReceiveNothing, ReceiveReply, Delete,
         Select, Send, SendFails, Mark, Reset
<1>2. \A panicking : Exit(panicking) => handed \subseteq handed'
  BY DEF Exit, CheckerExits
<1>3. \/ \E p \in Pings : HandlerStep(p)
      \/ WriterStep \/ WriterFault \/ Tick \/ UNCHANGED vars
      => UNCHANGED handed
  BY DEF HandlerStep, WriterStep, WriterFault, Tick, vars, checkerVars
<1> QED BY <1>1, <1>2, <1>3 DEF Next, PanickingRequest, Crash

\* A row is put in flight only by a mark, whose url was sent.
LEMMA StepInflight ==
  ASSUME TypeOK, MarkInv, InflightUrlWasSent, [Next]_vars
  PROVE  InflightUrlWasSent'
<1> DEFINE Goal == \A u \in DOMAIN queue' :
                     queue'[u].inflight => u \in UrlsOf(handed')
<1> SUFFICES Goal
  BY DEF InflightUrlWasSent, Queued, UrlsOf
<1>1. /\ RowsType
      /\ \A p \in Pings : stamp[p] \in Ages
      /\ \A u \in DOMAIN queue : queue[u].inflight => u \in UrlsOf(handed')
  BY TypeOfRows, HandedGrows
     DEF TypeOK, HandlerTypeOK, InflightUrlWasSent, Queued, UrlsOf
<1>2. ASSUME NEW P, NEW M, RowsComeFrom(P, M), M \subseteq UrlsOf(handed')
      PROVE  Goal
  BY <1>1, <1>2 DEF RowsComeFrom
<1>3. CASE UNCHANGED queue
  BY <1>1, <1>3
<1>4. ASSUME NEW p \in Pings, InsertRow(p, stamp[p]) \/ UpdateRow(p, stamp[p])
      PROVE  Goal
  <2>1. RowsComeFrom({p}, {})
    BY <1>1, <1>4, InsertRowRows, UpdateRowRows
  <2> QED BY <1>2, <2>1
<1>5. ASSUME NEW item \in batch, pc = "mark", IsNext(item, batch),
             SetInflight(UrlOf[item.ping])
      PROVE  Goal
  <2>1. RowsComeFrom({}, {UrlOf[item.ping]})
    BY <1>1, <1>5, ItemType, SetInflightRows
  <2>2. UrlOf[item.ping] \in UrlsOf(handed')
    BY <1>5, HandedGrows DEF MarkInv, UrlsOf
  <2> QED BY <1>2, <2>1, <2>2
<1>6. ASSUME NEW u \in doomed, DeleteRow(u) PROVE Goal
  <2>1. RowsComeFrom({}, {})
    BY <1>1, <1>6, DeleteRowRows
  <2> QED BY <1>2, <2>1
<1>7. CASE ResetRows \/ AgeRows
  <2>1. RowsComeFrom({}, {})
    BY <1>1, <1>7, ResetRowsRows, AgeRowsRows
  <2> QED BY <1>2, <2>1
<1> QED BY <1>3, <1>4, <1>5, <1>6, <1>7, RowsStep

\* A handler comes to its update only with a live ping.
LEMMA StepUrgent ==
  ASSUME TypeOK, UpdatesAreUrgent, [Next]_vars
  PROVE  UpdatesAreUrgent'
<1>1. stage \in [Pings -> Stages]
  BY DEF TypeOK, HandlerTypeOK
<1>2. ASSUME NEW p \in Pings, HandlerStep(p) PROVE UpdatesAreUrgent'
  <2>1. CASE InsertRefused(p)
    BY <1>1, <2>1 DEF InsertRefused, Finish, UpdatesAreUrgent
  <2>2. CASE Receive(p) \/ InsertPing(p) \/ UpdatePing(p) \/ UpdateFails(p)
    BY <1>1, <2>2 DEF Receive, InsertPing, UpdatePing, UpdateFails, Finish,
                      UpdatesAreUrgent
  <2> QED BY <1>2, <2>1, <2>2 DEF HandlerStep, Handle
<1>3. \A panicking : HandlersExit(panicking) => UpdatesAreUrgent'
  BY <1>1 DEF HandlersExit, InProgress, UpdatesAreUrgent
<1>4. UNCHANGED stage => UpdatesAreUrgent'
  BY DEF UpdatesAreUrgent
<1>5. \/ CheckerStep \/ WriterStep \/ WriterFault \/ Tick \/ UNCHANGED vars
      => UNCHANGED stage
  BY DEF CheckerStep, WriterStep, WriterFault, Tick, vars, handlerVars
<1> QED BY <1>2, <1>3, <1>4, <1>5 DEF Next, PanickingRequest, Crash, Exit

\* The checks let only what they should through.
LEMMA StoredIsAdmitted ==
  ASSUME NEW r \in Request, NEW e \in Env, Verdict(r, e) = "store"
  PROVE  Admitted(r)
<1>1. /\ r.method = "GET" /\ r.path = "/"
      /\ PingVerdict(r, e) = "store"
  <2>1. PublishersVerdict(r, e) # "store"
    BY DEF PublishersVerdict, FirstOf, ListVerdict, Env, AuthState
  <2> QED BY <2>1 DEF Verdict
<1>2. AddressVerdict(r.address) = "store" /\ r.query
  <2>1. HomeVerdict(e.page) # "store"
    BY DEF HomeVerdict
  <2> QED BY <1>1, <2>1 DEF PingVerdict, FirstOf
<1>3. /\ AuthorizationVerdict(r, e.auth) = "store"
      /\ AgentVerdict(r.agent) = "store" /\ UrlVerdict(r.url) = "store"
      /\ CodeVerdict(r.reason) = "store" /\ CodeVerdict(r.medium) = "store"
  BY <1>1, <1>2 DEF PingVerdict, FirstOf
<1>4. /\ r.address \in Header /\ r.authorization \in Header /\ r.agent \in Header
      /\ r.token \in Tokens
  BY DEF Request
<1>5. r.authorization = "text" /\ AuthVerdict(r.token, e.auth) = "store"
  BY <1>3, <1>4 DEF AuthorizationVerdict, Header
<1>6. Matched(r)
  <2>1. Len(r.token) \in Nat /\ HybridLength \in Nat
    BY <1>4, AuthAssumption
  <2> QED BY <1>5, <2>1 DEF AuthVerdict, HybridVerdict, Matched
<1>7. r.agent = "text"
  BY <1>3, <1>4 DEF AgentVerdict, Header
<1>8. r.address # "bytes" /\ r.url = "http" /\ r.reason # "unknown" /\ r.medium # "unknown"
  BY <1>2, <1>3 DEF AddressVerdict, UrlVerdict, CodeVerdict
<1> QED BY <1>1, <1>2, <1>6, <1>7, <1>8 DEF Admitted, WellFormed

\* A handler gets past the checks only with an admitted request.
LEMMA StepAdmitted ==
  ASSUME TypeOK, AdmittedInv, [Next]_vars
  PROVE  AdmittedInv'
<1>1. stage \in [Pings -> Stages] /\ \A p \in Pings : Form[p] \in Request
  BY FormAssumption DEF TypeOK, HandlerTypeOK
<1>2. ASSUME NEW p \in Pings, HandlerStep(p) PROVE AdmittedInv'
  <2>1. CASE Receive(p)
    <3>1. PICK how \in {"insert", "turned away"} :
            /\ stage' = [stage EXCEPT ![p] = how]
            /\ how = "insert" => \E env \in Env : Verdict(Form[p], env) = "store"
      BY <2>1 DEF Receive, Finish
    <3>2. how = "insert" => Admitted(Form[p])
      BY <1>1, <3>1, StoredIsAdmitted
    <3> QED BY <1>1, <3>1, <3>2 DEF AdmittedInv
  <2>2. CASE Handle(p)
    <3>1. /\ stage[p] \in InProgress
          /\ \E how : stage' = [stage EXCEPT ![p] = how]
      BY <2>2 DEF Handle, InsertPing, InsertRefused, UpdatePing, UpdateFails,
                  Finish, InProgress
    <3> QED BY <1>1, <3>1 DEF AdmittedInv, InProgress
  <2> QED BY <1>2, <2>1, <2>2 DEF HandlerStep
<1>3. \A panicking : HandlersExit(panicking) => AdmittedInv'
  BY <1>1 DEF HandlersExit, InProgress, AdmittedInv
<1>4. UNCHANGED stage => AdmittedInv'
  BY DEF AdmittedInv
<1>5. \/ CheckerStep \/ WriterStep \/ WriterFault \/ Tick \/ UNCHANGED vars
      => UNCHANGED stage
  BY DEF CheckerStep, WriterStep, WriterFault, Tick, vars, handlerVars
<1> QED BY <1>2, <1>3, <1>4, <1>5 DEF Next, PanickingRequest, Crash, Exit

-----------------------------------------------------------------------------
(* The inductive invariant and what it gives.                              *)

\* The invariant holds in the initial state.
LEMMA InitInv == Init => IInv
<1> SUFFICES ASSUME Init PROVE IInv
  OBVIOUS
<1>1. Queued = {}
  BY DEF Init, QueueInit, Queued
<1>2. RowsWellFormed /\ InflightUrlWasSent
  BY <1>1 DEF RowsWellFormed, InflightUrlWasSent
<1>3. TravelInv /\ AnswerInv
  BY <1>1 DEF Init, WriterInit, CheckerInit, TravelInv, AnswerInv
<1>4. WithdrawnOnlyIfSettled
  BY DEF Init, HandlerInit, WithdrawnOnlyIfSettled
<1>5. MarkInv /\ UpdatesAreUrgent
  BY DEF Init, CheckerInit, HandlerInit, MarkInv, UpdatesAreUrgent
<1>6. RefusedIsKept /\ AdmittedInv
  BY DEF Init, HandlerInit, RefusedIsKept, AdmittedInv
<1> QED BY <1>2, <1>3, <1>4, <1>5, <1>6, InitType DEF IInv

\* Every step keeps it.
LEMMA StepInv ==
  ASSUME IInv, [Next]_vars
  PROVE  IInv'
<1>1. TypeOK'
  BY StepType DEF IInv
<1>2. RowsWellFormed'
  BY StepRows DEF IInv
<1>3. TravelInv' /\ AnswerInv'
  BY StepTravel, StepAnswer DEF IInv
<1>4. WithdrawnOnlyIfSettled'
  BY StepWithdrawn DEF IInv
<1>5. MarkInv' /\ InflightUrlWasSent' /\ UpdatesAreUrgent'
  BY StepMark, StepInflight, StepUrgent DEF IInv
<1>6. RefusedIsKept' /\ AdmittedInv'
  BY StepRefused, StepAdmitted DEF IInv
<1> QED BY <1>1, <1>2, <1>3, <1>4, <1>5, <1>6 DEF IInv

\* The invariant is inductive, and so holds of every reachable state.
THEOREM Inductive == Spec => []IInv
<1>1. IInv /\ [Next]_vars => IInv'
  BY StepInv
<1> QED BY <1>1, InitInv, PTL DEF Spec

\* No crash, lost message, failed statement or missed block withdraws a url
\* the hive-writer has not settled.
THEOREM NothingWithdrawnUnsettled == Spec => []WithdrawnOnlyIfSettled
<1>1. IInv => WithdrawnOnlyIfSettled
  BY DEF IInv
<1> QED BY <1>1, Inductive, PTL

\* As long as nothing fails, the url of a ping answered 200 is in the queue or
\* settled, though the ping was dropped or came too late for its row.
THEOREM AnsweredAreKept == Spec => []AnsweredIsKept
<1>1. IInv => AnsweredIsKept
  BY DEF IInv, RefusedIsKept, AnsweredIsKept
<1> QED BY <1>1, Inductive, PTL

\* Only pings of well-formed requests whose token matched a row go to Hive,
\* whatever rows and tokens there are, and whatever becomes of auth.db.
THEOREM OnlyAdmittedGoOut == Spec => []OnlyAdmittedSent
<1>1. IInv => OnlyAdmittedSent
  BY DEF IInv, TravelInv, AdmittedInv, Stored, OnlyAdmittedSent
<1> QED BY <1>1, Inductive, PTL

\* Whatever the hive-writer settles was stored and then sent.
THEOREM OnlyStoredIsSettled == Spec => []SettledWasSent
<1>1. IInv => SettledWasSent
  BY DEF IInv, TravelInv, SettledWasSent
<1> QED BY <1>1, Inductive, PTL

\* A row in flight has a url that was sent.
THEOREM OnlySentIsInFlight == Spec => []InflightUrlWasSent
<1>1. IInv => InflightUrlWasSent
  BY DEF IInv
<1> QED BY <1>1, Inductive, PTL

\* Rows are filed under the url of their ping and have rowids of their own, so
\* that the order of a batch is a total one.
THEOREM TableIsSound == Spec => []RowsWellFormed
<1>1. IInv => RowsWellFormed
  BY DEF IInv
<1> QED BY <1>1, Inductive, PTL
=============================================================================
