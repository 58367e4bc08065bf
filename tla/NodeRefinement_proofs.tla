------------------------ MODULE NodeRefinement_proofs ------------------------
(***************************************************************************)
(* Proof that PodpingNode implements PingService: its initial states are   *)
(* initial states of the service, and each of its steps is a step of the   *)
(* service or leaves the service's variables alone, whatever becomes of    *)
(* the clock.                                                              *)
(***************************************************************************)
EXTENDS NodeRefinement, NodeClock, PodpingNode_proofs

\* What the service sees of a node.
Seen == <<Stored, RowPings, handed, landed \cup refused>>

\* The invariant's part on the rows, before and after a step.
LEMMA InvOfRows ==
  /\ IInv => RowsType /\ RowsSound
  /\ IInv' => RowsType' /\ RowsSound'
<1>1. IInv => RowsType /\ RowsSound
  BY TypeOfRows, SoundRows DEF IInv
<1> QED BY <1>1, PTL

\* A step that keeps every row's ping, and the rows.
LEMMA SamePings ==
  ASSUME DOMAIN queue' = DOMAIN queue, RowsComeFrom({}, {}) \/ UNCHANGED queue
  PROVE  UNCHANGED RowPings
  BY DEF RowPings, Queued, RowsComeFrom

\* A mark touches no ping.
LEMMA MarkKeepsPings ==
  ASSUME RowsType, NEW u \in Urls, SetInflight(u)
  PROVE  UNCHANGED RowPings
<1>1. DOMAIN queue' = DOMAIN queue /\ RowsComeFrom({}, {u})
  BY SetInflightRows
<1>2. \A v \in DOMAIN queue : queue'[v].ping = queue[v].ping
  BY <1>1 DEF RowsComeFrom
<1> QED BY <1>1, <1>2 DEF RowPings, Queued

\* The row of a ping that was inserted, or that replaced another, holds it; the
\* other rows keep theirs.
LEMMA RowTakesPing ==
  ASSUME RowsType', RowsSound', NEW p \in Pings, RowsComeFrom({p}, {}),
         DOMAIN queue' = DOMAIN queue \cup {UrlOf[p]},
         queue'[UrlOf[p]].ping = p
  PROVE  RowPings' = [u \in DOMAIN RowPings \cup {UrlOf[p]} |->
                        IF u = UrlOf[p] THEN p ELSE RowPings[u]]
<1>1. \A u \in DOMAIN queue' : UrlOf[queue'[u].ping] = u
  BY DEF RowsSound
<1>2. \A u \in DOMAIN queue' : u # UrlOf[p] => queue'[u].ping = queue[u].ping
  BY <1>1 DEF RowsComeFrom
<1>3. DOMAIN RowPings = DOMAIN queue
  BY DEF RowPings, Queued
<1>4. \A u \in DOMAIN queue : RowPings[u] = queue[u].ping
  BY DEF RowPings, Queued
<1>5. RowPings' = [u \in DOMAIN queue' |-> queue'[u].ping]
  BY DEF RowPings, Queued
<1> QED BY <1>2, <1>3, <1>4, <1>5

\* A handler whose ping is not yet answered for.
LEMMA StoredBecomes ==
  ASSUME TypeOK, NEW p \in Pings, NEW how, stage[p] \notin {"inserted", "updated"},
         stage' = [stage EXCEPT ![p] = how]
  PROVE  /\ p \notin Stored
         /\ how \in {"inserted", "updated"} => Stored' = Stored \cup {p}
         /\ how \notin {"inserted", "updated"} => Stored' = Stored
<1>1. \A q \in Pings : stage'[q] = IF q = p THEN how ELSE stage[q]
  BY DEF TypeOK, HandlerTypeOK
<1> QED BY <1>1 DEF Stored

\* A step of a handler stores its ping, in its row or too late, or nothing.
LEMMA HandlerServes ==
  ASSUME IInv, IInv', NEW p \in Pings, HandlerStep(p)
  PROVE  Service!Next \/ UNCHANGED Seen
<1>1. /\ TypeOK /\ RowsType /\ RowsType' /\ RowsSound'
      /\ stamp[p] \in Ages
  BY InvOfRows DEF IInv, TypeOK, HandlerTypeOK
<1>2. UNCHANGED <<handed, landed, refused>>
  BY DEF HandlerStep, writerVars, checkerVars
<1>3. CASE Receive(p) \/ InsertRefused(p) \/ UpdateFails(p)
  <2>1. /\ UNCHANGED queue /\ stage[p] \notin {"inserted", "updated"}
        /\ \E how : /\ stage' = [stage EXCEPT ![p] = how]
                    /\ how \notin {"inserted", "updated"}
    BY <1>3 DEF Receive, InsertRefused, UpdateFails, Finish
  <2>2. UNCHANGED RowPings
    BY <2>1, SamePings
  <2> QED BY <1>1, <1>2, <2>1, <2>2, StoredBecomes DEF Seen
<1>4. CASE InsertPing(p)
  <2>1. /\ InsertRow(p, stamp[p]) /\ stage[p] = "insert"
        /\ stage' = [stage EXCEPT ![p] = "inserted"]
    BY <1>4 DEF InsertPing, Finish
  <2>2. p \notin Stored /\ Stored' = Stored \cup {p}
    BY <1>1, <2>1, StoredBecomes
  <2>3. /\ RowsComeFrom({p}, {})
        /\ DOMAIN queue' = DOMAIN queue \cup {UrlOf[p]}
        /\ UrlOf[p] \notin DOMAIN queue
    BY <1>1, <2>1, InsertRowRows DEF InsertRow
  <2>4. queue'[UrlOf[p]].ping = p
    BY <2>3 DEF RowsComeFrom
  <2>5. RowPings' = [u \in DOMAIN RowPings \cup {UrlOf[p]} |->
                       IF u = UrlOf[p] THEN p ELSE RowPings[u]]
    BY <1>1, <2>3, <2>4, RowTakesPing
  <2>6. UrlOf[p] \notin DOMAIN RowPings
    BY <2>3 DEF RowPings, Queued
  <2> QED BY <1>2, <2>2, <2>5, <2>6 DEF Service!Next, Service!Store
<1>5. CASE UpdatePing(p)
  <2>1. /\ UpdateRow(p, stamp[p]) /\ stage[p] = "update"
        /\ stage' = [stage EXCEPT ![p] = "updated"]
    BY <1>5 DEF UpdatePing, Finish
  <2>2. p \notin Stored /\ Stored' = Stored \cup {p}
    BY <1>1, <2>1, StoredBecomes
  <2>3. Service!Urgent(p)
    BY <2>1 DEF IInv, UpdatesAreUrgent, Service!Urgent
  <2>4. CASE UrlOf[p] \in DOMAIN queue
    <3>1. /\ RowsComeFrom({p}, {})
          /\ DOMAIN queue' = DOMAIN queue \cup {UrlOf[p]}
          /\ queue'[UrlOf[p]].ping = p
      BY <1>1, <2>1, <2>4, UpdateRowRows
    <3>2. RowPings' = [u \in DOMAIN RowPings \cup {UrlOf[p]} |->
                         IF u = UrlOf[p] THEN p ELSE RowPings[u]]
      BY <1>1, <3>1, RowTakesPing
    <3> QED BY <1>2, <2>2, <2>3, <3>2 DEF Service!Next, Service!Store
  <2>5. CASE UrlOf[p] \notin DOMAIN queue
    <3>1. UNCHANGED queue
      BY <2>1, <2>5 DEF UpdateRow
    <3>2. UNCHANGED RowPings /\ UrlOf[p] \notin DOMAIN RowPings
      BY <2>5, <3>1 DEF RowPings, Queued
    <3> QED BY <1>2, <2>2, <2>3, <3>2 DEF Service!Next, Service!StoreLate
  <2> QED BY <2>4, <2>5
<1> QED BY <1>3, <1>4, <1>5 DEF HandlerStep, Handle

\* A step of the queue checker sends a ping, withdraws a settled feed, or shows
\* the service nothing.
LEMMA CheckerServes ==
  ASSUME IInv, CheckerStep
  PROVE  Service!Next \/ UNCHANGED Seen
<1>1. TypeOK /\ RowsType /\ UNCHANGED Stored
  BY InvOfRows DEF IInv, CheckerStep, handlerVars, Stored
<1>2. CASE ReceiveNothing \/ ReceiveReply \/ Select \/ SendFails
  BY <1>1, <1>2 DEF ReceiveNothing, ReceiveReply, Select, SendFails, Seen,
                    RowPings, Queued, queueVars, writerVars
<1>3. ASSUME NEW u \in doomed, Delete(u) PROVE Service!Next \/ UNCHANGED Seen
  <2>1. UNCHANGED <<handed, landed, refused>>
    BY <1>3 DEF Delete, writerVars
  <2>2. CASE UNCHANGED queue
    BY <1>1, <2>1, <2>2 DEF Seen, RowPings, Queued
  <2>3. CASE DeleteRow(u)
    <3>1. /\ queue' = [v \in DOMAIN queue \ {u} |-> queue[v]]
          /\ DOMAIN queue' = DOMAIN queue \ {u}
      BY <2>3 DEF DeleteRow, Restrict
    <3>2. RowPings' = [v \in DOMAIN RowPings \ {u} |-> RowPings[v]]
      BY <3>1 DEF RowPings, Queued
    <3>3. CASE u \in DOMAIN queue
      <4>1. u \in DOMAIN RowPings
        BY <3>3 DEF RowPings, Queued
      <4>2. u \in {UrlOf[q] : q \in landed \cup refused}
        BY <1>3 DEF IInv, AnswerInv, Settled, UrlsOf
      <4>3. RowPings' = Service!Restrict(RowPings, DOMAIN RowPings \ {u})
        BY <3>2 DEF Service!Restrict
      <4>4. UNCHANGED <<Stored, handed, landed \cup refused>>
        BY <1>1, <2>1
      <4>5. Service!Withdraw(u)
        BY <4>2, <4>3, <4>4 DEF Service!Withdraw
      <4> QED BY <4>1, <4>5 DEF Service!Next
    <3>4. CASE u \notin DOMAIN queue
      BY <1>1, <2>1, <3>1, <3>4 DEF Seen, RowPings, Queued
    <3> QED BY <3>3, <3>4
  <2> QED BY <1>3, <2>2, <2>3 DEF Delete
<1>4. ASSUME NEW item \in batch, Send(item) PROVE Service!Next
  <2>1. item.ping \in Stored /\ item.ping \in Pings
    BY ItemType DEF IInv, TravelInv
  <2>2. /\ UNCHANGED <<queue, landed, refused>>
        /\ handed' = handed \cup {item.ping}
    BY <1>4 DEF Send, queueVars
  <2>3. UNCHANGED RowPings
    BY <2>2 DEF RowPings, Queued
  <2> QED BY <1>1, <2>1, <2>2, <2>3 DEF Service!Next, Service!Send
<1>5. ASSUME NEW item \in batch, Mark(item) PROVE UNCHANGED Seen
  <2>1. UNCHANGED RowPings
    <3>1. CASE SetInflight(UrlOf[item.ping])
      BY <1>1, <3>1, ItemType, MarkKeepsPings
    <3>2. CASE UNCHANGED queue
      BY <3>2 DEF RowPings, Queued
    <3> QED BY <1>5, <3>1, <3>2 DEF Mark
  <2> QED BY <1>1, <1>5, <2>1 DEF Mark, writerVars, Seen
<1>6. CASE Reset
  <2>1. UNCHANGED RowPings
    BY <1>1, <1>6, ResetRowsRows, SamePings DEF Reset, RowPings, Queued
  <2> QED BY <1>1, <1>6, <2>1 DEF Reset, writerVars, Seen
<1> QED BY <1>2, <1>3, <1>4, <1>5, <1>6 DEF CheckerStep, CheckerNext

\* The writer settles pings that were sent, or shows the service nothing.
LEMMA WriterServes ==
  ASSUME IInv, WriterStep \/ WriterFault
  PROVE  Service!Next \/ UNCHANGED Seen
<1>1. UNCHANGED <<queue, stage, handed>>
  BY DEF WriterStep, WriterFault, queueVars, handlerVars, checkerVars
<1>2. UNCHANGED Stored /\ UNCHANGED RowPings
  BY <1>1 DEF Stored, RowPings, Queued
<1>3. ASSUME NEW S \in SUBSET held,
             landed' \cup refused' = (landed \cup refused) \cup S
      PROVE  Service!Next
  <2>1. S \in SUBSET handed
    BY DEF IInv, TravelInv
  <2> QED BY <1>1, <1>2, <1>3, <2>1 DEF Service!Next, Service!Settle
<1>4. ASSUME NEW S \in SUBSET held, WriteToHive(S) PROVE Service!Next
  BY <1>3, <1>4 DEF WriteToHive
<1>5. ASSUME NEW p \in held, RefusePing(p) PROVE Service!Next
  <2>1. {p} \in SUBSET held
    OBVIOUS
  <2> QED BY <1>3, <1>5, <2>1 DEF RefusePing
<1>6. ASSUME UNCHANGED <<landed, refused>> PROVE UNCHANGED Seen
  BY <1>1, <1>2, <1>6 DEF Seen
<1>7. \/ TakePing \/ WriterRestart \/ \E S \in SUBSET held : MissBlock(S)
      => UNCHANGED <<landed, refused>>
  BY DEF TakePing, WriterRestart, MissBlock
<1> QED BY <1>4, <1>5, <1>6, <1>7 DEF WriterStep, WriterFault

\* An exit of the process, and a second's passing, show the service nothing.
LEMMA ExitServes ==
  ASSUME IInv, NEW panicking, Exit(panicking),
         \A p \in Pings \cap panicking : stage[p] = "new"
  PROVE  UNCHANGED Seen
<1>1. UNCHANGED <<queue, handed, landed, refused>>
  BY DEF Exit, CheckerExits
<1>2. UNCHANGED Stored
  BY DEF Exit, HandlersExit, InProgress, Stored
<1> QED BY <1>1, <1>2 DEF Seen, RowPings, Queued

LEMMA TickServes ==
  ASSUME IInv, Tick
  PROVE  UNCHANGED Seen
<1>1. UNCHANGED RowPings
  BY InvOfRows, AgeRowsRows, SamePings DEF Tick
<1> QED BY <1>1 DEF Tick, writerVars, checkerVars, Seen, Stored

\* Every step of a node is a step of the service, or shows it nothing.
LEMMA StepServes ==
  ASSUME IInv, IInv', [Next]_vars
  PROVE  Service!Next \/ UNCHANGED Seen
<1>1. ASSUME NEW p \in Pings, PanickingRequest(p) PROVE UNCHANGED Seen
  BY <1>1, ExitServes DEF PanickingRequest
<1>2. CASE Crash
  BY <1>2, ExitServes DEF Crash
<1>3. CASE UNCHANGED vars
  BY <1>3 DEF vars, queueVars, handlerVars, writerVars, checkerVars, Seen,
              Stored, RowPings, Queued
<1> QED BY <1>1, <1>2, <1>3, HandlerServes, CheckerServes, WriterServes,
           TickServes DEF Next

LEMMA InitServes == Init => Service!Init
  BY DEF Init, QueueInit, HandlerInit, WriterInit, CheckerInit, Stored, RowPings,
         Queued, Service!Init

\* A node implements the service: whatever crashes, fails, is lost or comes out
\* of turn, its steps are the service's.
THEOREM NodeServes == Spec => ServesPings
<1>1. IInv /\ IInv' /\ [Next]_vars => [Service!Next]_(Service!serviceVars)
  BY StepServes DEF Seen, Service!serviceVars
<1> QED BY <1>1, InitServes, Inductive, PTL DEF Spec, ServesPings, Service!Spec

-----------------------------------------------------------------------------
(* The clock.                                                              *)

\* Setting the clock changes ages and timestamps, and is a fault.
LEMMA ClockParts ==
  ASSUME TypeOK, ClockIsSet
  PROVE  /\ TypeOK'
         /\ RowsWellFormed => RowsWellFormed'
         /\ DOMAIN queue' = DOMAIN queue /\ RowsComeFrom({}, {})
         /\ faults' # 0
<1>1. /\ RowsType /\ QueueTypeOK /\ HandlerTypeOK /\ faults \in Nat
      /\ UNCHANGED <<stage, writerVars, checkerVars>>
  BY TypeOfRows DEF TypeOK, QueueTypeOK, ClockIsSet
<1>2. PICK age \in [DOMAIN queue -> Ages] :
        queue' = [u \in DOMAIN queue |-> [queue[u] EXCEPT !.age = age[u]]]
  BY DEF ClockIsSet
<1>3. ASSUME NEW u \in DOMAIN queue
      PROVE  /\ queue'[u] \in Row
             /\ queue'[u].ping = queue[u].ping
             /\ queue'[u].rowid = queue[u].rowid
             /\ queue'[u].inflight => queue[u].inflight
  <2>1. queue[u] \in Row /\ age[u] \in Ages
    BY <1>1, <1>2 DEF RowsType
  <2>2. queue'[u] = [queue[u] EXCEPT !.age = age[u]]
    BY <1>2
  <2> QED BY <2>1, <2>2 DEF Row
<1>4. /\ DOMAIN queue' = DOMAIN queue /\ queue' \in [DOMAIN queue -> Row]
      /\ RowsType' /\ (RowsSound => RowsSound') /\ RowsComeFrom({}, {})
  <2>1. DOMAIN queue' = DOMAIN queue /\ queue' \in [DOMAIN queue -> Row]
    BY <1>2, <1>3
  <2> QED BY <1>1, <1>3, <2>1, RowsInPlace
<1>5. HandlerTypeOK'
  <2>1. PICK now \in [{p \in Pings : stage[p] \in InProgress} -> Ages] :
          stamp' = [p \in Pings |-> IF p \in DOMAIN now THEN now[p] ELSE stamp[p]]
    BY DEF ClockIsSet
  <2>2. stamp' \in [Pings -> Ages]
    BY <1>1, <2>1 DEF HandlerTypeOK
  <2> QED BY <1>1, <2>2 DEF HandlerTypeOK
<1>6. QueueTypeOK'
  BY <1>1, <1>4, QueueTypeStep DEF ClockIsSet
<1>7. TypeOK'
  BY <1>1, <1>5, <1>6, TypeUnchanged DEF TypeOK
<1>8. faults' # 0
  BY <1>1, SMT DEF ClockIsSet, Fault
<1>9. RowsWellFormed => RowsWellFormed'
  BY <1>4 DEF RowsSound, RowsWellFormed, Queued
<1> QED BY <1>4, <1>7, <1>8, <1>9

\* It disturbs nothing the table, the batch, the connection and the writer have
\* to do with each other.
LEMMA ClockKeeps ==
  ASSUME IInv, ClockIsSet
  PROVE  IInv' /\ UNCHANGED Seen
<1>1. /\ TypeOK' /\ RowsWellFormed' /\ faults' # 0
      /\ Queued' = Queued /\ RowsComeFrom({}, {})
      /\ UNCHANGED <<stage, writerVars, checkerVars>>
  BY ClockParts DEF IInv, Queued, ClockIsSet
<1>2. /\ Stored' = Stored /\ Settled' = Settled
      /\ UNCHANGED <<pipe, held, replies, landed, refused, pc, batch, doomed, handed>>
  BY <1>1 DEF writerVars, checkerVars, Stored, Settled, UrlsOf
<1>3. \A u \in Queued' : /\ u \in Queued /\ queue'[u].ping = queue[u].ping
                         /\ queue'[u].inflight => queue[u].inflight
  BY <1>1 DEF RowsComeFrom, Queued
<1>4. TravelInv'
  BY <1>1, <1>2, <1>3 DEF IInv, TravelInv
<1>5. AnswerInv'
  BY <1>2 DEF IInv, AnswerInv, HonestReply
<1>6. WithdrawnOnlyIfSettled' /\ UpdatesAreUrgent'
  BY <1>1, <1>2 DEF IInv, WithdrawnOnlyIfSettled, UpdatesAreUrgent
<1>7. MarkInv'
  BY <1>2 DEF IInv, MarkInv, IsNext
<1>8. InflightUrlWasSent'
  BY <1>1, <1>2, <1>3 DEF IInv, InflightUrlWasSent, UrlsOf
<1>9. RefusedIsKept' /\ AdmittedInv'
  BY <1>1 DEF IInv, RefusedIsKept, AdmittedInv
<1>10. UNCHANGED RowPings
  BY <1>1, SamePings DEF Queued
<1> QED BY <1>1, <1>2, <1>4, <1>5, <1>6, <1>7, <1>8, <1>9, <1>10 DEF IInv, Seen

\* Though the clock be set under the rows, as often as it is, a node serves pings
\* as PingService says and withdraws no unsettled url.
THEOREM ClockIsHarmless == ClockSpec => ServesPings /\ []WithdrawnOnlyIfSettled
<1>1. IInv /\ [Next]_vars => IInv'
  BY StepInv
<1>2. IInv /\ [Next \/ ClockIsSet]_vars => IInv'
  BY <1>1, ClockKeeps
<1>3. IInv /\ IInv' /\ [Next \/ ClockIsSet]_vars
        => [Service!Next]_(Service!serviceVars)
  BY StepServes, ClockKeeps DEF Seen, Service!serviceVars
<1>4. IInv => WithdrawnOnlyIfSettled
  BY DEF IInv
<1> QED BY <1>2, <1>3, <1>4, InitInv, InitServes, PTL
        DEF ClockSpec, ServesPings, Service!Spec
=============================================================================
