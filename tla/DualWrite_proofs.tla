-------------------------- MODULE DualWrite_proofs --------------------------
(***************************************************************************)
(* Proofs that the node with its startup, and the node with the gossip     *)
(* socket, take no steps but those of PodpingNode, so that every safety    *)
(* property proved of it holds of them.                                    *)
(***************************************************************************)
EXTENDS DualWrite, NodeRefinement_proofs, NodeOrder_proofs

\* An exit of the process leaves no handler running and no timestamp.
LEMMA ExitClears ==
  ASSUME NEW panicking, Exit(panicking)
  PROVE  \A p \in Pings : stage'[p] \notin InProgress /\ stamp'[p] = 0
  BY DEF Exit, HandlersExit, InProgress

\* Nothing runs in a handler before the server is bound: a step keeps it so.
LEMMA StepEarly ==
  ASSUME NoEarlyHandler, [StartupNext]_startupVars
  PROVE  NoEarlyHandler'
<1>1. CASE UNCHANGED <<boot, handlerVars>>
  BY <1>1 DEF NoEarlyHandler, handlerVars
<1>2. CASE BootStep
  <2>1. boot # "serving" /\ UNCHANGED handlerVars
    BY <1>2 DEF BootStep, MakeDatabases, SpawnChecker, SetHook, BindServer, vars
  <2> QED BY <2>1 DEF NoEarlyHandler, handlerVars
<1>3. CASE OtherStep
  <2>1. CASE boot = "serving"
    BY <1>3, <2>1 DEF OtherStep, lifeVars, NoEarlyHandler
  <2>2. CASE Tick /\ boot # "serving"
    <3>1. \A p \in Pings : stage[p] \notin InProgress /\ stamp[p] = 0
      BY <2>2 DEF NoEarlyHandler
    <3>2. \A p \in Pings : stage'[p] = stage[p] /\ stamp'[p] = stamp[p]
      BY <2>2, <3>1 DEF Tick, AgeStamps
    <3> QED BY <3>1, <3>2 DEF NoEarlyHandler
  <2>3. WriterStep \/ WriterFault => UNCHANGED handlerVars
    BY DEF WriterStep, WriterFault
  <2> QED BY <1>1, <1>3, <2>1, <2>2, <2>3 DEF OtherStep, lifeVars
<1>4. ProcessCrashes \/ RequestPanics => NoEarlyHandler'
  BY ExitClears DEF ProcessCrashes, RequestPanics, Crash, PanickingRequest,
                    NoEarlyHandler
<1>5. \/ RunningStep \/ ThreadDies \/ UNCHANGED startupVars
      => UNCHANGED <<boot, handlerVars>>
  BY DEF RunningStep, CheckerStep, ThreadDies, startupVars, vars, lifeVars
<1> QED BY <1>1, <1>2, <1>3, <1>4, <1>5 DEF StartupNext

\* The thread's end before the hook is set is, to everyone else, a crash of a
\* process that has not begun to serve.
LEMMA EarlyDeathIsCrash ==
  ASSUME TypeOK, NoEarlyHandler, ThreadDies
  PROVE  Crash
<1>1. \A p \in Pings : stage[p] \notin InProgress /\ stamp[p] = 0
  BY DEF ThreadDies, NoEarlyHandler
<1>2. /\ stage = [p \in Pings |-> stage[p]]
      /\ stamp = [p \in Pings |-> stamp[p]]
  BY DEF TypeOK, HandlerTypeOK
<1>3. UNCHANGED <<stage, stamp>>
  BY DEF ThreadDies, handlerVars
<1>4. HandlersExit({})
  BY <1>1, <1>2, <1>3 DEF HandlersExit
<1> QED BY <1>4 DEF ThreadDies, Crash, Exit

\* The startup and the panic hook add nothing to what a node may do.
THEOREM StartupIsANode == StartupSpec => Spec
<1>1. StartupInit => Init /\ NoEarlyHandler /\ TypeOK
  BY InitType DEF StartupInit, Init, HandlerInit, NoEarlyHandler, InProgress
<1>2. TypeOK /\ NoEarlyHandler /\ [StartupNext]_startupVars => [Next]_vars
  <2> SUFFICES ASSUME TypeOK, NoEarlyHandler, [StartupNext]_startupVars
               PROVE  [Next]_vars
    OBVIOUS
  <2>1. BootStep \/ UNCHANGED startupVars => UNCHANGED vars
    BY DEF BootStep, startupVars
  <2>2. OtherStep \/ RunningStep \/ RequestPanics => Next
    BY DEF OtherStep, RunningStep, RequestPanics, Next
  <2>3. ThreadDies \/ ProcessCrashes => Next
    BY EarlyDeathIsCrash DEF ProcessCrashes, Next
  <2> QED BY <2>1, <2>2, <2>3 DEF StartupNext
<1>3. TypeOK /\ [Next]_vars => TypeOK'
  BY StepType
<1>4. NoEarlyHandler /\ [StartupNext]_startupVars => NoEarlyHandler'
  BY StepEarly
<1> QED BY <1>1, <1>2, <1>3, <1>4, PTL DEF StartupSpec, Spec

\* The gossip socket adds nothing to what a node with its startup may do.
THEOREM DualIsAStartup == DualSpec => StartupSpec
<1>1. DualInit => StartupInit
  BY DEF DualInit
<1>2. [DualNext]_dualVars => [StartupNext]_startupVars
  <2>1. /\ HiveStep => RunningStep
        /\ DrainAck \/ DrainEnds => UNCHANGED startupVars
        /\ \A item \in batch : OfferPing(item) => UNCHANGED startupVars
        /\ GossipTake \/ GossipRestart => UNCHANGED startupVars
        /\ UNCHANGED dualVars => UNCHANGED startupVars
    BY DEF HiveStep, DrainAck, DrainEnds, OfferPing, GossipTake, GossipRestart,
           dualVars
  <2> QED BY <2>1 DEF DualNext, ThreadStep, StartupNext
<1> QED BY <1>1, <1>2, PTL DEF DualSpec, StartupSpec

-----------------------------------------------------------------------------
(* The types.                                                              *)

\* What is left of a queue of the gossip connection is no longer than it was.
LEMMA FrontFits ==
  ASSUME NEW S, NEW s \in Seq(S), NEW n \in Nat, Len(s) <= n, NEW i \in 0 .. Len(s)
  PROVE  /\ SubSeq(s, 1, i) \in Seq(S)
         /\ Len(SubSeq(s, 1, i)) <= n
<1>1. Len(s) \in Nat /\ i \in Nat /\ i <= Len(s)
  BY LenProperties
<1>2. SubSeq(s, 1, i) \in Seq(S)
  BY SeqFront
<1>3. Len(SubSeq(s, 1, i)) = i
  BY <1>1
<1> QED BY <1>1, <1>2, <1>3

LEMMA RearFits ==
  ASSUME NEW S, NEW s \in Seq(S), NEW n \in Nat, Len(s) <= n, NEW i \in 0 .. Len(s)
  PROVE  /\ SubSeq(s, i + 1, Len(s)) \in Seq(S)
         /\ Len(SubSeq(s, i + 1, Len(s))) <= n
<1>1. Len(s) \in Nat /\ i \in Nat /\ i <= Len(s)
  BY LenProperties
<1>2. SubSeq(s, i + 1, Len(s)) \in Seq(S)
  BY SeqRear
<1>3. Len(SubSeq(s, i + 1, Len(s))) = Len(s) - i
  BY <1>1
<1> QED BY <1>1, <1>2, <1>3

\* A message more, where there is room for it, and one less.
LEMMA AppendFits ==
  ASSUME NEW S, NEW s \in Seq(S), NEW n \in Nat, Len(s) < n, NEW m \in S
  PROVE  Append(s, m) \in Seq(S) /\ Len(Append(s, m)) <= n
<1>1. Len(s) \in Nat
  BY LenProperties
<1>2. Append(s, m) \in Seq(S) /\ Len(Append(s, m)) = Len(s) + 1
  BY AppendProperties
<1> QED BY <1>1, <1>2

LEMMA TailFits ==
  ASSUME NEW S, NEW s \in Seq(S), NEW n \in Nat, Len(s) <= n, s # <<>>
  PROVE  Head(s) \in S /\ Tail(s) \in Seq(S) /\ Len(Tail(s)) <= n
<1>1. Len(s) \in Nat
  BY LenProperties
<1>2. Head(s) \in S /\ Tail(s) \in Seq(S) /\ Len(Tail(s)) = Len(s) - 1
  BY HeadTailProperties
<1> QED BY <1>1, <1>2

GossipTypeOK ==
  /\ turn \in {"hive", "gossip", "drain"}
  /\ gpipe \in Seq(Pings) /\ Len(gpipe) <= GossipHwm
  /\ acks \in Seq(Urls) /\ Len(acks) <= GossipHwm

\* A step keeps the types of what the gossip connection has.
LEMMA StepGossip ==
  ASSUME TypeOK, GossipTypeOK, [DualNext]_dualVars
  PROVE  GossipTypeOK'
<1>1. GossipHwm \in Nat
  BY GossipHwmAssumption
<1>2. CASE UNCHANGED <<gpipe, acks>> /\ turn' \in {"hive", "gossip", "drain"}
  BY <1>2 DEF GossipTypeOK
<1>3. ASSUME NEW item \in batch, OfferPing(item) PROVE GossipTypeOK'
  <2>1. item.ping \in Pings /\ turn' = "hive" /\ acks' = acks
    BY <1>3, ItemType DEF OfferPing, startupVars
  <2>2. gpipe' \in Seq(Pings) /\ Len(gpipe') <= GossipHwm
    BY <1>1, <1>3, <2>1, AppendFits DEF OfferPing, GossipTypeOK
  <2> QED BY <2>1, <2>2 DEF GossipTypeOK
<1>4. CASE DrainAck
  <2>1. /\ acks' \in Seq(Urls) /\ Len(acks') <= GossipHwm
        /\ UNCHANGED <<turn, gpipe>>
    BY <1>1, <1>4, TailFits DEF DrainAck, GossipTypeOK
  <2> QED BY <2>1 DEF GossipTypeOK
<1>5. CASE GossipTake
  <2>1. /\ Head(gpipe) \in Pings
        /\ gpipe' \in Seq(Pings) /\ Len(gpipe') <= GossipHwm
        /\ turn' = turn
    BY <1>1, <1>5, TailFits DEF GossipTake, GossipTypeOK
  <2>2. UrlOf[Head(gpipe)] \in Urls
    BY <2>1, PingAssumption
  <2>3. acks' \in Seq(Urls) /\ Len(acks') <= GossipHwm
    BY <1>1, <1>5, <2>2, AppendFits DEF GossipTake, GossipTypeOK
  <2> QED BY <2>1, <2>3 DEF GossipTypeOK
<1>6. CASE GossipRestart
  <2>1. gpipe' \in Seq(Pings) /\ Len(gpipe') <= GossipHwm
    BY <1>1, <1>6, RearFits DEF GossipRestart, GossipTypeOK
  <2>2. acks' \in Seq(Urls) /\ Len(acks') <= GossipHwm
    BY <1>1, <1>6, FrontFits DEF GossipRestart, GossipTypeOK
  <2> QED BY <1>6, <2>1, <2>2 DEF GossipRestart, GossipTypeOK
<1>7. CASE GossipCloses
  <2>1. gpipe' \in Seq(Pings) /\ Len(gpipe') <= GossipHwm
    BY <1>1, <1>7, FrontFits DEF GossipCloses, GossipTypeOK
  <2>2. acks' \in Seq(Urls) /\ Len(acks') <= GossipHwm
    BY <1>1, <1>7 DEF GossipCloses
  <2> QED BY <1>7, <2>1, <2>2 DEF GossipCloses, GossipTypeOK
<1>8. \/ HiveStep \/ DrainEnds
      \/ (BootStep \/ OtherStep) /\ UNCHANGED gossipVars
      \/ UNCHANGED dualVars
      => UNCHANGED <<gpipe, acks>> /\ turn' \in {"hive", "gossip", "drain"}
  BY DEF HiveStep, DrainEnds, gossipVars, dualVars, GossipTypeOK
<1> QED BY <1>2, <1>3, <1>4, <1>5, <1>6, <1>7, <1>8 DEF DualNext, ThreadStep

\* A step keeps the types of main and of the thread.
LEMMA StepLife ==
  ASSUME LifeTypeOK, [StartupNext]_startupVars
  PROVE  LifeTypeOK'
  BY DEF LifeTypeOK, StartupNext, BootStep, MakeDatabases, SpawnChecker, SetHook,
         BindServer, OtherStep, RunningStep, ThreadDies, ProcessCrashes,
         RequestPanics, ProcessEnds, startupVars, lifeVars

\* The node with both sockets, from its start on, has the types it should, and
\* neither direction of the gossip connection outgrows its high-water mark.
THEOREM DualTypeCorrect == DualSpec => []DualTypeOK
<1>1. DualInit => LifeTypeOK /\ GossipTypeOK
  <2> SUFFICES ASSUME DualInit PROVE LifeTypeOK /\ GossipTypeOK
    OBVIOUS
  <2>1. LifeTypeOK
    BY DEF DualInit, StartupInit, LifeTypeOK
  <2>2. GossipTypeOK
    BY GossipHwmAssumption DEF DualInit, GossipTypeOK
  <2> QED BY <2>1, <2>2
<1>2. LifeTypeOK /\ [StartupNext]_startupVars => LifeTypeOK'
  BY StepLife
<1>3. TypeOK /\ GossipTypeOK /\ [DualNext]_dualVars => GossipTypeOK'
  BY StepGossip
<1>4. DualSpec => Spec /\ StartupSpec
  BY DualIsAStartup, StartupIsANode
<1>5. TypeOK /\ LifeTypeOK /\ GossipTypeOK => DualTypeOK
  BY DEF DualTypeOK, GossipTypeOK
<1> QED BY <1>1, <1>2, <1>3, <1>4, <1>5, TypeCorrect, PTL
        DEF DualSpec, StartupSpec, DualInit

-----------------------------------------------------------------------------
(* What holds of a node holds of one with the gossip socket.               *)

\* Hive writes unaffected: whatever the gossip-writer does, a node with both
\* sockets serves pings as PingService says, withdraws no unsettled url and
\* sends what goes first.
THEOREM GossipIsHarmless ==
  DualSpec => Spec /\ ServesPings /\ []WithdrawnOnlyIfSettled /\ NoOvertaking
<1>1. DualSpec => Spec
  BY DualIsAStartup, StartupIsANode
<1> QED BY <1>1, NodeServes, NothingWithdrawnUnsettled, NobodyOvertakes
=============================================================================
