------------------------------ MODULE DualWrite ------------------------------
(***************************************************************************)
(* The node with GOSSIP_WRITER_ENABLED set.  The queue checker has a       *)
(* second PAIR socket: it offers each ping to the gossip-writer before it  *)
(* sends it to the hive-writer, and after every receive_messages it drains *)
(* what the gossip-writer answered.  The gossip-writer is not in this      *)
(* repository; it may be slow, absent, restart, and lose what it has; it   *)
(* answers a message at most once.                                         *)
(***************************************************************************)
EXTENDS Startup

CONSTANT GossipHwm    \* the high-water mark of the gossip socket (10000)

ASSUME GossipHwmAssumption == GossipHwm \in Nat \ {0}

VARIABLES
  turn,         \* what the queue checker is about: hive, gossip or drain
  gpipe,        \* the pings on their way to the gossip-writer
  acks          \* its answers that have not been drained

gossipVars == <<turn, gpipe, acks>>

dualVars == <<startupVars, gossipVars>>

DualTypeOK ==
  /\ TypeOK /\ LifeTypeOK
  /\ turn \in {"hive", "gossip", "drain"}
  /\ gpipe \in Seq(Pings) /\ Len(gpipe) <= GossipHwm
  /\ acks \in Seq(Urls) /\ Len(acks) <= GossipHwm

DualInit ==
  /\ StartupInit
  /\ turn = "hive"
  /\ gpipe = <<>>
  /\ acks = <<>>

-----------------------------------------------------------------------------
Receiving == pc \in {"receive", "delete"}

\* What comes before the next step on the hive side: the gossip socket is
\* drained when receive_messages returns, and each ping is offered to it first.
HiveStep ==
  /\ turn = "hive"
  /\ RunningStep
  /\ turn' = IF Receiving /\ ~Receiving' THEN "drain"
             ELSE IF pc' = "send" THEN "gossip" ELSE "hive"
  /\ UNCHANGED <<gpipe, acks>>

\* (mutant) The send waits for room in the pipe.
OfferPingWaiting(item) ==
  /\ turn = "gossip" /\ thread = "running"
  /\ IsNext(item, batch)
  /\ Len(gpipe) < GossipHwm
  /\ gpipe' = Append(gpipe, item.ping)
  /\ turn' = "hive"
  /\ UNCHANGED <<startupVars, acks>>

\* (mutant) The pipe takes any number of messages.
OfferPingAlways(item) ==
  /\ turn = "gossip" /\ thread = "running"
  /\ IsNext(item, batch)
  /\ gpipe' = Append(gpipe, item.ping)
  /\ turn' = "hive"
  /\ UNCHANGED <<startupVars, acks>>

\* gsock.send with DONTWAIT; without room in the pipe it fails, which is logged.
OfferPing(item) ==
  /\ turn = "gossip" /\ thread = "running"
  /\ IsNext(item, batch)
  /\ gpipe' = IF Len(gpipe) < GossipHwm THEN Append(gpipe, item.ping) ELSE gpipe
  /\ turn' = "hive"
  /\ UNCHANGED <<startupVars, acks>>

\* (mutant) An answer of the gossip-writer counts like one of the hive-writer.
DrainAckDeleting ==
  /\ turn = "drain" /\ thread = "running"
  /\ acks # <<>>
  /\ acks' = Tail(acks)
  /\ DeleteRow(Head(acks))
  /\ UNCHANGED <<faults, handlerVars, writerVars, checkerVars, lifeVars>>
  /\ UNCHANGED <<turn, gpipe>>

\* drain_gossip_messages: one answer after the other, until there is none.
DrainAck ==
  /\ turn = "drain" /\ thread = "running"
  /\ acks # <<>>
  /\ acks' = Tail(acks)
  /\ UNCHANGED <<startupVars, turn, gpipe>>

DrainEnds ==
  /\ turn = "drain" /\ thread = "running"
  /\ acks = <<>>
  /\ turn' = IF pc = "send" THEN "gossip" ELSE "hive"
  /\ UNCHANGED <<startupVars, gpipe, acks>>

ThreadStep ==
  \/ HiveStep
  \/ \E item \in batch : OfferPing(item)
  \/ DrainAck
  \/ DrainEnds

\* The gossip-writer takes a message and answers it, or does not.
GossipTake ==
  /\ gpipe # <<>>
  /\ gpipe' = Tail(gpipe)
  /\ \/ Len(acks) < GossipHwm /\ acks' = Append(acks, UrlOf[Head(gpipe)])
     \/ UNCHANGED acks
  /\ UNCHANGED <<startupVars, turn>>

\* It restarts: what was in its half of the connection is gone.
GossipRestart ==
  /\ \E i \in 0 .. Len(gpipe) : gpipe' = SubSeq(gpipe, i + 1, Len(gpipe))
  /\ \E j \in 0 .. Len(acks) : acks' = SubSeq(acks, 1, j)
  /\ UNCHANGED <<startupVars, turn>>

\* The node's end closes, with no linger.
GossipCloses ==
  /\ turn' = "hive"
  /\ \E i \in 0 .. Len(gpipe) : gpipe' = SubSeq(gpipe, 1, i)
  /\ acks' = <<>>

DualNext ==
  \/ (BootStep \/ OtherStep) /\ UNCHANGED gossipVars
  \/ ThreadStep
  \/ GossipTake \/ GossipRestart
  \/ (ThreadDies \/ ProcessCrashes \/ RequestPanics) /\ GossipCloses

DualSpec == DualInit /\ [][DualNext]_dualVars

\* main comes to its end and the thread goes on; of the gossip-writer, and of
\* everyone else, nothing is asked.
DualFairSpec ==
  /\ DualSpec
  /\ WF_dualVars(BootStep /\ UNCHANGED gossipVars)
  /\ WF_dualVars(ThreadStep)

-----------------------------------------------------------------------------
\* README, "if the gossip-writer is slow, down, or absent, Hive writes are
\* completely unaffected": seen without the gossip socket the node takes the
\* steps of PodpingNode and no others, and its queue checker goes on taking
\* them, whatever the gossip-writer does, unless its thread has died for good.
HiveUnaffected ==
  /\ Spec
  /\ []<>(thread # "dead") => WF_vars(CheckerStep)
=============================================================================
