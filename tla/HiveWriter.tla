----------------------------- MODULE HiveWriter -----------------------------
(***************************************************************************)
(* The hive-writer and the ZMQ PAIR connection to it, as the queue checker *)
(* sees them.  Neither is in this repository: the connection is two FIFO   *)
(* queues bounded by the high-water mark of the sockets, and the writer    *)
(* answers the messages it has taken in any grouping and any order.  A     *)
(* reply carries urls, never the reason or the time of the ping it answers.*)
(***************************************************************************)
EXTENDS PingQueue, Sequences

CONSTANT Hwm    \* the send high-water mark of the hive socket (1000)

ASSUME HwmAssumption == Hwm \in Nat \ {0}

VARIABLES
  pipe,         \* the messages sent and not yet taken by the writer
  held,         \* the pings the writer has taken and not yet answered
  replies,      \* the answers the queue checker has not yet received
  landed,       \* history: the pings written to a Hive block
  refused       \* history: the pings answered with a write error

writerVars == <<pipe, held, replies, landed, refused>>

\* written: PodpingHiveTransaction with a block number; unwritten: with block
\* number 0; error: PodpingWriteError with the PodpingWrite attached.
Reply == [kind : {"written", "unwritten", "error"}, urls : SUBSET Urls]

UrlsOf(S) == {UrlOf[p] : p \in S}

WriterTypeOK ==
  /\ pipe \in Seq(Pings)
  /\ held \subseteq Pings
  /\ replies \in Seq(Reply)
  /\ landed \subseteq Pings
  /\ refused \subseteq Pings

WriterInit ==
  /\ pipe = <<>>
  /\ held = {}
  /\ replies = <<>>
  /\ landed = {}
  /\ refused = {}

Answer(kind, S) ==
  /\ Len(replies) < Hwm
  /\ replies' = Append(replies, [kind |-> kind, urls |-> UrlsOf(S)])
  /\ held' = held \ S
  /\ UNCHANGED pipe

\* The node's end closes, with no linger.  The messages that had reached the
\* writer's half can still be taken; the others, and all replies, are gone.
SocketCloses ==
  /\ \E i \in 0 .. Len(pipe) : pipe' = SubSeq(pipe, 1, i)
  /\ replies' = <<>>

-----------------------------------------------------------------------------
TakePing ==
  /\ pipe # <<>>
  /\ held' = held \cup {Head(pipe)}
  /\ pipe' = Tail(pipe)
  /\ UNCHANGED <<replies, landed, refused>>

\* One transaction may carry several pings.
WriteToHive(S) ==
  /\ S \in (SUBSET held) \ {{}}
  /\ landed' = landed \cup S
  /\ Answer("written", S)
  /\ UNCHANGED refused

\* The transaction was broadcast but is in no block: a fault.
MissBlock(S) ==
  /\ S \in (SUBSET held) \ {{}}
  /\ Answer("unwritten", S)
  /\ UNCHANGED <<landed, refused>>

RefusePing(p) ==
  /\ p \in held
  /\ refused' = refused \cup {p}
  /\ Answer("error", {p})
  /\ UNCHANGED landed

\* The writer stops and comes back: it forgets what it held, and what was in
\* its half of the connection is gone, the first messages of the pipe and the
\* last of the replies.
WriterRestart ==
  /\ held' = {}
  /\ \E i \in 0 .. Len(pipe) : pipe' = SubSeq(pipe, i + 1, Len(pipe))
  /\ \E j \in 0 .. Len(replies) : replies' = SubSeq(replies, 1, j)
  /\ UNCHANGED <<landed, refused>>
=============================================================================
