---------------------------- MODULE QueueChecker ----------------------------
(***************************************************************************)
(* The queue-checker thread of main.rs, without the gossip socket (the     *)
(* node with GOSSIP_WRITER_ENABLED unset).  A pass of its loop receives at *)
(* most one reply, selects a batch, and for each ping of the batch sends   *)
(* it, marks it in flight and receives at most one reply; it ends by       *)
(* resetting stale in-flight rows, unless it was busy.  Sleeping and       *)
(* logging change nothing the properties see.                              *)
(***************************************************************************)
EXTENDS HiveWriter

CONSTANT ResetBelow    \* a pass that sent this many resets nothing (25)

ASSUME ResetBelowAssumption == ResetBelow \in Nat \ {0}

VARIABLES
  pc,           \* the next step of the thread
  inBatch,      \* whether it is inside the loop over the batch
  batch,        \* the selected pings not yet dealt with, as they were read
  doomed,       \* the urls of a received reply still to be deleted
  sent,         \* how many pings this pass has sent
  handed        \* history: the pings handed to the hive socket

checkerVars == <<pc, inBatch, batch, doomed, sent, handed>>

Steps == {"receive", "delete", "select", "send", "mark", "reset"}

CheckerTypeOK ==
  /\ pc \in Steps
  /\ inBatch \in BOOLEAN
  /\ batch \subseteq Item
  /\ doomed \subseteq Urls
  /\ sent \in Nat
  /\ handed \subseteq Pings

CheckerInit ==
  /\ pc = "receive"
  /\ inBatch = FALSE
  /\ batch = {}
  /\ doomed = {}
  /\ sent = 0
  /\ handed = {}

CheckerExits ==
  /\ pc' = "receive"
  /\ inBatch' = FALSE
  /\ batch' = {}
  /\ doomed' = {}
  /\ sent' = 0
  /\ UNCHANGED handed

\* Where the thread goes when receive_messages returns.
AfterReceive ==
  IF ~inBatch THEN "select" ELSE IF batch = {} THEN "reset" ELSE "send"

-----------------------------------------------------------------------------
\* receive_messages: nothing there within ZMQ_RECV_TIMEOUT.
ReceiveNothing ==
  /\ pc = "receive"
  /\ replies = <<>>
  /\ pc' = AfterReceive
  /\ UNCHANGED <<queueVars, writerVars, inBatch, batch, doomed, sent, handed>>

\* (mutant) A transaction with block number 0 is taken for one in a block.
ReceiveReplyAnyBlock ==
  /\ pc = "receive"
  /\ replies # <<>>
  /\ replies' = Tail(replies)
  /\ doomed' = Head(replies).urls
  /\ pc' = IF doomed' = {} THEN AfterReceive ELSE "delete"
  /\ UNCHANGED <<queueVars, pipe, held, landed, refused>>
  /\ UNCHANGED <<inBatch, batch, sent, handed>>

\* receive_messages: one reply.  The url of a write error and the urls of a
\* transaction in a block are deleted, one statement each; a transaction
\* with block number 0 is ignored.
ReceiveReply ==
  /\ pc = "receive"
  /\ replies # <<>>
  /\ replies' = Tail(replies)
  /\ doomed' = IF Head(replies).kind = "unwritten" THEN {}
                                                   ELSE Head(replies).urls
  /\ pc' = IF doomed' = {} THEN AfterReceive ELSE "delete"
  /\ UNCHANGED <<queueVars, pipe, held, landed, refused>>
  /\ UNCHANGED <<inBatch, batch, sent, handed>>

\* delete_ping_from_queue; an error is logged and the url is left queued.
Delete(u) ==
  /\ pc = "delete"
  /\ u \in doomed
  /\ \/ DeleteRow(u) /\ NoFault
     \/ Fault /\ UNCHANGED queue
  /\ doomed' = doomed \ {u}
  /\ pc' = IF doomed' = {} THEN AfterReceive ELSE "delete"
  /\ UNCHANGED <<writerVars, inBatch, batch, sent, handed>>

\* get_pings_from_queue; on an error the pass sends nothing.
Select ==
  /\ pc = "select"
  /\ \/ batch' = Selected /\ NoFault
     \/ batch' = {} /\ Fault
  /\ pc' = IF batch' = {} THEN "reset" ELSE "send"
  /\ inBatch' = TRUE
  /\ UNCHANGED <<queue, writerVars, doomed, sent, handed>>

\* zmq_hive.send succeeds; the row may have changed since the selection.
Send(item) ==
  /\ pc = "send"
  /\ IsNext(item, batch)
  /\ Len(pipe) < Hwm
  /\ pipe' = Append(pipe, item.ping)
  /\ handed' = handed \cup {item.ping}
  /\ pc' = "mark"
  /\ UNCHANGED <<queueVars, held, replies, landed, refused>>
  /\ UNCHANGED <<inBatch, batch, doomed, sent>>

\* (mutant) The ping that could not be sent is marked all the same.
SendFailsMarking ==
  /\ pc = "send"
  /\ Len(pipe) >= Hwm
  /\ SocketCloses
  /\ pc' = "mark"
  /\ UNCHANGED <<queueVars, held, landed, refused, inBatch, doomed, sent>>
  /\ UNCHANGED <<handed, batch>>

\* (mutant) The break is forgotten: the pass goes on with the next ping.
SendFailsGoingOn ==
  /\ pc = "send"
  /\ Len(pipe) >= Hwm
  /\ SocketCloses
  /\ \E item \in batch : IsNext(item, batch) /\ batch' = batch \ {item}
  /\ sent' = sent + 1
  /\ pc' = "receive"
  /\ UNCHANGED <<queueVars, held, landed, refused, inBatch, doomed, handed>>

\* zmq_hive.send times out: the socket is replaced and the rest of the batch
\* abandoned.
SendFails ==
  /\ pc = "send"
  /\ Len(pipe) >= Hwm
  /\ SocketCloses
  /\ batch' = {}
  /\ pc' = "reset"
  /\ UNCHANGED <<queueVars, held, landed, refused, inBatch, doomed, sent, handed>>

\* (mutant) What was sent is done with.
MarkDone(item) ==
  /\ pc = "mark"
  /\ IsNext(item, batch)
  /\ \/ DeleteRow(UrlOf[item.ping]) /\ NoFault
     \/ Fault /\ UNCHANGED queue
  /\ batch' = batch \ {item}
  /\ sent' = sent + 1
  /\ pc' = "receive"
  /\ UNCHANGED <<writerVars, inBatch, doomed, handed>>

\* set_ping_as_inflight, by url; an error is logged and the loop goes on.
Mark(item) ==
  /\ pc = "mark"
  /\ IsNext(item, batch)
  /\ \/ SetInflight(UrlOf[item.ping]) /\ NoFault
     \/ Fault /\ UNCHANGED queue
  /\ batch' = batch \ {item}
  /\ sent' = sent + 1
  /\ pc' = "receive"
  /\ UNCHANGED <<writerVars, inBatch, doomed, handed>>

\* (mutant) Only a busy pass resets.
ResetWhenBusy ==
  /\ pc = "reset"
  /\ \/ sent >= ResetBelow /\ ResetRows /\ NoFault
     \/ sent < ResetBelow /\ NoFault /\ UNCHANGED queue
  /\ pc' = "receive"
  /\ inBatch' = FALSE
  /\ sent' = 0
  /\ UNCHANGED <<writerVars, batch, doomed, handed>>

\* (mutant) The count of the pings sent goes on from pass to pass.
ResetCountingOn ==
  /\ pc = "reset"
  /\ \/ sent < ResetBelow /\ ResetRows /\ NoFault
     \/ sent < ResetBelow /\ Fault /\ UNCHANGED queue
     \/ sent >= ResetBelow /\ NoFault /\ UNCHANGED queue
  /\ pc' = "receive"
  /\ inBatch' = FALSE
  /\ UNCHANGED <<writerVars, batch, doomed, sent, handed>>

\* reset_pings_in_flight, only by a pass that was not busy; then the next pass.
Reset ==
  /\ pc = "reset"
  /\ \/ sent < ResetBelow /\ ResetRows /\ NoFault
     \/ sent < ResetBelow /\ Fault /\ UNCHANGED queue
     \/ sent >= ResetBelow /\ NoFault /\ UNCHANGED queue
  /\ pc' = "receive"
  /\ inBatch' = FALSE
  /\ sent' = 0
  /\ UNCHANGED <<writerVars, batch, doomed, handed>>

CheckerNext ==
  \/ ReceiveNothing
  \/ ReceiveReply
  \/ \E u \in doomed : Delete(u)
  \/ Select
  \/ \E item \in batch : Send(item) \/ Mark(item)
  \/ SendFails
  \/ Reset
=============================================================================
