------------------------------ MODULE NodeOrder ------------------------------
(***************************************************************************)
(* What a pass of the queue checker takes from the table, and why it works *)
(* it off in order: what NoOvertaking of PodpingNode needs beyond IInv.    *)
(***************************************************************************)
EXTENDS NodeInvariant

\* The item the selection makes of the row of u.
ItemOf(u) == [ping |-> queue[u].ping, rowid |-> queue[u].rowid]

\* A pass sends no more than PING_BATCH_SIZE pings, however the table grows while
\* it is at it: what it has sent and what it still has to send fit in one batch.
PassBound ==
  /\ IsFiniteSet(batch)
  /\ sent + Cardinality(batch) <= BatchSize

\* A waiting row is left out of a pass only by a full batch of rows before it:
\* neither rows in flight nor rows too young to be sent take up its LIMIT.
LeftOutOnlyByFullBatch ==
  [][pc = "select" /\ pc' \in {"send", "reset"} /\ NoFault =>
       \A u \in Waiting :
         \/ ItemOf(u) \in batch'
         \/ /\ Cardinality(batch') = BatchSize
            /\ \A item \in batch' : Before(item, ItemOf(u))]_vars

-----------------------------------------------------------------------------
(* The inductive invariant behind them and NoOvertaking.                   *)

\* A pass selects its batch before it has sent anything, and has dealt with it
\* when it comes to its reset.
PassInv ==
  /\ ~inBatch => sent = 0 /\ batch = {}
  /\ pc = "select" => ~inBatch
  /\ pc = "reset" => batch = {}

\* A batch has one item for a feed.
OneItemEach ==
  \A one, other \in batch : UrlOf[one.ping] = UrlOf[other.ping] => one = other

\* A row that holds the ping of an item is the row the item was read from.
ItemsMatchRows ==
  \A item \in batch, v \in Queued :
    queue[v].ping = item.ping => item.rowid = queue[v].rowid

\* Whatever goes before a row of the batch is in the batch too, or was sent.
BatchInOrder ==
  \A item \in batch, u, v \in Queued :
    queue[v].ping = item.ping /\ GoesFirst(u, v)
      => queue[u].ping \in handed \/ queue[u].inflight \/ ItemOf(u) \in batch

\* A batch holds whatever goes before any of its rows, for as long as the rows
\* are there, although handlers, replies and seconds change the table under it.
FifoInv ==
  /\ IsFiniteSet(Queued)
  /\ PassInv
  /\ PassBound
  /\ OneItemEach
  /\ ItemsMatchRows
  /\ BatchInOrder
=============================================================================
