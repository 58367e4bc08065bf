# podping.cloud in TLA+

Models of a podping.cloud node, checked with TLC on small instances and proved
with TLAPS for every value of the constants.  Paths are relative to `src/`.

## 1. The system

A node is one process with two kinds of threads, one SQLite table and one or two
ZMQ connections.

| Component | Source | State | Operations | Talks to |
|---|---|---|---|---|
| queue database | `podping/dbif/src/lib.rs` | `queue` table: url (primary key), createdon, reason, medium, inflight | insert, update by url, mark, delete, reset, select a batch | called by handlers and checker, each statement on a connection of its own |
| authorization, publishers | `podping/dbif/src/lib.rs` 146-166, 327-384 | `auth.db`, read only | look-up of the whole token, then of its first 22 bytes, both by LIKE; list | called by handlers |
| router and server | `podping/src/router.rs`, `main.rs` 368-413, 510-521 | - | dispatch by method and path | handlers |
| handler `ping` | `podping/src/handler.rs` 18-210 | a timestamp and the ping being built | check the request, add it to the queue, answer 200 | auth.db, queue table |
| handler `publishers` | `podping/src/handler.rs` 212-260 | - | render the list | auth.db |
| queue checker | `podping/src/main.rs` 113-358, 417-501 | batch, `sent`, the hive socket | receive, delete, select, send, mark, replace the socket, reset | queue table, hive-writer |
| hive-writer and connection | not in this repository | messages under way, pings not yet answered | take, write to a block, refuse, restart | checker |
| gossip dual-write | `podping/src/main.rs` 147-177, 263-268, 503-508 | a second socket | send without blocking, drain and discard | gossip-writer |
| startup, panic hook | `podping/src/main.rs` 90-114, 360-393 | how far `main` has come | make databases, spawn thread, set hook, bind; any panic exits the process; docker restarts it | everything |
| plexo encoding, stresser, packaging | `podping/plexo-schemas`, `stresser`, `docker`, `.github` | - | - | - |

What makes it hard:

* Handlers and the checker share the table without a transaction that spans two
  statements.  `add_ping_to_queue` is an INSERT and, if that fails for a live
  ping, an UPDATE; the checker reads up to 1000 rows at once and works on them
  for as long as it takes to send them.
* Everything after the selection goes by url.  The mark, and the deletion a
  reply causes, hit whatever ping the row holds by then.
* Messages and replies are lost when the socket is replaced, when the writer
  restarts and when the process exits.  The only remedy is the reset of rows
  that have been in flight for too long, which runs in quiet passes only.
* The checker's thread talks to two writers in turn; a wait for one is a wait
  of the other.
* A panic anywhere ends the process, and a request can cause one; but not yet
  while the process is starting.
* Ages are differences of the wall clock, which may be set.

What makes each part correct: the **table** keeps one well-formed row per url
and gives batches a total order, live pings first; a **handler** stores exactly
the requests that pass its checks; the **checker** removes a url only on the
writer's word, marks only what was sent, does not send in a hot loop, does not
go back to an outdated ping, sends first what is urgent and then what came first,
and in the end gets everything out of the table; the **gossip socket** changes nothing of that; the
**process** loses nothing queued when it goes down, and does not serve without
its checker.

## 2. The modules

| Module | Models | Correspondence |
|---|---|---|
| `PingQueue` | the table and dbif's statements | `queue` maps a url to its row; a row holds the ping that last wrote it (url, reason, medium), its age (now - createdon), the flag, the rowid. One operator per statement: `InsertRow`, `UpdateRow`, `SetInflight`, `DeleteRow`, `ResetRows`, `Selected`. |
| `AuthLookup` | `check_auth`, `check_auth_hybrid`, `get_publishers` | `AuthVals` are the rows; `Like` is SQLite's LIKE with the token as its pattern. `AuthVerdict(token, auth)` is the two look-ups, `auth` whether auth.db is good, cannot be opened, has no table to prepare a statement on, or rows that cannot be read. |
| `RequestCheck` | router, the checks of `ping` before the queue, `publishers` | `Verdict(r, env)`: 404, home page, list, 401, 400, panic or store, the checks in the handlers' order. `env` is auth.db, whether home.html can be read and rendered, and whether the clock is past the epoch. |
| `PingHandler` | handlers, any number at once | `stage[p]`, `stamp[p]`; `Receive` reads the clock and runs the checks, `InsertPing` / `InsertRefused` / `UpdatePing` / `UpdateFails` are the statements of `add_ping_to_queue`. |
| `HiveWriter` | the writer and the connection (external) | `pipe` and `replies` are bounded FIFO queues; the writer takes messages and answers what it holds in any grouping and order; `SocketCloses` is what closing the node's end with no linger leaves. |
| `QueueChecker` | the hive side of the checker thread | `pc` walks through receive, delete, select, send, mark, receive, ..., reset. A pass's batch is the list read by one SELECT, in memory. |
| `PodpingNode` | the composition | adds seconds (`Tick`), exits and restarts (`Crash`, `PanickingRequest`), fairness, and most properties. |
| `Startup` | a node from the start of its process on | `boot` and `thread`: databases, spawn, hook, server in `main`'s order; before the hook a panic of the thread ends the thread only (`ThreadDies`). |
| `DualWrite` | `Startup` with the gossip socket | `turn` puts `OfferPing` before each send and the drain loop after each `receive_messages`; `gpipe` and `acks` are the two directions; the gossip-writer (external) may take, answer, ignore and restart. |
| `NodeClock` | `PodpingNode` with a clock that may be set | `ClockIsSet`: rows, and what handlers are about to store, take any age. |
| `Republish` | `NodeClock` with publishers that never stop | `Again`. |
| `PingService` | the abstract service | a feed is absent or waits with one ping; pings are stored, sent, settled; a feed stops waiting when one of its pings is settled. |
| `NodeRefinement` | `PodpingNode` as a `PingService` | the rows are the waiting feeds, in flight or not. |
| `NodeInvariant` | the inductive invariant `IInv` | |
| `NodeOrder` | what a pass takes from the table, and in which order | `PassBound`, `LeftOutOnlyByFullBatch`, the invariant `FifoInv`. |
| `OrderHistory` | `PodpingNode` with history variables | `prior` and `late`, what publishers can know of the order; `waited`, what waited when the pass began and is unsent; the invariant `HistoryInv`. |
| `RetryHistory` | `PodpingNode` with a history variable | `since`, how long ago a ping was sent and its sending recorded; the invariant `RetryInv`. |
| `NodeClaims` | what documents and comments say and the code does not keep | |
| `RequestGate` | `RequestCheck` on every request in every environment | |
| `*_proofs` | lemmas and proofs of the module they are named for | |
| `Instances`, `MC*` | small instances for TLC | |

`RequestCheck` extends `AuthLookup`; `PingHandler` extends `PingQueue` and
`RequestCheck`, `HiveWriter` extends `PingQueue`; `QueueChecker` extends
`HiveWriter`; `PodpingNode` extends `PingHandler` and `QueueChecker`; `Startup`,
`NodeClock`, `NodeInvariant`, `NodeRefinement` and `NodeClaims` extend
`PodpingNode`.  `DualWrite` extends `Startup`, `Republish` extends `NodeClock`,
`NodeOrder` extends `NodeInvariant`, and the history modules extend `NodeOrder`.

A definition marked `(mutant)` is a plausible bug in the definition that follows
it, used to make sure that a property can fail; no specification uses it.

Abstractions:

* **Time.**  Ages count seconds and saturate at `RetryAge + 1`: the code only
  compares an age with 15 and with 180.  A clock that is set gives rows any age
  (`ClockIsSet`, in `NodeClock`); a row from the future is taken for a new one,
  so that how long it is held back is left out.
* **Rowids.**  One more than the largest in the table, as SQLite chooses them
  for a table without AUTOINCREMENT: the rowid of a deleted row comes back.
* **Tokens** are sequences of five characters, what LIKE tells apart: a letter in
  two cases, another letter, `_` and `%`.  The 22 bytes of the hybrid look-up and
  SQLite's limit for patterns are constants.
* **auth.db**, home.html and the clock are in one state while a request is
  checked; another request may find them in another.
* **println!** is taken to succeed; in a process whose standard output is closed
  it would panic anywhere.
* **Statements** are atomic, as SQLite makes them.  One may fail (`Fault`); the
  caller's error branch then runs.  A failure that panics instead is a `Crash`.
* **Replies** carry urls.  A transaction's urls are deleted one statement each,
  in any order.
* **SQLite** is taken to be built with `UPDATE ... LIMIT`, as the Debian image
  the Dockerfile uses has it; which 25 stale rows are reset is left open, as the
  statement leaves it.
* **The hive socket** is connected all the time; a writer that is away is one
  that takes nothing, so that the send buffer fills and sends time out.
* **The gossip-writer** answers a message at most once, so that the drain loop
  has at most as many answers to read as pings were offered.

## 3. What TLC checks

| Run | Instance | Shows |
|---|---|---|
| `one_feed` | live and liveEnd of one feed, one fault | `WithdrawnOnlyIfSettled`; `SettledWasSent`; `NoStepBack` and its invariant `HistoryInv`; `ServesPings`, the refinement |
| `two_feeds` | a live ping, an update of another feed, batches of two, one fault | `IInv`, the invariant of the proofs, the types among it; `WithdrawnOnlyIfSettled` across exits; `RowsWellFormed`; `InflightUrlWasSent`; `UrgentFirst`; `FifoInv`, a batch in order while handlers insert rows, replies delete them, exits drop the batch and resets renew rows |
| `drain` | two updates, batches of one, no fault | `NoOvertaking` among equals; `PassBound` and `LeftOutOnlyByFullBatch`, with more rows waiting than a batch takes; `FeedADrains`, that is `Drained` of one of the two feeds, between which nothing differs but the names |
| `republish` | live pings for one feed without end, a request with a misspelt reason, one fault | `DrainsUnlessSetBack` |
| `retry` | an update and a live ping of one feed, two faults, SendDelay 1, RetryAge 2 | `NoHotResend` and its invariant `RetryInv`; `AnsweredIsKept` |
| `requests` | every request, three publishers, twelve tokens, every environment | `StoredIffAdmitted`, `ListedIsStored`, `PanicHasCause` |
| `gossip` | an update, a request whose token no row matches, two faults, the whole of `DualWrite` | `DualTypeOK`; `WithdrawnOnlyIfSettled` with a second source of answers; `OnlyAdmittedSent`; `HiveUnaffected` |

* `WithdrawnOnlyIfSettled`: an inserted url is in the table until the writer has
  written it to a block or refused it.  Breaks if, say, block number 0 counts, or
  if an answer of the gossip-writer is taken for one of the hive-writer.
* `AnsweredIsKept`: as long as nothing fails, the url of a ping answered 200 is in
  the table or settled.  That is so of an Update that was dropped because its feed
  was queued, and of a live ping whose row was deleted between its INSERT and its
  UPDATE; both are answered 200 although no row ever held them.  A failed statement
  breaks it (the handler logs the error and answers 200), hence `faults = 0`.
* `OnlyAdmittedSent`: whatever goes to the hive-writer came in a well-formed
  request for whose token a look-up in auth.db matched a row, whatever auth.db, the
  rows and the process went through in between.  Breaks if a look-up that cannot be
  made lets the request pass.
* `ServesPings`: every step of the node is a step of `PingService` or none.  It
  says more than the invariants: in what way a waiting ping may be replaced (by
  a live one, never by an Update), and that a feed whose row goes had a ping
  settled, however rows, batches, messages and restarts interleave.
* `NoStepBack`: when `q` came in after `p` of the same feed was answered and is
  stored, `p` is sent at most once more (from a batch read before), and never
  after `q` was sent.
* `UrgentFirst`: within a pass no ping is sent while a more urgent one that waited
  when the pass began is unsent, also if that one was inserted later.  It looks at
  the pings that waited and not at the batch: rows are replaced, deleted and
  reset during the pass, a send may time out, and neither the order of the SELECT,
  nor its LIMIT, nor what the loop does with a ping it could not send may let an
  update go first.  A SELECT that sorts by rowid alone breaks it.
* `NoOvertaking`: a ping is not sent while a row that was inserted earlier, is
  no younger and no less urgent, still waits for its first sending; from pass to
  pass, through retries and replaced sockets.
* `FifoInv`: whatever goes before a row of the batch is in the batch as well, or
  was sent.  Breaks if the pass goes on with the next ping when a send has timed
  out.
* `PassBound`: what a pass has sent and what it has yet to send fit in one batch.
  The pass works from the list it read, so that pings that come in meanwhile do
  not prolong it and keep it from the replies.
* `LeftOutOnlyByFullBatch`: the SELECT leaves a waiting row out only when its
  LIMIT is filled with rows that go before it; rows in flight, rows too young to
  be sent and less urgent rows take up none of it.  That is also all that a
  backlog of live pings can do to an update.
* `DrainsUnlessSetBack`: every queued url leaves the table, provided the socket
  is not replaced for ever and its row is not set back by live pings for ever.
  Both provisos are needed.  Without the first TLC finds a lasso in which the
  send buffer is full whenever the checker has something to send, the socket is
  replaced and everything in it lost, again and again; without the second, one in
  which a live ping renews `createdon` whenever the row is about to be old enough.
  The code really does not make progress then.
* `NoHotResend`: a ping whose sending was recorded, by a mark or because its row
  had gone, is not sent again within `SendDelay`, whatever fails, exits or is
  replaced.  Between a send and its mark nothing is recorded: a process that exits
  there, or a mark that fails, lets the next pass send the ping at once.
* `HiveUnaffected`: what README says of the gossip-writer.  With the gossip
  socket hidden the node takes the steps of `PodpingNode` only, and its checker
  goes on taking them although nothing is asked of the gossip-writer.
* `StoredIffAdmitted`: a ping is stored exactly when the request is well formed,
  auth.db could be read, the clock is past the epoch and a look-up matched a row.
  `ListedIsStored`: a publisher is served; the token of a row is found though it is
  taken for a pattern and however short it is.
* `PanicHasCause` lists what may end the process in the checks: a header that is
  not text, a clock before the epoch (`handler.rs` 24), a home.html that cannot be
  read or rendered (58), an auth.db whose rows cannot be read, a token beyond
  SQLite's limit for patterns, a token too short to be cut for the second look-up,
  and a misspelt reason or medium, which is parsed only after a look-up has matched.

A match is less than README's "Validates that the token exists in the `auth.db`"
(`README.md` 37).  The code compares with LIKE and passes the token as the pattern,
so that a token is found as well if it differs from a row's in case only, or if its
`_` and `%` cover what the row has there.  The properties say what the code does:
"a look-up matched a row" is all they mean by an admitted request, and none of
them shows that the publisher is the one the row names.  No run states README's
sentence as a claim.

Five runs find a claim violated; `PROJECT.json` quotes the lines.

| Run | Claim | What happens |
|---|---|---|
| `claim_added` | a ping answered 200 was saved | a reply deletes the row between the failed INSERT and the UPDATE of a liveEnd; the UPDATE matches no row and is Ok |
| `claim_deleted` | every ping received eventually lands on Hive | a liveEnd replaces the live ping after the batch was read; the live ping is sent, the row is marked, and the answer deletes the liveEnd unsent |
| `claim_error` | on an error another attempt is made | a write error deletes the url |
| `claim_retry` | attempts are 180 seconds apart | the age counts from the request: a row that is old when first sent is reset at once |
| `claim_hook` | a panic of the ZMQ thread exits the process | the thread is spawned before the hook is set; it panics, the server binds, and the node takes in pings that nobody sends |

**Bounds.**  `Pings`, two, each sent at most once but for those of `Repeated`;
`MaxFaults` 0, 1 or 2; `Hwm` 1 or 2; `GossipHwm` 1; `BatchSize` 1 or 2;
`ResetLimit` 1; `ResetBelow` 1 or 2; `SendDelay < RetryAge <= 2`; `HybridLength` 2
and `LikeLimit` 4, with tokens shorter and longer than each.  They keep the
relations that matter in the code: SendDelay below RetryAge, a pass can be too
busy to reset (`ResetBelow <= BatchSize`), the reset can be too small for all
stale rows, either send buffer can be full with a ping left in the batch.  Two
pings of one feed are enough for every race between a row and what was read of
it; two feeds for every question of order.  The proofs need none of these bounds.

**Fairness.**  `WF` of the checker thread (each of its calls has a timeout), `WF`
of time, and of the writer `SF`: it goes on taking messages, and does not leave a
ping it holds unwritten for ever although it may drop it in a restart.  Nothing
is asked of handlers: a handler that stops does not keep the table from draining.
`DualFairSpec` asks only that `main` comes to its end and that the thread, which
never blocks on the gossip socket (`DONTWAIT`), goes on; nothing of either writer.

Deadlock is checked everywhere but in `requests`, where a request is checked once
and that is all.  In the node a second can always pass.

## 4. What is proved

For all values of the constants that satisfy the named assumptions
(`PingAssumption`, `AuthAssumption`, `FormAssumption`, `HwmAssumption`,
`ResetBelowAssumption`, `GossipHwmAssumption`), any number of pings, feeds, faults and concurrent handlers:

| Module | Theorem | Statement |
|---|---|---|
| `PodpingNode_proofs` | `TypeCorrect` | `Spec => []TypeOK` |
| | `Inductive` | `Spec => []IInv` |
| | `NothingWithdrawnUnsettled` | `Spec => []WithdrawnOnlyIfSettled` |
| | `AnsweredAreKept` | `Spec => []AnsweredIsKept` |
| | `OnlyAdmittedGoOut` | `Spec => []OnlyAdmittedSent` |
| | `OnlyStoredIsSettled` | `Spec => []SettledWasSent` |
| | `OnlySentIsInFlight` | `Spec => []InflightUrlWasSent` |
| | `TableIsSound` | `Spec => []RowsWellFormed` |
| `NodeRefinement_proofs` | `NodeServes` | `Spec => ServesPings` |
| | `ClockIsHarmless` | `ClockSpec => ServesPings /\ []WithdrawnOnlyIfSettled` |
| `NodeOrder_proofs` | `BatchOrdered` | `Spec => []FifoInv` |
| | `PassIsBounded` | `Spec => []PassBound` |
| | `OnlyFullBatchesLeaveOut` | `Spec => LeftOutOnlyByFullBatch` |
| | `NobodyOvertakes` | `Spec => NoOvertaking` |
| `OrderHistory_proofs` | `HistoryIsKept` | `OSpec => []HistoryInv` |
| | `NeverStepsBack` | `OSpec => NoStepBack` |
| | `UrgentGoFirst` | `OSpec => UrgentFirst` |
| `RetryHistory_proofs` | `RetriesRest` | `RSpec => []RetryInv` |
| | `NobodyIsResentHot` | `RSpec => NoHotResend` |
| `RequestGate_proofs` | `StoredSound` | `GateSpec => []StoredIffAdmitted` |
| | `PanicExplained` | `GateSpec => []PanicHasCause` |
| `DualWrite_proofs` | `StartupIsANode` | `StartupSpec => Spec` |
| | `DualIsAStartup` | `DualSpec => StartupSpec` |
| | `DualTypeCorrect` | `DualSpec => []DualTypeOK` |
| | `GossipIsHarmless` | `DualSpec => Spec /\ ServesPings /\ []WithdrawnOnlyIfSettled /\ NoOvertaking` |

**The node.**  The argument follows a ping around the loop.  None of the
properties is inductive alone.  `WithdrawnOnlyIfSettled` needs `AnswerInv`: what
the checker is about to delete, and what the replies on their way will make it
delete, is settled, which holds because a reply that is not "unwritten" is
written in the step that settles its pings.  `SettledWasSent` needs `TravelInv`:
rows and batch items hold stored pings, the pipe holds sent ones.
`InflightUrlWasSent` needs `MarkInv`, that the item about to be marked was sent,
and that needs the next item to be unique, which follows from the order of the
SELECT being asymmetric (`NextIsUnique`).  `RowsWellFormed` needs `RowIdsBounded`,
without which there would be no largest rowid to count on from.

`AnsweredIsKept` needs what a handler knows between its two statements,
`RefusedIsKept`: the url was in the table when the INSERT failed, and a row goes
only with `AnswerInv`, for a settled url; so a ping that comes too late for its
row comes after a settlement.  `OnlyAdmittedSent` needs `AdmittedInv`, that every
handler past the checks was right to pass them (`StoredIsAdmitted`, about
`Verdict` in any environment), and `TravelInv` to take it from there to
the writer.

**The checks.**  `LookUpsDecide` says when the two look-ups let a token through and
when they panic, `OthersDecide` the same of the other checks; `StoreVerdict` and
`PanicVerdict` put them together in the order of the handler.  The proofs leave open
what LIKE matches: they hold of any `RowMatches`.

The lemmas of `PingQueue_proofs` say of every statement what it does to the rows:
their types, their soundness, and where a row's ping and flag come from
(`RowsComeFrom`).  `RowsStep` then reduces every step of the node to one of these
statements or none, so that each invariant is argued once per statement.

**The refinement.**  Each step maps to one of `PingService` or to none: an
insertion to `Store`, an update to `Store` or, when the row has gone, `StoreLate`,
a send to `Send`, a settlement to `Settle`, a deletion to `Withdraw`; marks,
resets, seconds, losses and exits to nothing.  `AnswerInv` makes the deletion a
`Withdraw`; `UpdatesAreUrgent` makes an update a live ping's.

**The clock.**  Setting the clock changes nothing but ages, and no conjunct of
`IInv` beyond the types looks at one (`ClockKeeps`); for `PingService` the step
is a stutter.  So no time, however wrong, makes the node lose a url.  The
properties of order and of retries are not claimed of a clock that is set:
`FifoInv` and `RetryInv` compare ages, and a row that is made older than its
elders overtakes them.

**A pass.**  `PassInv` says that the batch is empty and nothing sent until the
SELECT, and `SelectedUrlsFit` that a SELECT never returns more than its LIMIT;
after it, every send takes one item out of the batch, since a batch is finite and
has one next item.  Both bounds on a
selection count the rows ahead of a row: it is selected when they are fewer than
the LIMIT.  A table is finite and its order total, so the selection has a last
row (`LastRow`), with all others ahead of it, and the rows left out have a first
one (`FirstRow`), with nothing but the selection ahead of it; the one bounds the
selection from above and the other, for `LeftOutOnlyByFullBatch`, from below
(`NotSelectedIsLate`).

**The order.**  `FifoInv` says that whatever goes before a row of the batch is in
the batch as well, or was sent.  It holds of a selection because the rows that
wait are finitely many and closed under the order (`SelectedClosed`), and it
lasts because handlers can only insert rows that go later, or make a row younger,
and a second or a reset never makes a younger row older than an older one.

**The retries.**  A row whose ping was sent and recorded is in flight, or younger
than that sending, or about to be marked (`RowsRest`).  The reset takes the first
case to the second, since it makes the row young and puts it out of flight in one
statement; seconds keep the second, as both ages grow alike and saturate at the
same bound; a mark that fails, or an exit before it, is the one way out of the
third, and is then `Unrecorded`.  A batch, read from rows that were older than
`SendDelay`, inherits it (`BatchRested`).

**The histories.**  An outdated ping is in no row (`RowsUpToDate`: the newer one
has replaced it, or finds the row gone); it may be in a batch read before, as the
only item of its feed (`OneItemEach`), until the newer one is sent
(`BatchUpToDate`); and once it was sent late it is the item being marked, which
then leaves the batch (`LateIsLeaving`).

A ping that waited when the pass began is in the batch, unless it was left out for
others as urgent (`WaitedInBatch`).  The selection makes it so, because what it
leaves out comes after all it takes (`NotSelectedIsLate`).  From then on the batch
only loses its next item, and that to a mark, which follows the sending, or all of
its items at once (`PassGoesOn`); so the item is there until its ping is sent, and
what is sent before it is no less urgent.

**The gossip socket.**  Forgetting `turn`, `gpipe` and `acks` maps every step of
`DualWrite` to one of `Startup` or none; forgetting `boot` and `thread` maps
`Startup` to `PodpingNode`, where the death of the thread before the hook looks
like a crash, because there are no handlers before the server is bound
(`NoEarlyHandler`).  So all that is proved of `PodpingNode` holds of the whole.

TLC checked `IInv` (with `TypeOK`) and `FifoInv` as invariants in `two_feeds`,
`HistoryInv` in `one_feed` and `RetryInv` in `retry`, before they were proved.

Only model-checked: `FeedADrains`, `DrainsUnlessSetBack` and the fair half of
`HiveUnaffected`, which are liveness properties under fairness, and
`ListedIsStored`, which needs that a string is LIKE itself: an induction over the
string.  TLAPS reasons about neither.

## 5. Not modelled

* A steady supply of live pings for many feeds.  Full batches of them, or passes
  too busy to reset, can keep an update in the table for ever; an instance with
  several such feeds and fairness is out of TLC's reach.  `NoOvertaking` and
  `LeftOutOnlyByFullBatch` state the order behind it.
* What the reader of the chain makes of an Update that was dropped.  When the row
  of its feed is in flight, the writer may have written the earlier ping already,
  and nothing more is announced; `AnsweredIsKept` and `PingService` (an Update
  never replaces a waiting ping) state what the node does keep.  No document says
  that the later Update must be announced too, so it is not stated as a claim.
* The absolute clock: `n.as_secs() - loop_start`, which in a debug build panics
  when the clock is set back during a pass, is one of the exits of `Crash`; what
  setting the clock does to the rows is `ClockIsSet`.
* The drop of privileges after the server is bound, which changes what files the
  process may open: an auth.db it may not open is a closed one, and a
  queue.db it may not open a failed statement.
* The capnp encoding (generated code), the text of pages and logs, the stresser (a
  load generator), docker files and CI.  No state of the node changes there.

## 6. Plan

Done: the table and its statements, request checks and router, handlers, checker,
writer, node, histories, invariants; then the abstract service and its
refinement, the gossip socket, startup, publishers that never stop, the clock; and
the proofs of every safety invariant and action property of the passing runs.

What is left is of another kind: bounding how late an update can become under a
given load of live pings (a quantitative question), and proofs of safety for
`Republish`, whose publishers may send a ping again, so that what the invariants
say of a ping would have to be said of each of its requests.
