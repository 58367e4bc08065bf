------------------------------ MODULE PingQueue ------------------------------
(***************************************************************************)
(* The `queue' table of queue.db and the statements dbif runs against it.  *)
(* SQLite runs each statement as one transaction on a fresh connection, so *)
(* a statement is one action; callers interleave between statements.       *)
(*                                                                         *)
(* A row's url, reason and medium are those of the ping that last wrote    *)
(* it, so the row holds the ping itself.  `createdon' appears as the age   *)
(* of the row, now - createdon, which saturates just above RetryAge, the   *)
(* larger of the two ages the statements compare it with.                  *)
(*                                                                         *)
(* A definition marked (mutant) is a plausible bug in the one after it; no *)
(* definition but a mutated one uses it.  So in the other modules.         *)
(***************************************************************************)
EXTENDS Integers, FiniteSetsExt, Functions

CONSTANTS
  Pings,        \* the pings publishers may send; each is sent at most once
  Urls,         \* the feed urls, the primary key of the table
  UrlOf,        \* UrlOf[p]: the url of ping p
  ReasonOf,     \* ReasonOf[p]: the reason of ping p
  SendDelay,    \* a row is selected when older than this (15 seconds)
  RetryAge,     \* an in-flight row is reset when older than this (180 s)
  BatchSize,    \* PING_BATCH_SIZE (1000)
  ResetLimit,   \* the LIMIT of the reset statement (25)
  MaxFaults     \* bound: how many faults the environment may inject

Reasons == {"Live", "LiveEnd", "Update"}

ASSUME PingAssumption ==
  /\ UrlOf \in [Pings -> Urls]
  /\ ReasonOf \in [Pings -> Reasons]
  /\ SendDelay \in Nat
  /\ RetryAge \in Nat
  /\ SendDelay < RetryAge
  /\ BatchSize \in Nat \ {0}
  /\ ResetLimit \in Nat \ {0}
  /\ MaxFaults \in Nat

VARIABLES
  queue,        \* the rows, by url
  faults        \* the faults injected so far: I/O errors, exits, restarts

queueVars == <<queue, faults>>

Ages == 0 .. RetryAge + 1

Row == [ping : Pings, age : Ages, inflight : BOOLEAN, rowid : Nat]

\* The table is finite: among any of its rows one has the largest rowid.
RowIdsBounded ==
  \A S \in (SUBSET DOMAIN queue) \ {{}} :
    \E u \in S : \A v \in S : queue[v].rowid <= queue[u].rowid

QueueTypeOK ==
  /\ DOMAIN queue \subseteq Urls
  /\ queue \in [DOMAIN queue -> Row]
  /\ RowIdsBounded
  /\ faults \in 0 .. MaxFaults

\* create_databases makes an empty table, or leaves the existing one alone.
QueueInit ==
  /\ queue = [u \in {} |-> 0]
  /\ faults = 0

-----------------------------------------------------------------------------
\* A statement fails (SQLITE_BUSY after five seconds, an I/O error), or an
\* environment fault of another kind happens.
Fault ==
  /\ faults < MaxFaults
  /\ faults' = faults + 1

NoFault == UNCHANGED faults

Older(age) == IF age > RetryAge THEN age ELSE age + 1

WithRow(u, row) ==
  [v \in DOMAIN queue \cup {u} |-> IF v = u THEN row ELSE queue[v]]

\* A second passes for every row.
AgeRows == queue' = [u \in DOMAIN queue |-> [queue[u] EXCEPT !.age = Older(@)]]

\* The table has no AUTOINCREMENT column: SQLite gives a new row the rowid
\* after the largest there is, which may be that of a deleted row.
RowIds == {queue[u].rowid : u \in DOMAIN queue}

NextRowId == 1 + Max({0} \cup RowIds)

\* The INSERT of add_ping_to_queue, when no row has the url.
InsertRow(p, age) ==
  /\ UrlOf[p] \notin DOMAIN queue
  /\ queue' = WithRow(UrlOf[p],
       [ping |-> p, age |-> age, inflight |-> FALSE, rowid |-> NextRowId])

\* (mutant) The update resets the flag and forgets the new reason and medium.
UpdateRowFlagOnly(p, age) ==
  queue' = [u \in DOMAIN queue |->
              IF u = UrlOf[p] THEN [queue[u] EXCEPT !.inflight = FALSE, !.age = age]
                              ELSE queue[u]]

\* (mutant) The UPDATE has no WHERE clause.
UpdateEveryRow(p, age) ==
  queue' = [u \in DOMAIN queue |->
              [queue[u] EXCEPT !.ping = p, !.age = age, !.inflight = FALSE]]

\* update_ping_in_queue: the row keeps its rowid; no row, no change.
UpdateRow(p, age) ==
  queue' =
    IF UrlOf[p] \in DOMAIN queue
    THEN WithRow(UrlOf[p], [ping |-> p, age |-> age, inflight |-> FALSE,
                            rowid |-> queue[UrlOf[p]].rowid])
    ELSE queue

\* set_ping_as_inflight: by url, whichever ping the row now holds.
SetInflight(u) ==
  queue' = IF u \in DOMAIN queue
           THEN [queue EXCEPT ![u].inflight = TRUE] ELSE queue

\* delete_ping_from_queue: by url, whichever ping the row now holds.
DeleteRow(u) == queue' = Restrict(queue, DOMAIN queue \ {u})

\* reset_pings_in_flight: some ResetLimit of the stale rows, in no stated order.
Stale == {u \in DOMAIN queue : queue[u].inflight /\ queue[u].age > RetryAge}

\* (mutant) The reset leaves createdon alone.
ResetRowsStillOld ==
  \E S \in kSubset(Min({ResetLimit, Cardinality(Stale)}), Stale) :
    queue' = [u \in DOMAIN queue |->
                IF u \in S THEN [queue[u] EXCEPT !.inflight = FALSE]
                           ELSE queue[u]]

\* (mutant) No row is ever stale.
ResetRowsNone == UNCHANGED queue

ResetRows ==
  \E S \in kSubset(Min({ResetLimit, Cardinality(Stale)}), Stale) :
    queue' = [u \in DOMAIN queue |->
                IF u \in S
                THEN [queue[u] EXCEPT !.inflight = FALSE, !.age = 0]
                ELSE queue[u]]

-----------------------------------------------------------------------------
(***************************************************************************)
(* get_pings_from_queue(FALSE).  The result is the set of the selected     *)
(* rows' pings with their rowids; Before is the ORDER BY, the reason's     *)
(* text first ("Live" < "LiveEnd" < "Update") and then the rowid.          *)
(***************************************************************************)
Rank(p) == CASE ReasonOf[p] = "Live"    -> 1
             [] ReasonOf[p] = "LiveEnd" -> 2
             [] ReasonOf[p] = "Update"  -> 3

\* (mutant) ORDER BY rowid ASC.
BeforeByRowid(a, b) == a.rowid < b.rowid

\* (mutant) ORDER BY reason ASC, rowid DESC.
BeforeNewestFirst(a, b) ==
  \/ Rank(a.ping) < Rank(b.ping)
  \/ Rank(a.ping) = Rank(b.ping) /\ a.rowid > b.rowid

Before(a, b) ==
  \/ Rank(a.ping) < Rank(b.ping)
  \/ Rank(a.ping) = Rank(b.ping) /\ a.rowid < b.rowid

Waiting == {u \in DOMAIN queue : ~queue[u].inflight /\ queue[u].age > SendDelay}

Item == [ping : Pings, rowid : Nat]

\* (mutant) The rows are limited before they are filtered.
SelectedUrlsLimitedFirst ==
  {u \in Waiting :
     Cardinality({v \in DOMAIN queue : Before(queue[v], queue[u])}) < BatchSize}

SelectedUrls ==
  {u \in Waiting :
     Cardinality({v \in Waiting : Before(queue[v], queue[u])}) < BatchSize}

Selected ==
  {[ping |-> queue[u].ping, rowid |-> queue[u].rowid] : u \in SelectedUrls}

\* The next of the selected pings, in the order of the statement.
IsNext(item, items) ==
  /\ item \in items
  /\ \A other \in items \ {item} : Before(item, other)
=============================================================================
