-------------------------- MODULE PingQueue_proofs --------------------------
(***************************************************************************)
(* What each statement of dbif does to the rows: the lemmas the proofs     *)
(* about the node rest on.                                                 *)
(***************************************************************************)
EXTENDS PingQueue, FiniteSetTheorems, TLAPS

RowsType ==
  /\ DOMAIN queue \subseteq Urls
  /\ queue \in [DOMAIN queue -> Row]
  /\ RowIdsBounded

\* A row is filed under the url of its ping, with a rowid of its own.
RowsSound ==
  /\ \A u \in DOMAIN queue : UrlOf[queue[u].ping] = u
  /\ \A u, v \in DOMAIN queue : queue[u].rowid = queue[v].rowid => u = v

\* Of every row after a statement: it holds one of the pings P or the ping it
\* held before, and is in flight only if it was before or its url is in M.
RowsComeFrom(P, M) ==
  \A u \in DOMAIN queue' :
    /\ \/ queue'[u].ping \in P
       \/ u \in DOMAIN queue /\ queue'[u].ping = queue[u].ping
    /\ queue'[u].inflight =>
         u \in M \/ (u \in DOMAIN queue /\ queue[u].inflight)

-----------------------------------------------------------------------------
\* A second more never takes an age out of its range.
LEMMA OlderType == \A age \in Ages : Older(age) \in Ages
  BY PingAssumption, SMT DEF Older, Ages

\* The row an insertion or an update writes.
LEMMA WithRowType ==
  ASSUME RowsType, NEW u \in Urls, NEW row \in Row
  PROVE  /\ DOMAIN WithRow(u, row) = DOMAIN queue \cup {u}
         /\ WithRow(u, row) \in [DOMAIN queue \cup {u} -> Row]
         /\ WithRow(u, row)[u] = row
         /\ \A v \in DOMAIN queue \ {u} : WithRow(u, row)[v] = queue[v]
  BY DEF RowsType, WithRow

\* A row of the given parts is a row.
LEMMA RowOfParts ==
  ASSUME NEW p \in Pings, NEW age \in Ages, NEW id \in Nat, NEW f \in BOOLEAN
  PROVE  [ping |-> p, age |-> age, inflight |-> f, rowid |-> id] \in Row
  BY DEF Row

\* What Max returns, when there is something to return.
LEMMA MaxIsLargest ==
  ASSUME NEW S, NEW m \in S, \A n \in S : m >= n
  PROVE  Max(S) \in S /\ \A n \in S : Max(S) >= n
  BY DEF Max

\* The rowid of a new row is a number and larger than every other.
LEMMA NextRowIdIsNew ==
  ASSUME RowsType
  PROVE  NextRowId \in Nat /\ \A u \in DOMAIN queue : queue[u].rowid < NextRowId
<1>1. \A u \in DOMAIN queue : queue[u].rowid \in Nat
  BY DEF RowsType, Row
<1>2. \E m \in {0} \cup RowIds : \A n \in {0} \cup RowIds : m >= n
  <2>1. CASE DOMAIN queue = {}
    BY <2>1 DEF RowIds
  <2>2. CASE DOMAIN queue # {}
    <3>1. PICK u \in DOMAIN queue :
            \A v \in DOMAIN queue : queue[v].rowid <= queue[u].rowid
      BY <2>2 DEF RowsType, RowIdsBounded
    <3>2. queue[u].rowid \in {0} \cup RowIds
      BY DEF RowIds
    <3>3. \A n \in {0} \cup RowIds : queue[u].rowid >= n
      BY <1>1, <3>1, SMT DEF RowIds
    <3> QED BY <3>2, <3>3
  <2> QED BY <2>1, <2>2
<1> DEFINE last == Max({0} \cup RowIds)
<1>3. last \in {0} \cup RowIds /\ \A n \in {0} \cup RowIds : last >= n
  BY <1>2, MaxIsLargest
<1>4. last \in Nat /\ NextRowId = 1 + last
  BY <1>1, <1>3 DEF RowIds, NextRowId
<1>5. \A u \in DOMAIN queue : queue[u].rowid \in {0} \cup RowIds
  BY DEF RowIds
<1> HIDE DEF last
<1> QED BY <1>1, <1>3, <1>4, <1>5, SMT

\* Statements that add no row and keep the rowids keep the table finite.
LEMMA BoundedKept ==
  ASSUME RowIdsBounded, DOMAIN queue' \subseteq DOMAIN queue,
         \A u \in DOMAIN queue' : queue'[u].rowid = queue[u].rowid
  PROVE  RowIdsBounded'
<1> SUFFICES ASSUME NEW S \in (SUBSET DOMAIN queue') \ {{}}
             PROVE  \E u \in S : \A v \in S : queue'[v].rowid <= queue'[u].rowid
  BY DEF RowIdsBounded
<1>1. S \in (SUBSET DOMAIN queue) \ {{}}
  OBVIOUS
<1>2. PICK u \in S : \A v \in S : queue[v].rowid <= queue[u].rowid
  BY <1>1 DEF RowIdsBounded
<1> QED BY <1>2

\* The INSERT of add_ping_to_queue adds one row, with a new rowid.
LEMMA InsertRowRows ==
  ASSUME RowsType, NEW p \in Pings, NEW age \in Ages, InsertRow(p, age)
  PROVE  /\ RowsType'
         /\ RowsSound => RowsSound'
         /\ RowsComeFrom({p}, {})
         /\ DOMAIN queue' = DOMAIN queue \cup {UrlOf[p]}
<1> DEFINE new == [ping |-> p, age |-> age, inflight |-> FALSE,
                   rowid |-> NextRowId]
<1>1. UrlOf[p] \in Urls
  BY PingAssumption
<1>2. new \in Row
  <2>1. NextRowId \in Nat
    BY NextRowIdIsNew
  <2> QED BY <2>1, RowOfParts
<1>3. /\ queue' = WithRow(UrlOf[p], new)
      /\ UrlOf[p] \notin DOMAIN queue
  BY DEF InsertRow
<1> HIDE DEF new
<1>4. /\ DOMAIN queue' = DOMAIN queue \cup {UrlOf[p]}
      /\ queue' \in [DOMAIN queue' -> Row]
      /\ queue'[UrlOf[p]] = new
      /\ \A v \in DOMAIN queue \ {UrlOf[p]} : queue'[v] = queue[v]
  <2> DEFINE after == WithRow(UrlOf[p], new)
  <2>1. /\ DOMAIN after = DOMAIN queue \cup {UrlOf[p]}
        /\ after \in [DOMAIN queue \cup {UrlOf[p]} -> Row]
        /\ after[UrlOf[p]] = new
        /\ \A v \in DOMAIN queue \ {UrlOf[p]} : after[v] = queue[v]
    BY <1>1, <1>2, WithRowType
  <2>2. queue' = after
    BY <1>3
  <2> QED BY <2>1, <2>2
<1>5. new.ping = p /\ new.inflight = FALSE /\ new.rowid = NextRowId
  BY DEF new
<1>6. RowsType'
  <2>1. \A v \in DOMAIN queue' : queue'[v].rowid <= new.rowid
    <3>1. \A u \in DOMAIN queue : queue[u].rowid \in Nat
      BY DEF RowsType, Row
    <3> QED BY <1>4, <1>5, <3>1, NextRowIdIsNew, SMT
  <2>2. RowIdsBounded'
    <3> SUFFICES ASSUME NEW S \in (SUBSET DOMAIN queue') \ {{}}
                 PROVE  \E u \in S : \A v \in S : queue'[v].rowid <= queue'[u].rowid
      BY DEF RowIdsBounded
    <3>1. CASE UrlOf[p] \in S
      BY <1>4, <2>1, <3>1
    <3>2. CASE UrlOf[p] \notin S
      <4>1. S \in (SUBSET DOMAIN queue) \ {{}}
        BY <1>4, <3>2
      <4>2. PICK u \in S : \A v \in S : queue[v].rowid <= queue[u].rowid
        BY <4>1 DEF RowsType, RowIdsBounded
      <4> QED BY <1>4, <3>2, <4>1, <4>2
    <3> QED BY <3>1, <3>2
  <2> QED BY <1>1, <1>3, <1>4, <2>2, SMT DEF RowsType
<1>7. RowsSound => RowsSound'
  <2>1. \A u \in DOMAIN queue : queue[u].rowid \in Nat
    BY DEF RowsType, Row
  <2> QED BY <1>3, <1>4, <1>5, <2>1, NextRowIdIsNew, SMT DEF RowsSound
<1>8. RowsComeFrom({p}, {})
  BY <1>3, <1>4, <1>5 DEF RowsComeFrom
<1> QED BY <1>4, <1>6, <1>7, <1>8

\* update_ping_in_queue changes the ping of at most one row, in place.
LEMMA UpdateRowRows ==
  ASSUME RowsType, NEW p \in Pings, NEW age \in Ages, UpdateRow(p, age)
  PROVE  /\ RowsType'
         /\ RowsSound => RowsSound'
         /\ RowsComeFrom({p}, {})
         /\ DOMAIN queue' = DOMAIN queue
         /\ UrlOf[p] \in DOMAIN queue => queue'[UrlOf[p]].ping = p
<1>1. CASE UrlOf[p] \notin DOMAIN queue
  BY <1>1, BoundedKept DEF UpdateRow, RowsType, RowsSound, RowsComeFrom
<1>2. CASE UrlOf[p] \in DOMAIN queue
  <2> DEFINE new == [ping |-> p, age |-> age, inflight |-> FALSE,
                     rowid |-> queue[UrlOf[p]].rowid]
  <2>1. UrlOf[p] \in Urls
    BY PingAssumption
  <2>2. queue[UrlOf[p]].rowid \in Nat
    BY <1>2 DEF RowsType, Row
  <2>3. new \in Row
    BY <2>2, RowOfParts
  <2>4. queue' = WithRow(UrlOf[p], new)
    BY <1>2 DEF UpdateRow
  <2>5. /\ new.ping = p /\ new.inflight = FALSE
        /\ new.rowid = queue[UrlOf[p]].rowid
    BY DEF new
  <2> HIDE DEF new
  <2>6. /\ DOMAIN queue' = DOMAIN queue
        /\ queue' \in [DOMAIN queue' -> Row]
        /\ queue'[UrlOf[p]] = new
        /\ \A v \in DOMAIN queue \ {UrlOf[p]} : queue'[v] = queue[v]
    <3> DEFINE after == WithRow(UrlOf[p], new)
    <3>1. /\ DOMAIN after = DOMAIN queue \cup {UrlOf[p]}
          /\ after \in [DOMAIN queue \cup {UrlOf[p]} -> Row]
          /\ after[UrlOf[p]] = new
          /\ \A v \in DOMAIN queue \ {UrlOf[p]} : after[v] = queue[v]
      BY <2>1, <2>3, WithRowType
    <3>2. queue' = after
      BY <2>4
    <3>3. DOMAIN queue \cup {UrlOf[p]} = DOMAIN queue
      BY <1>2
    <3> HIDE DEF after
    <3> QED BY <3>1, <3>2, <3>3
  <2>7. RowsType'
    BY <1>2, <2>5, <2>6, BoundedKept DEF RowsType
  <2>8. RowsSound => RowsSound'
    BY <1>2, <2>4, <2>5, <2>6 DEF RowsSound
  <2>9. RowsComeFrom({p}, {})
    BY <2>5, <2>6 DEF RowsComeFrom
  <2> QED BY <2>5, <2>6, <2>7, <2>8, <2>9
<1> QED BY <1>1, <1>2

\* set_ping_as_inflight puts at most the row of u in flight.
LEMMA SetInflightRows ==
  ASSUME RowsType, NEW u \in Urls, SetInflight(u)
  PROVE  /\ RowsType'
         /\ RowsSound => RowsSound'
         /\ RowsComeFrom({}, {u})
         /\ DOMAIN queue' = DOMAIN queue
<1>1. CASE u \notin DOMAIN queue
  BY <1>1, BoundedKept DEF SetInflight, RowsType, RowsSound, RowsComeFrom
<1>2. CASE u \in DOMAIN queue
  <2>1. queue' = [queue EXCEPT ![u].inflight = TRUE]
    BY <1>2 DEF SetInflight
  <2>2. DOMAIN queue' = DOMAIN queue
    BY <2>1
  <2>3. \A v \in DOMAIN queue \ {u} : queue'[v] = queue[v]
    BY <2>1 DEF RowsType
  <2>4. queue'[u] = [queue[u] EXCEPT !.inflight = TRUE]
    BY <1>2, <2>1 DEF RowsType
  <2>5. \A v \in DOMAIN queue : queue[v] \in Row
    BY DEF RowsType
  <2>6. /\ queue'[u] \in Row
        /\ queue'[u].ping = queue[u].ping
        /\ queue'[u].rowid = queue[u].rowid
    BY <1>2, <2>4, <2>5 DEF Row
  <2>7. queue' \in [DOMAIN queue' -> Row]
    <3>1. \A v \in DOMAIN queue : queue'[v] \in Row
      BY <2>3, <2>5, <2>6
    <3>2. queue' = [v \in DOMAIN queue |-> queue'[v]]
      BY <2>1, <2>2 DEF RowsType
    <3> QED BY <2>2, <3>1, <3>2
  <2>8. RowsType'
    BY <2>2, <2>3, <2>6, <2>7, BoundedKept DEF RowsType
  <2>9. RowsSound => RowsSound'
    BY <2>1, <2>2, <2>3, <2>6 DEF RowsSound
  <2>10. RowsComeFrom({}, {u})
    BY <2>2, <2>3, <2>6 DEF RowsComeFrom
  <2> QED BY <2>2, <2>8, <2>9, <2>10
<1> QED BY <1>1, <1>2

\* delete_ping_from_queue removes the row of u and touches no other.
LEMMA DeleteRowRows ==
  ASSUME RowsType, NEW u, DeleteRow(u)
  PROVE  /\ RowsType'
         /\ RowsSound => RowsSound'
         /\ RowsComeFrom({}, {})
         /\ DOMAIN queue' = DOMAIN queue \ {u}
<1>1. queue' = [v \in DOMAIN queue \ {u} |-> queue[v]]
  BY DEF DeleteRow, Restrict
<1>2. /\ DOMAIN queue' = DOMAIN queue \ {u}
      /\ \A v \in DOMAIN queue' : queue'[v] = queue[v]
  BY <1>1
<1>3. RowsType'
  BY <1>1, <1>2, BoundedKept DEF RowsType
<1>4. RowsSound => RowsSound'
  BY <1>1, <1>2 DEF RowsSound
<1>5. RowsComeFrom({}, {})
  BY <1>2 DEF RowsComeFrom
<1> QED BY <1>2, <1>3, <1>4, <1>5

\* A statement that changes nothing but the age and the flag of some rows, and
\* puts no row in flight.
LEMMA RowsInPlace ==
  ASSUME RowsType, DOMAIN queue' = DOMAIN queue,
         queue' \in [DOMAIN queue -> Row],
         \A u \in DOMAIN queue :
           /\ queue'[u].ping = queue[u].ping
           /\ queue'[u].rowid = queue[u].rowid
           /\ queue'[u].inflight => queue[u].inflight
  PROVE  /\ RowsType'
         /\ RowsSound => RowsSound'
         /\ RowsComeFrom({}, {})
<1>1. RowsType'
  BY BoundedKept DEF RowsType
<1>2. RowsSound => RowsSound'
  BY DEF RowsSound
<1>3. RowsComeFrom({}, {})
  BY DEF RowsComeFrom
<1> QED BY <1>1, <1>2, <1>3

\* reset_pings_in_flight takes rows out of flight, in place.
LEMMA ResetRowsRows ==
  ASSUME RowsType, ResetRows
  PROVE  /\ RowsType'
         /\ RowsSound => RowsSound'
         /\ RowsComeFrom({}, {})
         /\ DOMAIN queue' = DOMAIN queue
<1>1. PICK S : queue' = [u \in DOMAIN queue |->
                   IF u \in S
                   THEN [queue[u] EXCEPT !.inflight = FALSE, !.age = 0]
                   ELSE queue[u]]
  BY DEF ResetRows
<1>2. 0 \in Ages
  BY PingAssumption, SMT DEF Ages
<1>3. DOMAIN queue' = DOMAIN queue
  BY <1>1 DEF ResetRows
<1>4. ASSUME NEW u \in DOMAIN queue
      PROVE  /\ queue'[u] \in Row
             /\ queue'[u].ping = queue[u].ping
             /\ queue'[u].rowid = queue[u].rowid
             /\ queue'[u].inflight => queue[u].inflight
  <2>1. queue[u] \in Row
    BY DEF RowsType
  <2>2. \/ queue'[u] = queue[u]
        \/ queue'[u] = [queue[u] EXCEPT !.inflight = FALSE, !.age = 0]
    BY <1>1
  <2> QED BY <1>2, <2>1, <2>2 DEF Row
<1>5. queue' \in [DOMAIN queue -> Row]
  BY <1>1, <1>4
<1> QED BY <1>3, <1>4, <1>5, RowsInPlace

\* A second's passing touches the ages only.
LEMMA AgeRowsRows ==
  ASSUME RowsType, AgeRows
  PROVE  /\ RowsType'
         /\ RowsSound => RowsSound'
         /\ RowsComeFrom({}, {})
         /\ DOMAIN queue' = DOMAIN queue
<1>1. queue' = [u \in DOMAIN queue |->
                  [queue[u] EXCEPT !.age = Older(queue[u].age)]]
  BY DEF AgeRows
<1>2. ASSUME NEW u \in DOMAIN queue
      PROVE  /\ queue'[u] \in Row
             /\ queue'[u].ping = queue[u].ping
             /\ queue'[u].rowid = queue[u].rowid
             /\ queue'[u].inflight => queue[u].inflight
  <2>1. queue[u] \in Row /\ queue[u].age \in Ages
    BY DEF RowsType, Row
  <2>2. Older(queue[u].age) \in Ages
    BY <2>1, OlderType
  <2>3. queue'[u] = [queue[u] EXCEPT !.age = Older(queue[u].age)]
    BY <1>1
  <2> QED BY <2>1, <2>2, <2>3 DEF Row
<1>3. DOMAIN queue' = DOMAIN queue /\ queue' \in [DOMAIN queue -> Row]
  BY <1>1, <1>2
<1> QED BY <1>2, <1>3, RowsInPlace

\* At most one item comes next: the order of the statement is asymmetric.
LEMMA NextIsUnique ==
  ASSUME NEW items \in SUBSET Item, NEW one, NEW other,
         IsNext(one, items), IsNext(other, items)
  PROVE  one = other
<1>1. \A item \in items : item.ping \in Pings /\ item.rowid \in Nat
  BY DEF Item
<1>2. \A p \in Pings : Rank(p) \in Nat
  BY PingAssumption DEF Rank, Reasons
<1>3. SUFFICES ASSUME one # other PROVE FALSE
  OBVIOUS
<1>4. one \in items /\ other \in items
  BY DEF IsNext
<1>5. Before(one, other) /\ Before(other, one)
  BY <1>3, <1>4 DEF IsNext
<1>6. /\ Rank(one.ping) \in Nat /\ Rank(other.ping) \in Nat
      /\ one.rowid \in Nat /\ other.rowid \in Nat
  BY <1>1, <1>2, <1>4
<1> QED BY <1>5, <1>6, SMT DEF Before

-----------------------------------------------------------------------------
(* What get_pings_from_queue returns.                                      *)

\* Before is transitive and asymmetric.
LEMMA BeforeIsOrder ==
  ASSUME RowsType, NEW u \in DOMAIN queue, NEW v \in DOMAIN queue,
         NEW w \in DOMAIN queue
  PROVE  /\ Before(queue[u], queue[v]) /\ Before(queue[v], queue[w])
              => Before(queue[u], queue[w])
         /\ ~(Before(queue[u], queue[v]) /\ Before(queue[v], queue[u]))
<1>1. \A x \in DOMAIN queue : queue[x].ping \in Pings /\ queue[x].rowid \in Nat
  BY DEF RowsType, Row
<1>2. \A p \in Pings : Rank(p) \in 1 .. 3
  BY PingAssumption DEF Rank, Reasons
<1> QED BY <1>1, <1>2, SMT DEF Before

\* Of two rows one goes before the other, since no two share a rowid.
LEMMA BeforeIsTotal ==
  ASSUME RowsType, RowsSound, NEW u \in DOMAIN queue, NEW v \in DOMAIN queue, u # v
  PROVE  Before(queue[u], queue[v]) \/ Before(queue[v], queue[u])
<1>1. /\ queue[u].ping \in Pings /\ queue[u].rowid \in Nat
      /\ queue[v].ping \in Pings /\ queue[v].rowid \in Nat
      /\ queue[u].rowid # queue[v].rowid
  BY DEF RowsType, Row, RowsSound
<1>2. \A p \in Pings : Rank(p) \in 1 .. 3
  BY PingAssumption DEF Rank, Reasons
<1> QED BY <1>1, <1>2, SMT DEF Before

\* The waiting rows that go before the row of u.
Ahead(u) == {v \in Waiting : Before(queue[v], queue[u])}

\* What goes before a row goes before all that the row goes before.
LEMMA AheadGrows ==
  ASSUME RowsType, NEW u \in Waiting, NEW v \in Waiting, Before(queue[u], queue[v])
  PROVE  Ahead(u) \subseteq Ahead(v) /\ u \in Ahead(v) /\ u \notin Ahead(u)
<1>1. Waiting \subseteq DOMAIN queue
  BY DEF Waiting
<1> QED BY <1>1, BeforeIsOrder DEF Ahead

\* The number of rows that go before another is a number.
LEMMA AheadIsFinite ==
  ASSUME IsFiniteSet(DOMAIN queue), NEW u
  PROVE  /\ IsFiniteSet(Ahead(u)) /\ Cardinality(Ahead(u)) \in Nat
         /\ IsFiniteSet(Waiting) /\ IsFiniteSet(SelectedUrls)
<1>1. Waiting \subseteq DOMAIN queue /\ Ahead(u) \subseteq DOMAIN queue
      /\ SelectedUrls \subseteq DOMAIN queue
  BY DEF Waiting, Ahead, SelectedUrls
<1> QED BY <1>1, FS_Subset, FS_CardinalityType

\* A row that goes before a selected one, and waits, is selected.
LEMMA SelectedClosed ==
  ASSUME RowsType, IsFiniteSet(DOMAIN queue), NEW u \in Waiting,
         NEW v \in SelectedUrls, Before(queue[u], queue[v])
  PROVE  u \in SelectedUrls
<1>1. v \in Waiting /\ Cardinality(Ahead(v)) < BatchSize
  BY DEF SelectedUrls, Ahead
<1>2. Cardinality(Ahead(u)) <= Cardinality(Ahead(v))
  BY <1>1, AheadGrows, AheadIsFinite, FS_Subset
<1>3. Cardinality(Ahead(u)) < BatchSize
  BY <1>1, <1>2, AheadIsFinite, PingAssumption, SMT
<1> QED BY <1>3 DEF SelectedUrls, Ahead

\* Of some subsets of a finite set, by index, one contains no other.
LEMMA SmallestSet ==
  ASSUME NEW S, IsFiniteSet(S), NEW T, T # {}, NEW f \in [T -> SUBSET S]
  PROVE  \E m \in T : \A x \in T : f[x] \subseteq f[m] => f[x] = f[m]
<1> DEFINE A == {f[x] : x \in T}
<1>1. IsWellFoundedOn(StrictSubsetOrdering(S), FiniteSubsetsOf(S))
  BY FS_StrictSubsetOrderingWellFounded
<1>2. FiniteSubsetsOf(S) = SUBSET S
  BY FS_FiniteSubsetsOfFinite
<1>3. A \subseteq FiniteSubsetsOf(S) /\ A # {}
  BY <1>2
<1>4. PICK small \in A :
        \A other \in A : ~(<<other, small>> \in StrictSubsetOrdering(S))
  <2> HIDE DEF A
  <2> QED BY <1>1, <1>3, WFMin
<1>5. \A other \in A :
        other \subseteq small /\ other # small
          => <<other, small>> \in StrictSubsetOrdering(S)
  BY <1>2, <1>3 DEF StrictSubsetOrdering
<1>6. PICK m \in T : small = f[m]
  OBVIOUS
<1>7. \A x \in T : f[x] \in A
  OBVIOUS
<1> HIDE DEF A
<1>8. \A x \in T : f[x] \subseteq small => f[x] = small
  BY <1>4, <1>5, <1>7
<1> QED BY <1>6, <1>8

\* Of some waiting rows one goes before all the others, and one after.
LEMMA FirstRow ==
  ASSUME RowsType, RowsSound, IsFiniteSet(DOMAIN queue), NEW T \in SUBSET Waiting,
         T # {}
  PROVE  \E m \in T : \A x \in T \ {m} : Before(queue[m], queue[x])
<1>1. Waiting \subseteq DOMAIN queue /\ IsFiniteSet(Waiting)
  BY AheadIsFinite DEF Waiting
<1> DEFINE f == [x \in T |-> Ahead(x)]
<1>2. f \in [T -> SUBSET Waiting] /\ \A x \in T : f[x] = Ahead(x)
  BY DEF Ahead
<1> HIDE DEF f
<1>3. PICK m \in T : \A x \in T : Ahead(x) \subseteq Ahead(m) => Ahead(x) = Ahead(m)
  BY <1>1, <1>2, SmallestSet
<1>4. \A x \in T : ~Before(queue[x], queue[m])
  BY <1>3, AheadGrows
<1> QED BY <1>1, <1>4, BeforeIsTotal

LEMMA LastRow ==
  ASSUME RowsType, RowsSound, IsFiniteSet(DOMAIN queue), NEW T \in SUBSET Waiting,
         T # {}
  PROVE  \E m \in T : \A x \in T \ {m} : Before(queue[x], queue[m])
<1> DEFINE f == [x \in T |-> Waiting \ Ahead(x)]
<1>1. Waiting \subseteq DOMAIN queue /\ IsFiniteSet(Waiting)
  BY AheadIsFinite DEF Waiting
<1>2. f \in [T -> SUBSET Waiting] /\ \A x \in T : f[x] = Waiting \ Ahead(x)
  OBVIOUS
<1> HIDE DEF f
<1>3. PICK m \in T : \A x \in T : f[x] \subseteq f[m] => f[x] = f[m]
  BY <1>1, <1>2, SmallestSet
<1>4. \A x \in T : ~Before(queue[m], queue[x])
  <2> SUFFICES ASSUME NEW x \in T, Before(queue[m], queue[x]) PROVE FALSE
    OBVIOUS
  <2>1. Ahead(m) \subseteq Ahead(x) /\ m \in Ahead(x) /\ m \notin Ahead(m)
    BY AheadGrows
  <2>2. m \in f[m] /\ m \notin f[x] /\ f[x] \subseteq f[m]
    BY <1>2, <2>1
  <2> QED BY <1>3, <2>2
<1> QED BY <1>1, <1>4, BeforeIsTotal

\* No more rows are selected than the LIMIT allows.
LEMMA SelectedUrlsFit ==
  ASSUME RowsType, RowsSound, IsFiniteSet(DOMAIN queue)
  PROVE  /\ IsFiniteSet(SelectedUrls)
         /\ Cardinality(SelectedUrls) \in Nat
         /\ Cardinality(SelectedUrls) <= BatchSize
<1>1. IsFiniteSet(SelectedUrls) /\ Cardinality(SelectedUrls) \in Nat
  BY AheadIsFinite, FS_CardinalityType
<1>2. CASE SelectedUrls = {}
  BY <1>1, <1>2, FS_EmptySet, PingAssumption, SMT
<1>3. CASE SelectedUrls # {}
  <2>1. SelectedUrls \in SUBSET Waiting
    BY DEF SelectedUrls
  <2>2. PICK m \in SelectedUrls :
          \A x \in SelectedUrls \ {m} : Before(queue[x], queue[m])
    BY <1>3, <2>1, LastRow
  <2>3. SelectedUrls \ {m} \subseteq Ahead(m)
    BY <2>1, <2>2 DEF Ahead
  <2>4. Cardinality(SelectedUrls \ {m}) <= Cardinality(Ahead(m))
    BY <2>3, AheadIsFinite, FS_Subset
  <2>5. Cardinality(SelectedUrls \ {m}) = Cardinality(SelectedUrls) - 1
    BY <1>1, FS_RemoveElement
  <2>6. Cardinality(Ahead(m)) < BatchSize /\ Cardinality(Ahead(m)) \in Nat
    BY AheadIsFinite DEF SelectedUrls, Ahead
  <2>7. Cardinality(SelectedUrls) <= BatchSize
    BY <1>1, <2>4, <2>5, <2>6, PingAssumption, SMT
  <2> QED BY <1>1, <2>7
<1> QED BY <1>2, <1>3

\* A row that waits and is not selected goes after as many rows as the LIMIT
\* allows, which are.
LEMMA NotSelectedIsLate ==
  ASSUME RowsType, RowsSound, IsFiniteSet(DOMAIN queue), NEW u \in Waiting,
         u \notin SelectedUrls
  PROVE  /\ Cardinality(SelectedUrls) = BatchSize
         /\ \A x \in SelectedUrls : Before(queue[x], queue[u])
<1> DEFINE Others == Waiting \ SelectedUrls
<1>1. Waiting \subseteq DOMAIN queue /\ SelectedUrls \subseteq Waiting
  BY DEF Waiting, SelectedUrls
<1>2. ASSUME NEW x \in SelectedUrls, NEW y \in Others
      PROVE  Before(queue[x], queue[y])
  <2>1. ~Before(queue[y], queue[x])
    BY SelectedClosed
  <2> QED BY <1>1, <2>1, BeforeIsTotal
<1>3. PICK m \in Others : \A x \in Others \ {m} : Before(queue[m], queue[x])
  BY FirstRow
<1>4. Ahead(m) \subseteq SelectedUrls
  <2> SUFFICES ASSUME NEW x \in Ahead(m), x \in Others PROVE FALSE
    BY DEF Ahead
  <2>1. Before(queue[x], queue[m])
    BY DEF Ahead
  <2> QED BY <1>1, <1>3, <2>1, BeforeIsOrder
<1>5. Cardinality(Ahead(m)) <= Cardinality(SelectedUrls)
  BY <1>4, SelectedUrlsFit, FS_Subset
<1>6. ~(Cardinality(Ahead(m)) < BatchSize) /\ Cardinality(Ahead(m)) \in Nat
  BY AheadIsFinite DEF SelectedUrls, Ahead
<1>7. Cardinality(SelectedUrls) = BatchSize
  BY <1>5, <1>6, SelectedUrlsFit, PingAssumption, SMT
<1> QED BY <1>2, <1>7

\* The result has one item for each selected row.
LEMMA SelectedIsCounted ==
  ASSUME RowsType, RowsSound, IsFiniteSet(DOMAIN queue)
  PROVE  /\ IsFiniteSet(Selected)
         /\ Cardinality(Selected) = Cardinality(SelectedUrls)
<1> DEFINE f == [u \in SelectedUrls |->
                   [ping |-> queue[u].ping, rowid |-> queue[u].rowid]]
<1>1. SelectedUrls \subseteq DOMAIN queue
  BY DEF SelectedUrls, Waiting
<1>2. f \in Surjection(SelectedUrls, Selected)
  BY DEF Surjection, Selected
<1>3. \A u, v \in SelectedUrls : f[u] = f[v] => u = v
  <2>1. \A u \in SelectedUrls : f[u].rowid = queue[u].rowid
    OBVIOUS
  <2> QED BY <1>1, <2>1 DEF RowsSound
<1>4. f \in Injection(SelectedUrls, Selected)
  BY <1>2, <1>3 DEF Surjection, Injection, IsInjective
<1> HIDE DEF f
<1> QED BY <1>2, <1>4, SelectedUrlsFit, FS_Surjection
=============================================================================
