----------------------------- MODULE PingService -----------------------------
(***************************************************************************)
(* What a node promises, without its threads, statements, sockets, clock   *)
(* and restarts.  A feed waits with at most one ping; a live ping takes    *)
(* the place of the one that waits, an Update never does; a ping is sent   *)
(* only if it was stored; and a feed stops waiting only when the           *)
(* hive-writer has settled one of its pings, by writing it to a block or   *)
(* by refusing it.                                                         *)
(***************************************************************************)
EXTENDS Functions

CONSTANTS Pings, UrlOf, ReasonOf

VARIABLES
  stored,       \* the pings taken in
  waiting,      \* waiting[u]: the ping with which the feed u waits
  sent,         \* the pings that were sent, at least once
  settled       \* the pings written to a block, or refused

serviceVars == <<stored, waiting, sent, settled>>

Init ==
  /\ stored = {}
  /\ waiting = [u \in {} |-> 0]
  /\ sent = {}
  /\ settled = {}

Urgent(p) == ReasonOf[p] \in {"Live", "LiveEnd"}

Store(p) ==
  /\ p \notin stored
  /\ Urgent(p) \/ UrlOf[p] \notin DOMAIN waiting
  /\ stored' = stored \cup {p}
  /\ waiting' = [u \in DOMAIN waiting \cup {UrlOf[p]} |->
                   IF u = UrlOf[p] THEN p ELSE waiting[u]]
  /\ UNCHANGED <<sent, settled>>

\* A live ping that finds its feed waiting and comes too late to replace the
\* ping it waits with.
StoreLate(p) ==
  /\ p \notin stored
  /\ Urgent(p) /\ UrlOf[p] \notin DOMAIN waiting
  /\ stored' = stored \cup {p}
  /\ UNCHANGED <<waiting, sent, settled>>

Send(p) ==
  /\ p \in stored
  /\ sent' = sent \cup {p}
  /\ UNCHANGED <<stored, waiting, settled>>

Settle(S) ==
  /\ S \subseteq sent
  /\ settled' = settled \cup S
  /\ UNCHANGED <<stored, waiting, sent>>

Withdraw(u) ==
  /\ u \in {UrlOf[p] : p \in settled}
  /\ waiting' = Restrict(waiting, DOMAIN waiting \ {u})
  /\ UNCHANGED <<stored, sent, settled>>

Next ==
  \/ \E p \in Pings : Store(p) \/ StoreLate(p) \/ Send(p)
  \/ \E S \in SUBSET sent : Settle(S)
  \/ \E u \in DOMAIN waiting : Withdraw(u)

Spec == Init /\ [][Next]_serviceVars
=============================================================================
