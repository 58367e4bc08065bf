------------------------------ MODULE Instances ------------------------------
(***************************************************************************)
(* Values for the constants of the node's small instances: which pings     *)
(* publishers send, for which urls, with which reasons, in which requests. *)
(***************************************************************************)
EXTENDS TLC

CONSTANTS liveA, endA, updA, updB, oddB, a, b   \* model values

\* A live ping, then perhaps its liveEnd, for one feed.
OneFeedPings == {liveA, endA}
OneFeedUrl == [p \in OneFeedPings |-> a]
OneFeedReason == (liveA :> "Live") @@ (endA :> "LiveEnd")

\* An update for one feed, and one for another with a token that no row matches.
OddRequestPings == {updA, oddB}
OddRequestUrl == (updA :> a) @@ (oddB :> b)
OddRequestReason == [p \in OddRequestPings |-> "Update"]

\* A live ping for one feed and an update for another.
TwoFeedsPings == {liveA, updB}
TwoFeedsUrl == (liveA :> a) @@ (updB :> b)
TwoFeedsReason == (liveA :> "Live") @@ (updB :> "Update")

\* Two updates, for two feeds.
TwoUpdatesPings == {updA, updB}
TwoUpdatesUrl == (updA :> a) @@ (updB :> b)
TwoUpdatesReason == [p \in TwoUpdatesPings |-> "Update"]

\* Live pings for one feed, and a request for another with a misspelt reason.
LiveStreamPings == {liveA, oddB}
LiveStreamUrl == (liveA :> a) @@ (oddB :> b)
LiveStreamReason == (liveA :> "Live") @@ (oddB :> "Update")

\* An update and a live ping for one feed.
MixedFeedPings == {updA, liveA}
MixedFeedUrl == [p \in MixedFeedPings |-> a]
MixedFeedReason == (liveA :> "Live") @@ (updA :> "Update")

\* One publisher; a token of more than HybridLength.
OneAuthVal == {<<"a", "b", "b">>}
TwoTokens == {<<>>, <<"a", "b", "b">>, <<"b", "b", "a">>}

\* A request all of whose checks pass.
SoundForm ==
  [method |-> "GET", path |-> "/", query |-> TRUE,
   address |-> "text", authorization |-> "text", token |-> <<"a", "b", "b">>,
   agent |-> "text", url |-> "http", reason |-> "known", medium |-> "absent"]

SoundForms(S) == [p \in S |-> SoundForm]

OneFeedForm == SoundForms(OneFeedPings)
MixedFeedForm == SoundForms(MixedFeedPings)
TwoFeedsForm == SoundForms(TwoFeedsPings)
TwoUpdatesForm == SoundForms(TwoUpdatesPings)
OddRequestForm ==
  [SoundForms(OddRequestPings) EXCEPT ![oddB].token = <<"b", "b", "a">>]
LiveStreamForm ==
  [SoundForms(LiveStreamPings) EXCEPT ![oddB].reason = "unknown"]
=============================================================================
