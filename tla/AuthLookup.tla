----------------------------- MODULE AuthLookup -----------------------------
(***************************************************************************)
(* The look-ups in the publishers table of auth.db.  check_auth and        *)
(* check_auth_hybrid compare with LIKE, and the value of the request's     *)
(* authorization header is the pattern: upper and lower case are the same, *)
(* "_" is any character and "%" any characters.  So a token that is in the *)
(* table is found, and others are found as well.                           *)
(***************************************************************************)
EXTENDS Integers, Sequences

CONSTANTS
  AuthVals,      \* the authvals of the publishers
  Tokens,        \* the values the authorization header may have
  HybridLength,  \* how much of a token check_auth_hybrid looks up (22 bytes)
  LikeLimit      \* the longest pattern SQLite takes (50000 bytes)

\* What LIKE tells apart: a letter in both cases, another, and two wildcards.
Char == {"a", "A", "b", "_", "%"}

ASSUME AuthAssumption ==
  /\ AuthVals \in SUBSET Seq(Char)
  /\ Tokens \in SUBSET Seq(Char)
  /\ <<>> \in Tokens
  /\ HybridLength \in Nat
  /\ LikeLimit \in Nat
  /\ HybridLength < LikeLimit

\* auth.db may be good; it may fail to open (closed), its table may be out of reach
\* (unreadable), or its rows, once the statement is prepared (broken).
AuthState == {"good", "closed", "unreadable", "broken"}

-----------------------------------------------------------------------------
SameLetter(c, d) == c = d \/ {c, d} = {"a", "A"}

\* val LIKE pattern.
Like(val, pattern) ==
  LET rest[i \in 1 .. Len(val) + 1, j \in 1 .. Len(pattern) + 1] ==
        CASE j > Len(pattern)  -> i > Len(val)
          [] j <= Len(pattern) /\ pattern[j] = "%" ->
               \E k \in i .. Len(val) + 1 : rest[k, j + 1]
          [] OTHER -> /\ i <= Len(val)
                      /\ pattern[j] = "_" \/ SameLetter(val[i], pattern[j])
                      /\ rest[i + 1, j + 1]
  IN  rest[1, 1]

RowMatches(pattern) == \E val \in AuthVals : Like(val, pattern)

\* The first bytes of the token, and whatever comes after them.
HybridPattern(token) == SubSeq(token, 1, HybridLength) \o <<"%">>

\* SQLite's error, at the first row it compares, which is unwrapped.
TooLong(token) == Len(token) > LikeLimit /\ AuthVals # {}

\* check_auth_hybrid slices the token once auth.db is open, and before its statement
\* is prepared.
HybridVerdict(token, auth) ==
  IF auth = "closed" THEN "unauthorized"
  ELSE IF Len(token) < HybridLength THEN "panic"
  ELSE IF auth = "good" /\ RowMatches(HybridPattern(token)) THEN "store"
  ELSE "unauthorized"

\* (mutant) An auth.db out of reach lets a token pass.
AuthVerdictOpen(token, auth) ==
  IF auth = "broken" \/ (auth = "good" /\ TooLong(token)) THEN "panic"
  ELSE IF auth = "good" => RowMatches(token) THEN "store"
  ELSE HybridVerdict(token, auth)

\* (mutant) Only the hybrid look-up is left.
AuthVerdictHybridOnly(token, auth) ==
  IF auth = "broken" THEN "panic" ELSE HybridVerdict(token, auth)

\* check_auth, then check_auth_hybrid on any error of the first.  Rows that
\* cannot be read panic in the first.
AuthVerdict(token, auth) ==
  IF auth = "broken" \/ (auth = "good" /\ TooLong(token)) THEN "panic"
  ELSE IF auth = "good" /\ RowMatches(token) THEN "store"
  ELSE HybridVerdict(token, auth)

\* get_publishers.
ListVerdict(auth) ==
  CASE auth = "good"                     -> "list"
    [] auth \in {"closed", "unreadable"} -> "no list"
    [] auth = "broken"                   -> "panic"
=============================================================================
