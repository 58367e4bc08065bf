-------------------------- MODULE RequestGate_proofs --------------------------
(***************************************************************************)
(* Proofs of what RequestGate asks of the checks.  TLC goes through every  *)
(* request; the proofs show which checks each property rests on.           *)
(***************************************************************************)
EXTENDS RequestGate, TLAPS

\* What is checked is a request in an environment.
GateTypeOK == request \in Request /\ env \in Env

\* The parts of a request the checks look at.
LEMMA Parts ==
  ASSUME NEW r \in Request
  PROVE  /\ r.method \in {"GET", "POST"} /\ r.path \in {"/", "/publishers", "/other"}
         /\ r.query \in BOOLEAN
         /\ r.address \in Header /\ r.authorization \in Header /\ r.agent \in Header
         /\ r.url \in {"absent", "empty", "other", "http"}
         /\ r.reason \in Code /\ r.medium \in Code
         /\ r.token \in Tokens /\ Len(r.token) \in Nat
  BY AuthAssumption DEF Request

\* The parts of an environment.
LEMMA EnvParts ==
  ASSUME NEW e \in Env
  PROVE  /\ e.auth \in {"good", "closed", "unreadable", "broken"}
         /\ e.page \in BOOLEAN /\ e.clock \in BOOLEAN
  BY DEF Env, AuthState

\* check_auth and check_auth_hybrid together.
LEMMA LookUpsDecide ==
  ASSUME NEW token \in Tokens, NEW auth \in {"good", "closed", "unreadable", "broken"}
  PROVE  /\ AuthVerdict(token, auth) = "store" <=>
              /\ auth = "good" /\ ~TooLong(token)
              /\ \/ RowMatches(token)
                 \/ Len(token) >= HybridLength /\ RowMatches(HybridPattern(token))
         /\ AuthVerdict(token, auth) = "panic" =>
              \/ auth = "broken"
              \/ auth = "good" /\ TooLong(token)
              \/ /\ Len(token) < HybridLength
                 /\ auth = "unreadable" \/ (auth = "good" /\ ~RowMatches(token))
<1>1. Len(token) \in Nat /\ HybridLength \in Nat
  BY AuthAssumption
<1>2. CASE auth = "broken" \/ (auth = "good" /\ TooLong(token))
  BY <1>2 DEF AuthVerdict
<1>3. CASE ~(auth = "broken" \/ (auth = "good" /\ TooLong(token)))
  <2>1. CASE auth = "good" /\ RowMatches(token)
    BY <1>3, <2>1 DEF AuthVerdict
  <2>2. CASE ~(auth = "good" /\ RowMatches(token))
    <3>1. AuthVerdict(token, auth) = HybridVerdict(token, auth)
      BY <1>3, <2>2 DEF AuthVerdict
    <3> QED BY <1>1, <1>3, <2>2, <3>1 DEF HybridVerdict
  <2> QED BY <2>1, <2>2
<1> QED BY <1>2, <1>3

\* The authorization lets a request through exactly when they match.
LEMMA AuthorizationDecides ==
  ASSUME NEW r \in Request, NEW auth \in {"good", "closed", "unreadable", "broken"}
  PROVE  /\ AuthorizationVerdict(r, auth) = "store" <=> Matched(r) /\ auth = "good"
         /\ AuthorizationVerdict(r, auth) = "panic" =>
              \/ r.authorization = "bytes"
              \/ auth = "broken"
              \/ /\ r.authorization = "text"
                 /\ \/ auth = "good" /\ TooLong(r.token)
                    \/ /\ Len(r.token) < HybridLength
                       /\ auth = "unreadable" \/ (auth = "good" /\ ~RowMatches(r.token))
<1>1. r.authorization \in {"absent", "text", "bytes"} /\ r.token \in Tokens
  BY Parts DEF Header
<1>2. CASE r.authorization = "text"
  BY <1>2, <1>1, LookUpsDecide DEF AuthorizationVerdict, Matched
<1>3. CASE r.authorization # "text"
  BY <1>3, <1>1 DEF AuthorizationVerdict, Matched
<1> QED BY <1>2, <1>3

\* The other checks let it through exactly when its parts are well formed.
LEMMA OthersDecide ==
  ASSUME NEW r \in Request
  PROVE  /\ AddressVerdict(r.address) = "store" <=> r.address # "bytes"
         /\ AgentVerdict(r.agent) = "store" <=> r.agent = "text"
         /\ AgentVerdict(r.agent) = "panic" <=> r.agent = "bytes"
         /\ UrlVerdict(r.url) = "store" <=> r.url = "http"
         /\ UrlVerdict(r.url) # "panic"
         /\ \A c \in Code : /\ CodeVerdict(c) = "store" <=> c # "unknown"
                            /\ CodeVerdict(c) \in {"store", "panic"}
         /\ \A b \in BOOLEAN : /\ ClockVerdict(b) = "store" <=> b
                               /\ HomeVerdict(b) # "store"
                               /\ HomeVerdict(b) = "panic" <=> ~b
  BY Parts DEF AddressVerdict, AgentVerdict, UrlVerdict, CodeVerdict, ClockVerdict,
               HomeVerdict, Header, Code

\* A ping goes on to the queue exactly when its request is admitted, auth.db can be
\* read and the clock is sound.
LEMMA StoreVerdict ==
  ASSUME NEW r \in Request, NEW e \in Env
  PROVE  Verdict(r, e) = "store" <=> Admitted(r) /\ e.auth = "good" /\ e.clock
<1>1. PublishersVerdict(r, e) # "store"
  BY EnvParts DEF PublishersVerdict, FirstOf, ListVerdict
<1>2. PingVerdict(r, e) = "store" <=>
        /\ e.clock /\ r.address # "bytes" /\ r.query
        /\ Matched(r) /\ e.auth = "good"
        /\ r.agent = "text" /\ r.url = "http"
        /\ r.reason # "unknown" /\ r.medium # "unknown"
  BY EnvParts, Parts, AuthorizationDecides, OthersDecide DEF PingVerdict, FirstOf
<1> QED BY <1>1, <1>2, Parts DEF Verdict, WellFormed, Admitted

\* A request that panics has a cause to.
LEMMA PanicVerdict ==
  ASSUME NEW r \in Request, NEW e \in Env, Verdict(r, e) = "panic"
  PROVE  HasCause(r, e)
<1>1. e.auth \in {"good", "closed", "unreadable", "broken"} /\ e.page \in BOOLEAN /\ e.clock \in BOOLEAN
  BY EnvParts
<1>2. CASE r.method = "GET" /\ r.path = "/publishers"
  <2>1. PublishersVerdict(r, e) = "panic"
    BY <1>2 DEF Verdict
  <2>2. e.auth # "broken" => ListVerdict(e.auth) # "panic"
    BY <1>1 DEF ListVerdict
  <2>3. "bytes" \in {r.address, r.agent} \/ e.auth = "broken"
    BY <2>1, <2>2, Parts, OthersDecide DEF PublishersVerdict, FirstOf
  <2> QED BY <1>2, <2>3 DEF HasCause
<1>3. CASE r.method = "GET" /\ r.path = "/"
  <2>1. PingVerdict(r, e) = "panic"
    BY <1>3 DEF Verdict
  <2>2. CASE r.address = "bytes" \/ ~e.clock
    BY <1>3, <2>2 DEF HasCause
  <2>3. CASE r.address # "bytes" /\ e.clock /\ ~r.query
    <3>1. HomeVerdict(e.page) = "panic"
      BY <1>1, <2>1, <2>3, OthersDecide DEF PingVerdict, FirstOf
    <3>2. ~e.page
      BY <1>1, <3>1, OthersDecide
    <3> QED BY <1>3, <2>3, <3>2 DEF HasCause
  <2>4. CASE r.address # "bytes" /\ e.clock /\ r.query
    <3>1. CASE AuthorizationVerdict(r, e.auth) = "store"
      <4>1. Matched(r) /\ e.auth = "good"
        BY <1>1, <3>1, AuthorizationDecides
      <4>2. r.agent = "bytes" \/ "unknown" \in {r.reason, r.medium}
        BY <1>1, <2>1, <2>4, <3>1, Parts, OthersDecide DEF PingVerdict, FirstOf
      <4> QED BY <1>3, <4>1, <4>2 DEF HasCause
    <3>2. CASE AuthorizationVerdict(r, e.auth) # "store"
      <4>1. AuthorizationVerdict(r, e.auth) = "panic"
        BY <1>1, <2>1, <2>4, <3>2, OthersDecide DEF PingVerdict, FirstOf
      <4> QED BY <1>1, <1>3, <2>4, <4>1, AuthorizationDecides DEF HasCause
    <3> QED BY <3>1, <3>2
  <2> QED BY <1>1, <2>2, <2>3, <2>4, Parts
<1>4. CASE ~(r.method = "GET" /\ r.path \in {"/", "/publishers"})
  BY <1>4 DEF Verdict
<1> QED BY <1>2, <1>3, <1>4

\* The gate's variables keep their types.
LEMMA GateType == GateSpec => []GateTypeOK
<1>1. GateInit => GateTypeOK
  BY DEF GateInit, GateTypeOK
<1>2. GateTypeOK /\ [Check]_gateVars => GateTypeOK'
  BY DEF GateTypeOK, Check, gateVars
<1> QED BY <1>1, <1>2, PTL DEF GateSpec

\* The verdict on a request is one of its checks, or there is none yet.
LEMMA VerdictIsVerdict ==
  GateSpec => [](verdict = "none" \/ verdict = Verdict(request, env))
<1> DEFINE Is == verdict = "none" \/ verdict = Verdict(request, env)
<1>1. GateInit => Is
  BY DEF GateInit
<1>2. Is /\ [Check]_gateVars => Is'
  BY DEF Check, gateVars
<1> QED BY <1>1, <1>2, PTL DEF GateSpec

\* A ping is stored exactly when its request is well formed, the look-ups have
\* matched a row, whatever rows and tokens there are, and auth.db and the clock
\* are in order.
THEOREM StoredSound == GateSpec => []StoredIffAdmitted
<1>1. GateTypeOK /\ (verdict = "none" \/ verdict = Verdict(request, env))
        => StoredIffAdmitted
  BY StoreVerdict DEF GateTypeOK, StoredIffAdmitted
<1> QED BY <1>1, GateType, VerdictIsVerdict, PTL

\* A request ends the process only for one of the causes of HasCause.
THEOREM PanicExplained == GateSpec => []PanicHasCause
<1>1. GateTypeOK /\ (verdict = "none" \/ verdict = Verdict(request, env))
        => PanicHasCause
  BY PanicVerdict DEF GateTypeOK, PanicHasCause
<1> QED BY <1>1, GateType, VerdictIsVerdict, PTL
=============================================================================
