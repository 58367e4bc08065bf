----------------------------- MODULE RequestGate -----------------------------
(***************************************************************************)
(* The checks of RequestCheck on every request there is, with auth.db,     *)
(* home.html and the clock in every state.                                 *)
(***************************************************************************)
EXTENDS RequestCheck

VARIABLES
  request,
  env,
  verdict       \* what the server makes of the request, once it has run

gateVars == <<request, env, verdict>>

GateInit ==
  /\ request \in Request
  /\ env \in Env
  /\ verdict = "none"

Check ==
  /\ verdict = "none"
  /\ verdict' = Verdict(request, env)
  /\ UNCHANGED <<request, env>>

GateSpec == GateInit /\ [][Check]_gateVars

-----------------------------------------------------------------------------
\* handler.rs stores the ping of a request exactly when it is well formed and the
\* look-ups could be made and matched a row: an outage of auth.db fails closed,
\* and no order of the checks lets a request slip through.  (A match is less than
\* README's "validates that the token exists in the auth.db": see AuthLookup.)
StoredIffAdmitted ==
  verdict # "none" =>
    ((verdict = "store") <=>
       (Admitted(request) /\ env.auth = "good" /\ env.clock))

\* A publisher is served: a well-formed request with a token that is in auth.db is
\* stored, although the token is taken for a pattern and cut for the second
\* look-up; whatever characters it has and however short it is.
ListedIsStored ==
  \A token \in AuthVals :
    (/\ verdict # "none" /\ env = SoundEnv /\ WellFormed(request)
     /\ request.authorization = "text" /\ request.token = token
     /\ ~TooLong(token))
    => verdict = "store"

\* What may end the process: a header that is not text and an auth.db gone bad;
\* where pings are sent, also a clock before the epoch, a bad home.html, a token
\* too long for a pattern or too short to slice and, once a row has matched, a
\* misspelt reason or medium.
HasCause(r, e) ==
  /\ r.method = "GET" /\ r.path \in {"/", "/publishers"}
  /\ \/ "bytes" \in {r.address, r.agent}
     \/ e.auth = "broken"
     \/ /\ r.path = "/"
        /\ \/ ~e.clock
           \/ ~r.query /\ ~e.page
           \/ r.query /\ r.authorization = "bytes"
           \/ r.query /\ r.authorization = "text" /\ e.auth = "good" /\ TooLong(r.token)
           \/ /\ r.query /\ r.authorization = "text" /\ Len(r.token) < HybridLength
              /\ e.auth = "unreadable" \/ (e.auth = "good" /\ ~RowMatches(r.token))
           \/ /\ "unknown" \in {r.reason, r.medium}
              /\ Matched(r) /\ e.auth = "good"

\* The checks end the process for none but these causes; above all, a misspelt
\* reason or medium does so only after the look-ups have matched a row.
PanicHasCause == verdict = "panic" => HasCause(request, env)
=============================================================================
