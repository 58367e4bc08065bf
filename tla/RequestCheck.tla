---------------------------- MODULE RequestCheck ----------------------------
(***************************************************************************)
(* What the server makes of a request before it touches the queue: the     *)
(* route, and the checks of the handlers `ping' and `publishers' in their  *)
(* order.  A header is absent, plain text, or bytes that to_str() refuses. *)
(***************************************************************************)
EXTENDS AuthLookup

Header == {"absent", "text", "bytes"}

Code == {"absent", "known", "unknown"}

\* The token is the value of the authorization header, if that is text.
Request ==
  {r \in [method : {"GET", "POST"},
          path : {"/", "/publishers", "/other"},
          query : BOOLEAN,          \* the request has parameters
          address : Header,         \* cf-connecting-ip
          authorization : Header,
          token : Tokens,
          agent : Header,           \* user-agent
          url : {"absent", "empty", "other", "http"},
          reason : Code,
          medium : Code] : r.authorization # "text" => r.token = <<>>}

\* What a handler finds beside its request: auth.db, whether home.html can be
\* read and rendered, and whether the clock is past the epoch.
Env == [auth : AuthState, page : BOOLEAN, clock : BOOLEAN]

SoundEnv == [auth |-> "good", page |-> TRUE, clock |-> TRUE]

\* What becomes of a request: 404, the landing page, the list of publishers, 204
\* for want of one, 401, 400, a panic, or the ping goes on to the queue.
Verdicts == {"not found", "home", "list", "no list", "unauthorized", "bad",
             "panic", "store"}

-----------------------------------------------------------------------------
\* The first check that does not let the request through decides.
FirstOf(first, rest) == IF first = "store" THEN rest ELSE first

\* The clock is read first.
ClockVerdict(clock) == IF clock THEN "store" ELSE "panic"

\* The client's address is printed when Cloudflare names it.
AddressVerdict(address) == IF address = "bytes" THEN "panic" ELSE "store"

AgentVerdict(agent) ==
  CASE agent = "absent" -> "unauthorized"
    [] agent = "bytes"  -> "panic"
    [] agent = "text"   -> "store"

\* The url must be there, be non-empty and begin with "http".
UrlVerdict(url) == IF url = "http" THEN "store" ELSE "bad"

\* from_str(..).unwrap() of a reason or medium.
CodeVerdict(code) == IF code = "unknown" THEN "panic" ELSE "store"

AuthorizationVerdict(r, auth) ==
  CASE r.authorization = "absent" -> "unauthorized"
    [] r.authorization = "bytes"  -> "panic"
    [] r.authorization = "text"   -> AuthVerdict(r.token, auth)

\* What a request without parameters gets.
HomeVerdict(page) == IF page THEN "home" ELSE "panic"

\* (mutant) The reason and the medium are parsed before the authorization.
PingVerdictCodesFirst(r, env) ==
  FirstOf(ClockVerdict(env.clock),
    FirstOf(AddressVerdict(r.address),
      IF ~r.query THEN HomeVerdict(env.page)
      ELSE FirstOf(CodeVerdict(r.reason),
             FirstOf(CodeVerdict(r.medium),
               FirstOf(AuthorizationVerdict(r, env.auth),
                 FirstOf(AgentVerdict(r.agent), UrlVerdict(r.url)))))))

\* The handler `ping', up to add_ping_to_queue.
PingVerdict(r, env) ==
  FirstOf(ClockVerdict(env.clock),
    FirstOf(AddressVerdict(r.address),
      IF ~r.query THEN HomeVerdict(env.page)
      ELSE FirstOf(AuthorizationVerdict(r, env.auth),
             FirstOf(AgentVerdict(r.agent),
               FirstOf(UrlVerdict(r.url),
                 FirstOf(CodeVerdict(r.reason), CodeVerdict(r.medium)))))))

\* The handler `publishers'.
PublishersVerdict(r, env) ==
  FirstOf(AddressVerdict(r.address),
    FirstOf(AgentVerdict(r.agent), ListVerdict(env.auth)))

\* Router::route: the table holds two paths, both for GET.
Verdict(r, env) ==
  CASE r.method = "GET" /\ r.path = "/"           -> PingVerdict(r, env)
    [] r.method = "GET" /\ r.path = "/publishers" -> PublishersVerdict(r, env)
    [] OTHER                                      -> "not found"

-----------------------------------------------------------------------------
\* The look-ups find a row for the token, or for what it begins with.
Matched(r) ==
  /\ r.authorization = "text"
  /\ ~TooLong(r.token)
  /\ \/ RowMatches(r.token)
     \/ Len(r.token) >= HybridLength /\ RowMatches(HybridPattern(r.token))

WellFormed(r) ==
  /\ r.method = "GET" /\ r.path = "/" /\ r.query /\ r.url = "http"
  /\ r.agent = "text" /\ r.address # "bytes"
  /\ r.reason # "unknown" /\ r.medium # "unknown"

\* What the code asks of a request whose ping it stores.
Admitted(r) == Matched(r) /\ WellFormed(r)
=============================================================================
