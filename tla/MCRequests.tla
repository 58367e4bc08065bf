----------------------------- MODULE MCRequests -----------------------------
(* RequestGate with publishers whose tokens are short and long. *)
EXTENDS RequestGate

\* One token is too short for the hybrid look-up, one has a wildcard in it.
SomeAuthVals == {<<"a">>, <<"a", "b", "b">>, <<"b", "_", "a">>}

\* Those; another case, another end, what a wildcard covers; short and long ones
\* that are nobody's; patterns; one beyond the limit.
SomeTokens ==
  SomeAuthVals \cup
    {<<>>, <<"A", "b", "b">>, <<"a", "b", "a">>, <<"b", "a", "a">>, <<"b">>,
     <<"b", "b", "b">>, <<"%", "b">>, <<"a", "_", "b">>,
     <<"a", "b", "b", "b", "b">>}
=============================================================================
