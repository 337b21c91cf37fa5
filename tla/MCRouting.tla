----------------------------- MODULE MCRouting -----------------------------
(***************************************************************************)
(* The table as the server uses it: the asyncio thread changes it and      *)
(* matches for the built-in producers, the data-plane thread only matches. *)
(***************************************************************************)
EXTENDS Routing

MCParts == {"a", "b"}
MCNames == {<<"a">>, <<"a", "b">>}

\* "a.b" and "a.*"
MCPatterns == {[name |-> <<"a", "b">>, wild |-> FALSE],
               [name |-> <<"a">>, wild |-> TRUE]}
=============================================================================
