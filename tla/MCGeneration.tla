---------------------------- MODULE MCGeneration ----------------------------
(* Prompts of up to three tokens, an empty one among them, and one longer   *)
(* than the context; tokens that are a character, two, or half of one; stop *)
(* strings that span them.                                                  *)
EXTENDS Generation

MCPiece == [x |-> <<"a">>, xy |-> <<"a", "b">>, h |-> <<"L">>, l |-> <<"c">>]
MCTokens == DOMAIN MCPiece
MCPrompts == UNION {[1..n -> {"x", "h"}] : n \in 0..2}
             \cup {<<"x", "x", "h">>, <<"x", "x", "x", "x">>, <<"x", "x", "x", "x", "x", "x">>}
MCStopSets == {{}, {<<"b", "a">>, <<>>}, {<<"a", "L", "c">>, <<"a", "a">>}}
=============================================================================
