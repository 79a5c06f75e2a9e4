----------------------------- MODULE MCRegistry -----------------------------
(* Registry over two letters and the dot.  Names and states of up to three *)
(* characters: empty, short, longer than a field, with and without a dot.  *)
EXTENDS Registry

MCText == {<<>>, <<"a">>, <<"a", ".", "b">>}
MCId == {<<"a">>, <<"b", ".", "a">>, <<"a", ".", "b">>, <<"b", ".", "a", ".">>}
=============================================================================
