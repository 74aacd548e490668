-------------------------- MODULE MCTagResolution --------------------------
(***************************************************************************)
(* An instance of TagResolution for TLC: a category and a name that look   *)
(* alike, a name with a slash, and every form an entry can take.           *)
(***************************************************************************)
EXTENDS TagResolution

SlashNames == {<<"b">>, <<"a", "b">>}
AllEntries == {<<"b">>, <<"a", "b">>, <<"k", "a", "b">>, <<"", "b">>, <<"k", "">>}
=============================================================================
