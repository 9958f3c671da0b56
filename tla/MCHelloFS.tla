------------------------------ MODULE MCHelloFS ------------------------------
(***************************************************************************)
(* An instance of HelloFS for TLC in which no property looks at the data:  *)
(* one value for every cell, and writes of one and a half blocks and of    *)
(* two and a half.                                                         *)
(***************************************************************************)
EXTENDS HelloFS

MCBlank == {"a"}
MCBlankRequests == {<<"a", "a", "a">>, <<"a", "a", "a", "a", "a">>}
=============================================================================
