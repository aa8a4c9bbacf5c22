---------------------------- MODULE MCValidators ----------------------------
(***************************************************************************)
(* Validators with keystroke runs chosen so that every branch of each      *)
(* validator is reached within the bounds: an octet of 255 and of 256, a  *)
(* MAC group of one, two and three hex digits and a non-hex letter, hex   *)
(* and decimal integers on both sides of [0, 15], fractions, white space   *)
(* next to commas.                                                         *)
(***************************************************************************)
EXTENDS Validators

MCTokens ==
    [ty \in Types |->
        CASE ty = "string" -> {<<"a">>, <<"-">>, <<",">>, <<" ">>}
          [] ty = "id"     -> {<<"a">>, <<"1">>, <<"-">>, <<"*">>, <<",">>, <<" ">>}
          [] ty = "ipv4"   -> {<<"2", "5", "5">>, <<"2", "5", "6">>, <<"2">>, <<".">>, <<",">>}
          [] ty = "mac"    -> {<<"f">>, <<"f", "f">>, <<"g">>, <<":">>, <<",">>, <<" ">>}
          [] ty = "int"    -> {<<"1">>, <<"1", "9">>, <<"0", "x">>, <<"f">>, <<"-">>, <<",">>, <<" ">>}
          [] ty = "int64"  -> {<<"1">>, <<"1", "9">>, <<"0", "x">>, <<"f">>, <<"-">>, <<"l">>, <<",">>}
          [] ty = "double" -> {<<"1">>, <<"5">>, <<"1", "9">>, <<".">>, <<"-">>, <<",">>}]

MCMaxLen == [ty \in Types |-> IF ty = "ipv4" THEN 9 ELSE IF ty = "mac" THEN 5 ELSE 4]

\* The types whose validation and conversion hold as specified.
MCDescriptors ==
    {[type |-> "string", array |-> FALSE], [type |-> "string", array |-> TRUE],
     [type |-> "id", array |-> FALSE], [type |-> "id", array |-> TRUE],
     [type |-> "ipv4", array |-> FALSE], [type |-> "ipv4", array |-> TRUE],
     [type |-> "mac", array |-> FALSE], [type |-> "mac", array |-> TRUE],
     [type |-> "int", array |-> FALSE], [type |-> "double", array |-> FALSE]}

\* An array of Int settings.
MCIntArray == {[type |-> "int", array |-> TRUE]}
=============================================================================
