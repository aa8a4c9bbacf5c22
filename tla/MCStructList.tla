---------------------------- MODULE MCStructList ----------------------------
(***************************************************************************)
(* StructList instantiated for TLC: two keys, so that rows can tie, two    *)
(* data values, so that tied rows differ, and three rows, so that a sort   *)
(* has an element to move past two others.                                 *)
(***************************************************************************)
EXTENDS StructList, TLC

CONSTANTS a, b

MCKeyVals == {1, 2}
MCDataVals == {a, b}
=============================================================================
