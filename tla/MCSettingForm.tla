--------------------------- MODULE MCSettingForm ---------------------------
(* Model-checking instance of SettingForm: two fields, two values. *)
EXTENDS SettingForm, TLC

CONSTANTS s1, s2, v1, v2

MCSettings == {s1, s2}
MCFieldOrder == <<s1, s2>>
MCVal == {v1, v2}
ValSymmetry == Permutations(MCVal)
=============================================================================
