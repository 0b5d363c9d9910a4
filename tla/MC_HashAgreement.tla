-------------------------- MODULE MC_HashAgreement --------------------------
(***************************************************************************)
(* Both sponges over a field of 13 elements: every key of a word of 8      *)
(* values, coordinates on both sides of the origin and past the word.      *)
(***************************************************************************)
EXTENDS HashAgreement

MC_C == <<0, 5, 11>>

MC_Coordinates == {-9, -8, -1, 0, 1, 6, 11}
=============================================================================
