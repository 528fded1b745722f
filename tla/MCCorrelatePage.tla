--------------------------- MODULE MCCorrelatePage ---------------------------
(* Two sumps, three acts of the user. *)
EXTENDS CorrelatePage, TLC

SumpSymmetry == Permutations(Sumps)
=============================================================================
