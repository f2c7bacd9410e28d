----------------------------- MODULE MCHighValue -----------------------------
(* Values of the constants for model checking HighValue.                   *)
EXTENDS HighValue, TLC

MCSymmetry == Permutations(Decisions)
=============================================================================
