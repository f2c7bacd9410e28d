---------------------------- MODULE MCPortPayments ----------------------------
(* Instances of PortPayments.  Calls, and payments' terms, differ by name   *)
(* only; the symmetry is used in the run without liveness.                  *)
EXTENDS PortPayments, TLC

MCSymmetry == Permutations(Requests) \cup Permutations(Shapes)
=============================================================================
