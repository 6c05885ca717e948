------------------------------ MODULE MCHandoff ------------------------------
(* TLC instances of WorkloadHandoff. *)
EXTENDS WorkloadHandoff, TLC

Symmetry == Permutations(Disp) \cup Permutations(Rec)
=============================================================================
