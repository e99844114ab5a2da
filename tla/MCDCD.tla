------------------------------- MODULE MCDCD -------------------------------
(* Instances of DCD for TLC.                                               *)
EXTENDS DCD, TLC

Symmetry == Permutations(Values)
=============================================================================
