------------------------------- MODULE MCHost -------------------------------
(* Model-checking instances of Host.                                       *)
EXTENDS Host, TLC
Symmetry == Permutations(Pids) \cup Permutations(Fields)
=============================================================================
