----------------------------- MODULE MCAverager -----------------------------
(* Averager with an interval of two units, and one of four, for TLC.       *)
EXTENDS Averager, TLC

TheAverage == [tk |-> 2, intval |-> 2]

Symmetry == Permutations(Runs)
=============================================================================
