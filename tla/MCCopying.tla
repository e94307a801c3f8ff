------------------------------ MODULE MCCopying ------------------------------
(* Model-checking instances of Copying.                                     *)
EXTENDS Copying
MCUninitialized == {-1, 0, 2, 9}
MCBehind == [i \in Intervals |-> IF i = Stationdata THEN 0 ELSE 3]
=============================================================================
