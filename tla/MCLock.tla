------------------------------- MODULE MCLock -------------------------------
(* Model-checking instances of Lock.                                       *)
EXTENDS Lock
=============================================================================
