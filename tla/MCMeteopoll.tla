---------------------------- MODULE MCMeteopoll ----------------------------
(* Model-checking instances of Meteopoll.                                  *)
EXTENDS Meteopoll
=============================================================================
