------------------------------- MODULE MCLink -------------------------------
(* Model-checking instances of StationLink.                                *)
EXTENDS StationLink
=============================================================================
