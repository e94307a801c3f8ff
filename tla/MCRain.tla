------------------------------- MODULE MCRain -------------------------------
(* Model-checking instances of RainRecorder.                               *)
EXTENDS RainRecorder
=============================================================================
