------------------------------ MODULE MCBrowser ------------------------------
(* Model-checking instances of Browser.                                      *)
EXTENDS Browser

\* What the theorems about the pages assume of the station and of the years.
ASSUME TheoremsApply ==
  /\ Width = 400 /\ Offset % Day = Hour
  /\ \A year \in Horizon \cup {localtime(Now).year} : ~OddYear(year)
=============================================================================
