----------------------------- MODULE MCDataPath -----------------------------
(* Model-checking instances of DataPath.                                   *)
EXTENDS DataPath

\* a preference nobody knows, then the queue, then the database itself
MCPreferences == <<"syslog", "msgqueue", "mysql">>
=============================================================================
