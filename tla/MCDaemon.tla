------------------------------ MODULE MCDaemon ------------------------------
(* A daemon of an older version runs; a run of the new version and a       *)
(* restart connect to it, and each may start its own.                      *)
EXTENDS Daemon

CONSTANTS old, one, two, run, restart

MCMatches == {run, restart} \X {one, two}
=============================================================================
