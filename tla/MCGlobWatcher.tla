---------------------------- MODULE MCGlobWatcher ----------------------------
(* A task that registers twice, with a glob less and a path excluded the   *)
(* second time, and a run that asks.                                       *)
EXTENDS GlobWatcher

CONSTANTS build, dist, logs, bundle, log, first, again, ask

MCMatches    == [g \in Glob |-> IF g = dist THEN {bundle, log} ELSE {log}]
MCHashOf     == [r \in Registration |-> build]
MCGlobsOf    == [r \in Registration |-> IF r = first THEN {dist, logs} ELSE {dist}]
MCExcludedBy == [r \in Registration |-> IF r = again THEN {log} ELSE {}]
MCAskedFor   == [q \in Query |-> build]
=============================================================================
