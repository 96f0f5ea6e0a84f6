----------------------------- MODULE MCWatchLoop -----------------------------
(* An application that builds on a library, with a development server that *)
(* is restarted when the library was built and a database that is not.     *)
EXTENDS WatchLoop

CONSTANTS lib, app, libBuild, appBuild, appDev, appDb

MCPackageOf == [t \in Task |-> IF t = libBuild THEN lib ELSE app]
MCTaskDeps  == [t \in Task |-> IF t \in {appBuild, appDev} THEN {libBuild} ELSE {}]

\* The development server does not depend on the build of the library.
MCLooseDeps == [t \in Task |-> IF t = appBuild THEN {libBuild} ELSE {}]
=============================================================================
