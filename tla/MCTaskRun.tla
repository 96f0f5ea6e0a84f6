------------------------------ MODULE MCTaskRun ------------------------------
(* TaskRun on a task with a dependent and a persistent task beside them.      *)
EXTENDS TaskRun, TLC

CONSTANTS lib, app, dev

MCTask == {lib, app, dev}

MCDeps == lib :> {} @@ app :> {lib} @@ dev :> {}

MCPersistent == {dev}

MCRunOpts == (ContinueMode \X {FALSE}) \cup {<<"dependencies", TRUE>>}

MCSerial == {lib, dev}
=============================================================================
