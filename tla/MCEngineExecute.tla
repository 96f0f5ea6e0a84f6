--------------------------- MODULE MCEngineExecute ---------------------------
(* EngineExecute on the root, three tasks that are ready at once and two       *)
(* permits, and a task with two dependencies.                                  *)
EXTENDS EngineExecute, TLC

CONSTANTS root, lib, util, docs, web

MCNode == {root, lib, util, docs, web}

MCDeps == root :> {} @@ lib :> {root} @@ util :> {root}
          @@ docs :> {root} @@ web :> {lib, util}

MCRoot == {root}
=============================================================================
