------------------------------ MODULE MCWalker ------------------------------
(* Walker on a diamond with a second root: every shape of sharing that can   *)
(* make a node see a stopped and a closed dependency at once.                *)
EXTENDS Walker, TLC

CONSTANTS lib, util, app, web, docs

MCNode == {lib, util, app, web, docs}

MCDeps == lib :> {} @@ util :> {} @@ app :> {lib} @@ web :> {app, util}
          @@ docs :> {util}
=============================================================================
