---------------------------- MODULE MCHashWatcher ----------------------------
(* A package with its default inputs, and others that cover a file which   *)
(* the repository ignores as well.                                         *)
EXTENDS HashWatcher

CONSTANTS default, extended, main, ignored

MCCovers == [i \in Input |-> IF i = default THEN {main} ELSE {main, ignored}]
=============================================================================
