-------------------------- MODULE MCProcessManager --------------------------
(* ProcessManager with one task per child, and calls that overlap.           *)
EXTENDS ProcessManager, TLC

CONSTANTS build, dev

MCTaskOf == [c \in Child |-> c]

MCSymmetry == Permutations(Call)
=============================================================================
