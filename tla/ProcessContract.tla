--------------------------- MODULE ProcessContract ---------------------------
(***************************************************************************)
(* What the process manager (crates/turborepo-process) promises those who  *)
(* run tasks with it, one process each, of which they see how it ended and *)
(* who had it stopped.                                                     *)
(*                                                                         *)
(* A close refuses spawns from then on and reaches every process that      *)
(* stop_tasks has not taken.  A process ends by itself or because it was   *)
(* told to, and one that no call has reached is never interrupted.  A call *)
(* returns when the processes it is for have ended.                        *)
(*                                                                         *)
(* ProcessManager implements this; TaskRun and RunShutdown build on it.    *)
(***************************************************************************)
CONSTANT Proc

VARIABLES process,   \* the process of each Proc
          closed     \* ProcessManagerInner::is_closing

contractVars == <<process, closed>>

(***************************************************************************)
(* process: "running"; "closing" reached by a close, which sets            *)
(*   Child::closing and tells it to end unless it only waits; "stopping"   *)
(*   told to end by stop_tasks; "zero", "nonzero" exited by itself;        *)
(*   "shutdown", "restarted" interrupted or killed after the one or the    *)
(*   other.                                                                *)
(***************************************************************************)
ProcessState == {"none", "running", "closing", "stopping", "zero", "nonzero",
                 "shutdown", "restarted"}

Alive(p) == process[p] \in {"running", "closing", "stopping"}

ContractInit ==
  /\ process = [p \in Proc |-> "none"]
  /\ closed = FALSE

Spawn(p) ==
  /\ ~closed
  /\ process[p] = "none"
  /\ process' = [process EXCEPT ![p] = "running"]
  /\ UNCHANGED closed

\* A close begins, under the manager's mutex, ...
Close ==
  /\ closed' = TRUE
  /\ process' = [p \in Proc |-> IF process[p] = "running" THEN "closing"
                                                          ELSE process[p]]

\* ... and returns when the children it found have ended.
CloseReturns == \A p \in Proc : process[p] \notin {"running", "closing"}

\* A stop_tasks for the processes P begins, ...
StopTasks(P) ==
  /\ ~closed
  /\ process' = [p \in Proc |-> IF p \in P /\ process[p] = "running" THEN "stopping"
                                                                     ELSE process[p]]
  /\ UNCHANGED closed

\* ... and returns when they have ended.
StopReturns(P) == \A p \in P : ~Alive(p)

\* A process ends by itself; "nonzero" stands for every exit but success.
Exits(p) ==
  /\ Alive(p)
  /\ \E how \in {"zero", "nonzero"} : process' = [process EXCEPT ![p] = how]
  /\ UNCHANGED closed

\* A process is interrupted or killed, as someone asked.
Stopped(p) ==
  /\ \/ /\ process[p] = "closing"
        /\ process' = [process EXCEPT ![p] = "shutdown"]
     \/ /\ process[p] = "stopping"
        /\ process' = [process EXCEPT ![p] = "restarted"]
  /\ UNCHANGED closed

ContractNext ==
  \/ \E p \in Proc : Spawn(p) \/ Exits(p) \/ Stopped(p)
  \/ Close
  \/ \E P \in SUBSET Proc : StopTasks(P)

ContractSpec == ContractInit /\ [][ContractNext]_contractVars
=============================================================================
