---------------------------- MODULE TaskSchedule ----------------------------
(***************************************************************************)
(* What the engine promises about the order of tasks, without its walker,  *)
(* workers, permits and channels: a task starts once, after all of its     *)
(* dependencies ended well, next to at most Limit - 1 others; nothing is   *)
(* running when the run is over, and nothing starts afterwards.  The run   *)
(* is over only when no task can start any more, unless a task halted it   *)
(* or the visitor left.                                                    *)
(*                                                                         *)
(* A task may be started after its dependency halted the run: stopping is  *)
(* best effort (see NoTaskSentAfterStop in EngineExecute).                 *)
(***************************************************************************)
EXTENDS Naturals, FiniteSets

CONSTANTS Task, TaskDeps, Limit

VARIABLES status, over,
          left      \* the visitor dropped its receiver

scheduleVars == <<status, over, left>>

Status  == {"waiting", "running", "succeeded", "failed", "halted"}
Outcome == {"succeeded", "failed", "halted"}
Active  == {t \in Task : status[t] = "running"}

ScheduleInit ==
  /\ status = [t \in Task |-> "waiting"]
  /\ over = FALSE
  /\ left = FALSE

Start(t) ==
  /\ ~over /\ ~left
  /\ status[t] = "waiting"
  /\ \A d \in TaskDeps[t] : status[d] \in {"succeeded", "halted"}
  /\ Cardinality(Active) < Limit
  /\ status' = [status EXCEPT ![t] = "running"]
  /\ UNCHANGED <<over, left>>

\* Some running tasks end with the same outcome.
Finish(S, outcome) ==
  /\ S \subseteq Active
  /\ status' = [t \in Task |-> IF t \in S THEN outcome ELSE status[t]]

\* The tasks on their way to the visitor count as done when it leaves.
Leave(S) ==
  /\ ~left
  /\ Finish(S, "succeeded")
  /\ left' = TRUE
  /\ UNCHANGED over

Undisturbed == ~left /\ \A t \in Task : status[t] # "halted"

Finished ==
  /\ Active = {}
  /\ Undisturbed => \A t \in Task : status[t] = "waiting" =>
       \E d \in TaskDeps[t] : status[d] # "succeeded"
  /\ over' = TRUE
  /\ UNCHANGED <<status, left>>

ScheduleNext ==
  \/ \E t \in Task : Start(t)
  \/ \E S \in SUBSET Task, o \in Outcome : Finish(S, o) /\ UNCHANGED <<over, left>>
  \/ \E S \in SUBSET Task : Leave(S)
  \/ Finished

ScheduleSpec == ScheduleInit /\ [][ScheduleNext]_scheduleVars
=============================================================================
