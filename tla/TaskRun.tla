------------------------------- MODULE TaskRun -------------------------------
(***************************************************************************)
(* The run of the tasks: Visitor::visit (crates/turborepo-lib/src/         *)
(* task_graph/visitor/mod.rs), one TaskExecutor per task (crates/          *)
(* turborepo-task-executor/src/exec.rs) and the end of                     *)
(* Run::execute_visitor (crates/turborepo-lib/src/run/mod.rs).             *)
(*                                                                         *)
(* The engine is its abstract schedule, which EngineExecute implements.    *)
(* The process manager is its contract, which ProcessManager implements: a *)
(* close refuses later spawns, marks the children it finds as closing, has *)
(* them interrupted and waits for them; stop_tasks (watch mode) does so    *)
(* for some tasks, without the mark.                                       *)
(*                                                                         *)
(* What the outside decides: commands exit as they like, the cache hits or *)
(* misses, any operation that returns a Result may fail, and a signal may  *)
(* close the process manager at any time.                                  *)
(***************************************************************************)
EXTENDS TaskSchedule

CONSTANTS Persistent,   \* TaskDefinition::persistent
          SerialGroup,  \* the tasks whose command is in the one serial group
          RunOpts       \* the pairs <<continue_on_error, is_watch>> considered

ContinueMode == {"never", "dependencies", "always"}

ASSUME TaskRunAssumption ==
  /\ TaskDeps \in [Task -> SUBSET Task]
  /\ Persistent \subseteq Task
  /\ SerialGroup \subseteq Task
  /\ RunOpts \subseteq ContinueMode \X BOOLEAN
  /\ Limit \in Nat \ {0}

\* Engine::execute returned CyclicTaskGraph otherwise.
ASSUME TaskRunAcyclic ==
  \A S \in SUBSET Task : S # {} => \E t \in S : TaskDeps[t] \cap S = {}

VARIABLES
  continue,   \* RunOpts::continue_on_error
  is_watch,   \* Visitor::is_watch
  visitor,    \* where visit, and the caller after it, is
  dispatch_error,
  exec,       \* where the executor of each task is
  outcome,    \* what execute_inner returned
  process,    \* the process of each task, and who had it stopped
  closed,     \* ProcessManagerInner::is_closing
  interrupted,  \* a signal closed the process manager
  errors,     \* the tasks that pushed a TaskError
  saved       \* the tasks whose outputs were put into the cache

execVars    == <<exec, outcome, process, closed, errors, saved>>
optionVars  == <<continue, is_watch>>
visitVars   == <<visitor, dispatch_error>>
taskRunVars == <<scheduleVars, execVars, visitVars, optionVars, interrupted>>

(***************************************************************************)
(* visitor: "dispatching" the recv loop; "draining" the engine and then    *)
(*   the tasks; "stop" awaiting processes.stop(); "zero", "nonzero"        *)
(*   returned this exit code; "error" returned Err.                        *)
(* exec: "none" not spawned; "restore"; "lock" awaiting the serial group;  *)
(*   "spawn"; "wait" piping the outputs; "report"; "save"; "end" before    *)
(*   manager.stop(); "stop" awaiting it; "ended".                          *)
(* outcome: "hit", "run": ExecOutcome::Success; "task", "shutdown",        *)
(*   "restarted"; "err": Err(InternalError); "skipped": the task has no    *)
(*   command.                                                              *)
(* process: as in ProcessContract.                                         *)
(***************************************************************************)
Contract == INSTANCE ProcessContract WITH Proc <- Task

Visiting     == {"dispatching", "draining", "stop"}
RunOver      == visitor \in {"zero", "nonzero", "error"}
Alive(t)     == Contract!Alive(t)
Detached(t)  == is_watch /\ t \in Persistent

TaskRunTypeOK ==
  /\ status \in [Task -> Status] /\ over \in BOOLEAN /\ left \in BOOLEAN
  /\ continue \in ContinueMode /\ is_watch \in BOOLEAN
  /\ visitor \in Visiting \cup {"zero", "nonzero", "error"}
  /\ dispatch_error \in BOOLEAN
  /\ exec \in [Task -> {"none", "restore", "lock", "spawn", "wait", "report",
                        "save", "end", "stop", "ended"}]
  /\ outcome \in [Task -> {"none", "hit", "run", "task", "shutdown",
                           "restarted", "err", "skipped"}]
  /\ process \in [Task -> Contract!ProcessState]
  /\ closed \in BOOLEAN /\ interrupted \in BOOLEAN
  /\ errors \subseteq Task /\ saved \subseteq Task

TaskRunInit ==
  /\ ScheduleInit
  /\ \E opts \in RunOpts : continue = opts[1] /\ is_watch = opts[2]
  /\ visitor = "dispatching"
  /\ dispatch_error = FALSE
  /\ exec = [t \in Task |-> "none"]
  /\ outcome = [t \in Task |-> "none"]
  /\ Contract!ContractInit
  /\ interrupted = FALSE
  /\ errors = {}
  /\ saved = {}

-----------------------------------------------------------------------------
(* The engine, in its own task.                                            *)

EngineStep ==
  /\ (\E t \in Task : Start(t)) \/ (~over /\ Finished)
  /\ UNCHANGED <<execVars, visitVars, optionVars, interrupted>>

\* The tasks in the channel to the visitor.
Queued == {t \in Active : exec[t] = "none"}

-----------------------------------------------------------------------------
(* Visitor::visit.                                                         *)

\* The message is answered by the executor.
Dispatch(t) ==
  /\ ~Detached(t)
  /\ exec' = [exec EXCEPT ![t] = "restore"]
  /\ UNCHANGED <<status, outcome>>

\* A persistent task of a watch run is answered at once and left to itself.
DispatchDetached(t) ==
  /\ Detached(t)
  /\ Finish({t}, "succeeded")
  /\ exec' = [exec EXCEPT ![t] = "restore"]
  /\ UNCHANGED outcome

\* exec_context returned None: the callback is dropped.
DispatchNothing(t) ==
  /\ Finish({t}, "succeeded")
  /\ exec' = [exec EXCEPT ![t] = "ended"]
  /\ outcome' = [outcome EXCEPT ![t] = "skipped"]

\* node_stream.recv() yields t.
Receive(t) ==
  /\ visitor = "dispatching"
  /\ t \in Queued
  /\ Dispatch(t) \/ DispatchDetached(t) \/ DispatchNothing(t)
  /\ UNCHANGED <<over, left, process, closed, errors, saved,
                 visitVars, optionVars, interrupted>>

\* Mutant: the stream is not dropped when a task cannot be dispatched.
DispatchFailsKeepsStream(t) ==
  /\ visitor = "dispatching"
  /\ t \in Queued
  /\ Finish({t}, "succeeded") /\ UNCHANGED <<over, left>>
  /\ dispatch_error' = TRUE
  /\ visitor' = "draining"
  /\ exec' = [exec EXCEPT ![t] = "ended"]
  /\ UNCHANGED <<outcome, process, closed, errors, saved, optionVars, interrupted>>

\* A task cannot be dispatched: break drops its callback, drop(node_stream)
\* those of the messages left in the channel.
DispatchFails(t) ==
  /\ visitor = "dispatching"
  /\ t \in Queued
  /\ Leave(Queued)
  /\ dispatch_error' = TRUE
  /\ visitor' = "draining"
  /\ UNCHANGED <<execVars, optionVars, interrupted>>

\* node_stream.recv() yields None: the engine has dropped its sender.
StreamEnds ==
  /\ visitor = "dispatching"
  /\ over
  /\ Leave({})
  /\ visitor' = "draining"
  /\ UNCHANGED <<execVars, dispatch_error, optionVars, interrupted>>

Joined == {t \in Task : exec[t] # "none" /\ ~Detached(t)}

Failing == dispatch_error \/ \E t \in Joined : outcome[t] = "err"

ExitCode == IF errors = {} THEN "zero" ELSE "nonzero"

\* What follows visit: on an error execute_visitor returns it.  Otherwise the
\* exit code is settled and, but for a watch run, processes.stop() begins.
Settle ==
  \/ /\ Failing
     /\ visitor' = "error"
     /\ UNCHANGED <<process, closed>>
  \/ /\ ~Failing /\ is_watch
     /\ visitor' = ExitCode
     /\ UNCHANGED <<process, closed>>
  \/ /\ ~Failing /\ ~is_watch
     /\ visitor' = "stop"
     /\ Contract!Close

\* Mutant: a dispatch error is returned without draining the tasks.
TasksDrainedOnSuccess ==
  /\ visitor = "draining"
  /\ over
  /\ dispatch_error \/ \A t \in Joined : exec[t] = "ended"
  /\ Settle
  /\ UNCHANGED <<scheduleVars, exec, outcome, errors, saved,
                 dispatch_error, optionVars, interrupted>>

\* The engine and all tasks have been joined.
TasksDrained ==
  /\ visitor = "draining"
  /\ over
  /\ \A t \in Joined : exec[t] = "ended"
  /\ Settle
  /\ UNCHANGED <<scheduleVars, exec, outcome, errors, saved,
                 dispatch_error, optionVars, interrupted>>

ProcessesStopped ==
  /\ visitor = "stop"
  /\ Contract!CloseReturns
  /\ visitor' = ExitCode
  /\ UNCHANGED <<scheduleVars, execVars, dispatch_error, optionVars, interrupted>>

Visit ==
  \/ \E t \in Task : Receive(t) \/ DispatchFails(t)
  \/ StreamEnds
  \/ TasksDrained
  \/ ProcessesStopped

-----------------------------------------------------------------------------
(* TaskExecutor::execute.                                                  *)

Goes(t, to) == exec' = [exec EXCEPT ![t] = to]

\* execute_inner returns result; TaskError is pushed for a failed task.
Returns(t, result) ==
  /\ Goes(t, "report")
  /\ outcome' = [outcome EXCEPT ![t] = result]
  /\ errors' = IF result = "task" THEN errors \cup {t} ELSE errors

\* restore_outputs: a hit, or a miss, or an error that counts as a miss.
Restore(t) ==
  /\ exec[t] = "restore"
  /\ \/ Returns(t, "hit")
     \/ /\ Goes(t, IF t \in SerialGroup THEN "lock" ELSE "spawn")
        /\ UNCHANGED <<outcome, errors>>
  /\ UNCHANGED <<status, process, closed, saved>>

LockHolder == {t \in SerialGroup : exec[t] \in {"spawn", "wait"}}

\* serial_group_lock(group).lock_owned().await; execute_inner holds the guard
\* until it returns.
TakeSerialLock(t) ==
  /\ exec[t] = "lock"
  /\ LockHolder = {}
  /\ Goes(t, "spawn")
  /\ UNCHANGED <<status, outcome, process, closed, errors, saved>>

\* Mutant: the error of a failed spawn is not collected.
SpawnUncollected(t) ==
  /\ exec[t] = "spawn"
  /\ \/ /\ closed
        /\ Returns(t, "shutdown")
        /\ UNCHANGED <<process, closed>>
     \/ /\ ~closed
        /\ Goes(t, "report")
        /\ outcome' = [outcome EXCEPT ![t] = "task"]
        /\ UNCHANGED <<process, closed, errors>>
     \/ /\ Contract!Spawn(t)
        /\ Goes(t, "wait")
        /\ UNCHANGED <<outcome, errors>>
  /\ UNCHANGED <<status, saved>>

\* manager.spawn: refused, failed, or a process.
Spawn(t) ==
  /\ exec[t] = "spawn"
  /\ \/ /\ closed
        /\ Returns(t, "shutdown")
        /\ UNCHANGED <<process, closed>>
     \/ /\ ~closed
        /\ Returns(t, "task")
        /\ UNCHANGED <<process, closed>>
     \/ /\ Contract!Spawn(t)
        /\ Goes(t, "wait")
        /\ UNCHANGED <<outcome, errors>>
  /\ UNCHANGED <<status, saved>>

\* wait_with_piped_outputs tells how the process ended.
ProcessEnded(t) ==
  /\ exec[t] = "wait"
  /\ CASE process[t] = "zero"    -> Returns(t, "run")
       [] process[t] = "nonzero" -> Returns(t, "task")
       [] process[t] \in {"shutdown", "restarted"} -> Returns(t, process[t])
       [] OTHER -> FALSE
  /\ UNCHANGED <<status, process, closed, saved>>

\* The outputs cannot be captured or piped, or the exit is not known: the
\* process may still be running.
PipeFails(t) ==
  /\ exec[t] = "wait"
  /\ Returns(t, "err")
  /\ UNCHANGED <<status, process, closed, saved>>

\* Mutant: only --continue=never stops the dependents of a failed task.
VerdictLenient(o) ==
  CASE o \in {"hit", "run"}      -> "succeeded"
    [] o = "task"                -> IF continue = "never" THEN "halted" ELSE "succeeded"
    [] o \in {"shutdown", "err"} -> "halted"
    [] o = "restarted"           -> "failed"

\* What the callback tells the engine; stop_execution_for_task_error.
Verdict(o) ==
  CASE o \in {"hit", "run"}      -> "succeeded"
    [] o = "task"                -> [always       |-> "succeeded",
                                     dependencies |-> "failed",
                                     never        |-> "halted"][continue]
    [] o \in {"shutdown", "err"} -> "halted"
    [] o = "restarted"           -> "failed"

\* The run is to end with this outcome.
StopsManager(t) ==
  outcome[t] \in {"shutdown", "err"} \/ (outcome[t] = "task" /\ continue = "never")

\* callback.send(..); that of a detached task goes nowhere.
Report(t) ==
  /\ exec[t] = "report"
  /\ IF Detached(t) THEN UNCHANGED status ELSE Finish({t}, Verdict(outcome[t]))
  /\ Goes(t, CASE outcome[t] = "run" -> "save"
               [] StopsManager(t)     -> "end"
               [] OTHER               -> "ended")
  /\ UNCHANGED <<outcome, process, closed, errors, saved>>

\* save_outputs; the task may not be cached, and a failure is only logged.
Save(t) ==
  /\ exec[t] = "save"
  /\ saved' = saved \cup {t}
  /\ Goes(t, "ended")
  /\ UNCHANGED <<status, outcome, process, closed, errors>>

\* The tracker has been told; manager.stop() begins.
EndTask(t) ==
  /\ exec[t] = "end"
  /\ Goes(t, "stop")
  /\ Contract!Close
  /\ UNCHANGED <<status, outcome, errors, saved>>

StopReturns(t) ==
  /\ exec[t] = "stop"
  /\ Contract!CloseReturns
  /\ Goes(t, "ended")
  /\ UNCHANGED <<status, outcome, process, closed, errors, saved>>

Execute(t) ==
  /\ \/ Restore(t)
     \/ TakeSerialLock(t)
     \/ Spawn(t)
     \/ ProcessEnded(t)
     \/ PipeFails(t)
     \/ Report(t)
     \/ Save(t)
     \/ EndTask(t)
     \/ StopReturns(t)
  /\ UNCHANGED <<over, left, visitVars, optionVars, interrupted>>

-----------------------------------------------------------------------------
(* The processes and the outside.                                          *)

\* A process ends, by itself or because it was told to.
ProcessExits(t) ==
  /\ Contract!Exits(t)
  /\ UNCHANGED <<scheduleVars, exec, outcome, errors, saved,
                 visitVars, optionVars, interrupted>>

ProcessStopped(t) ==
  /\ Contract!Stopped(t)
  /\ UNCHANGED <<scheduleVars, exec, outcome, errors, saved,
                 visitVars, optionVars, interrupted>>

\* A handler of signals (or the watch coordinator) closes the process manager.
Interrupt ==
  /\ ~RunOver
  /\ ~interrupted
  /\ interrupted' = TRUE
  /\ Contract!Close
  /\ UNCHANGED <<scheduleVars, exec, outcome, errors, saved,
                 visitVars, optionVars>>

\* The watch coordinator restarts some tasks: stop_tasks.
StopTask(t) ==
  /\ is_watch
  /\ Contract!StopTasks({t})
  /\ UNCHANGED <<scheduleVars, exec, outcome, errors, saved,
                 visitVars, optionVars, interrupted>>

TaskRunNext ==
  \/ EngineStep
  \/ Visit
  \/ \E t \in Task : Execute(t) \/ ProcessExits(t) \/ ProcessStopped(t) \/ StopTask(t)
  \/ Interrupt

TaskRunSpec == TaskRunInit /\ [][TaskRunNext]_taskRunVars

\* tokio polls every task that was woken; a process that is interrupted ends,
\* at the latest killed after its timeout.  No process has to end by itself.
TaskRunFairness ==
  /\ WF_taskRunVars(EngineStep)
  /\ WF_taskRunVars(Visit)
  /\ \A t \in Task : WF_taskRunVars(Execute(t)) /\ WF_taskRunVars(ProcessStopped(t))

FairTaskRunSpec == TaskRunSpec /\ TaskRunFairness

-----------------------------------------------------------------------------
(* Properties.                                                             *)

\* The exit code is the truth: unless it was interrupted, a run of the command
\* returns 0 exactly if every task of the graph was run, restored or had no
\* command, and an exit code other than 0 exactly if a task failed.
ExitCodeTellsTruth ==
  ~is_watch /\ ~interrupted =>
    /\ visitor = "zero" => \A t \in Task : outcome[t] \in {"hit", "run", "skipped"}
    /\ visitor = "nonzero" => \E t \in Task : outcome[t] = "task"

\* When a run of the command returns, with an exit code or an error, no process
\* of it is alive, and no executor can still spawn one or save its outputs.
NothingOutlivesRun ==
  RunOver /\ ~is_watch =>
    \A t \in Task : ~Alive(t) /\ exec[t] \in {"none", "ended"}

\* With --continue=dependencies-successful the outputs of a task are saved only
\* if none of its dependencies failed or was stopped.
SavedAfterDependencies ==
  continue = "dependencies" => \A t \in saved : \A d \in TaskDeps[t] :
    Detached(d) \/ outcome[d] \notin {"task", "restarted", "shutdown"}

HaltRequested == closed \/ \E t \in Task : outcome[t] # "none" /\ StopsManager(t)

\* A run that is interrupted, or in which a task fails under --continue=never,
\* returns, whatever commands refuse to end by themselves.
HaltEndsRun == HaltRequested ~> RunOver

\* The comment on the serial group (exec.rs:392): its commands "run one at a
\* time", the guard "is held until the process exits".
SerialGroupRunsAlone ==
  \A s, t \in SerialGroup : Alive(s) /\ Alive(t) => s = t
=============================================================================
