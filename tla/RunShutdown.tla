----------------------------- MODULE RunShutdown -----------------------------
(***************************************************************************)
(* How `turbo run` ends: the command (crates/turborepo-lib/src/commands/   *)
(* run.rs), the run and its shutdown handlers (crates/turborepo-lib/src/   *)
(* run/mod.rs), on top of the signal handler.                              *)
(*                                                                         *)
(* The command waits for the run and for a signal.  The run builds its     *)
(* state, subscribes one handler that flushes the cache and one that stops *)
(* the processes, runs the tasks and stops the processes.  Both handlers   *)
(* are alerted when a signal arrives and when the command closes the       *)
(* signal handler after the run; a signal lets a second one, or a timeout  *)
(* if nobody is at the terminal, force them.                               *)
(*                                                                         *)
(* The tasks are one process, which the process manager treats as its      *)
(* contract says; TaskRun shows that the run ends once its processes have. *)
(* The cache is what AsyncCache promises: after shutdown_cache no upload   *)
(* starts, and it is closed when the uploads are through.  Cache writes    *)
(* are enabled and there is no proxy.                                      *)
(***************************************************************************)
EXTENDS SignalHandler

CONSTANTS CacheHandler, ProcessHandler,  \* subscribers
          CommandWait,                   \* the command's signal_started
          CommandClose                   \* the command's close

ASSUME RunShutdownAssumption ==
  /\ Subscriber = {CacheHandler, ProcessHandler}
  /\ CacheHandler # ProcessHandler
  /\ CommandWait \in SignalStarter
  /\ CommandClose \in Closer

VARIABLES
  interactive,  \* stdin is a terminal: no force_shutdown_timeout
  command,      \* where wait_for_run_cleanup_on_signal is
  run,          \* where the run future is
  process,      \* the processes of the tasks
  closed,       \* ProcessManagerInner::is_closing
  uploads,      \* what the run has put into the cache
  cache_closed, \* the cache was told to shut down
  handler       \* where each shutdown handler is

commandVars     == <<interactive, command>>
runVars         == <<run, process, closed, uploads, cache_closed>>
runShutdownVars == <<signalVars, commandVars, runVars, handler>>

(***************************************************************************)
(* command: "selecting"; "interrupted" awaiting the run after a signal;    *)
(*   "done" awaiting handler.done(); "closing" awaiting handler.close().   *)
(* run: "building"; "cache", "processes" before it subscribes that         *)
(*   handler; "ready"; "visiting"; "finished".                             *)
(* process: "running"; "graceful" interrupted without a deadline; "ending" *)
(*   interrupted with one, or killed; "gone".                              *)
(* handler: "listening"; "patient" nothing can force it; "forcible";       *)
(*   "forced" the cache handler gave up, the process handler kills; "done".*)
(***************************************************************************)
RunShutdownTypeOK ==
  /\ SignalTypeOK
  /\ interactive \in BOOLEAN
  /\ command \in {"selecting", "interrupted", "done", "closing", "exited"}
  /\ run \in {"building", "cache", "processes", "ready", "visiting", "finished"}
  /\ process \in {"none", "running", "graceful", "ending", "gone"}
  /\ closed \in BOOLEAN /\ cache_closed \in BOOLEAN
  /\ uploads \in {"none", "busy", "stored"}
  /\ handler \in [Subscriber -> {"listening", "patient", "forcible", "forced", "done"}]

RunShutdownInit ==
  /\ SignalInit
  /\ interactive \in BOOLEAN
  /\ command = "selecting"
  /\ run = "building"
  /\ process = "none"
  /\ closed = FALSE
  /\ uploads = "none"
  /\ cache_closed = FALSE
  /\ handler = [h \in Subscriber |-> "listening"]

Alive == process \in {"running", "graceful", "ending"}

\* The process of the tasks as the contract of the process manager has it, which
\* tells neither how long a close waits nor how the tasks ended.
SeenProcess ==
  CASE process \in {"graceful", "ending"} -> "closing"
    [] process = "gone"                   -> "zero"
    [] OTHER                              -> process

Contract == INSTANCE ProcessContract
            WITH Proc <- {"tasks"}, process <- [p \in {"tasks"} |-> SeenProcess]

-----------------------------------------------------------------------------
(* The signal handler and the signals.                                     *)

HandlerStep ==
  /\ \/ Worker
     \/ CloseSends(CommandClose) \/ CloseReturns(CommandClose)
     \/ WaitForStart(CommandWait) \/ CheckReason(CommandWait)
     \/ Park(CommandWait) \/ Wake(CommandWait)
  /\ UNCHANGED <<commandVars, runVars, handler>>

Signal ==
  /\ command # "exited"
  /\ \E i \in Source : SignalArrives(i)
  /\ UNCHANGED <<commandVars, runVars, handler>>

-----------------------------------------------------------------------------
(* The command: wait_for_run_cleanup_on_signal.                            *)

\* signal_started() resolves; the run is still polled.
CommandInterrupted ==
  /\ command = "selecting"
  /\ waiter[CommandWait] = "returned"
  /\ command' = "interrupted"
  /\ UNCHANGED <<signalVars, interactive, runVars, handler>>

\* The run ends first: handler.close().
CommandCompleted ==
  /\ command = "selecting"
  /\ run = "finished"
  /\ waiter[CommandWait] # "returned"
  /\ Close(CommandClose)
  /\ command' = "closing"
  /\ UNCHANGED <<interactive, runVars, handler>>

\* Mutant: the command exits as soon as the interrupted run ends.
CommandRunEndedUnguarded ==
  /\ command = "interrupted"
  /\ run = "finished"
  /\ command' = "exited"
  /\ UNCHANGED <<signalVars, interactive, runVars, handler>>

\* The interrupted run ends: handler.done().
CommandRunEnded ==
  /\ command = "interrupted"
  /\ run = "finished"
  /\ command' = "done"
  /\ UNCHANGED <<signalVars, interactive, runVars, handler>>

\* done resolves with the worker's end, close returns.
CommandExits ==
  /\ \/ command = "done" /\ worker = "done"
     \/ command = "closing" /\ closer[CommandClose] = "returned"
  /\ command' = "exited"
  /\ UNCHANGED <<signalVars, interactive, runVars, handler>>

Command == CommandInterrupted \/ CommandCompleted \/ CommandRunEnded \/ CommandExits

-----------------------------------------------------------------------------
(* The run future.                                                         *)

\* RunBuilder::build returns a run or an error.
Build ==
  /\ run = "building"
  /\ run' \in {"cache", "finished"}
  /\ UNCHANGED <<signalVars, commandVars, process, closed, uploads, cache_closed, handler>>

\* setup_cache_shutdown_handler, then setup_process_manager_shutdown_handler:
\* a refused subscriber is not installed.
SubscribeHandler(h, before, after) ==
  /\ run = before
  /\ Subscribe(h)
  /\ run' = after
  /\ UNCHANGED <<commandVars, process, closed, uploads, cache_closed, handler>>

\* The tasks are spawned, unless the process manager is closing.
StartTasks ==
  /\ run = "ready"
  /\ run' = "visiting"
  /\ process' = IF closed THEN "none" ELSE "running"
  /\ UNCHANGED <<signalVars, commandVars, closed, uploads, cache_closed, handler>>

\* The outputs of a task that succeeded are put into the cache.
SaveOutputs ==
  /\ run = "visiting"
  /\ uploads = "none"
  /\ ~cache_closed
  /\ uploads' = "busy"
  /\ UNCHANGED <<signalVars, commandVars, run, process, closed, cache_closed, handler>>

\* The tasks have ended; processes.stop() finds none.
RunEnds ==
  /\ run = "visiting"
  /\ ~Alive
  /\ run' = "finished"
  /\ closed' = TRUE
  /\ UNCHANGED <<signalVars, commandVars, process, uploads, cache_closed, handler>>

Run ==
  \/ Build
  \/ SubscribeHandler(CacheHandler, "cache", "processes")
  \/ SubscribeHandler(ProcessHandler, "processes", "ready")
  \/ StartTasks
  \/ RunEnds

\* The processes exit: by themselves or on SIGINT if they like, ...
ProcessExits ==
  /\ Alive
  /\ process' = "gone"
  /\ UNCHANGED <<signalVars, commandVars, run, closed, uploads, cache_closed, handler>>

UploadEnds ==
  /\ uploads = "busy"
  /\ uploads' = "stored"
  /\ UNCHANGED <<signalVars, commandVars, run, process, closed, cache_closed, handler>>

-----------------------------------------------------------------------------
(* The shutdown handlers.                                                  *)

Becomes(h, state) == handler' = [handler EXCEPT ![h] = state]

Alerted(h) == handler[h] = "listening" /\ sub[h] = "alerted"

\* The cache handler: shutdown_cache, then waits for closed.
CacheAlerted ==
  /\ Alerted(CacheHandler)
  /\ Becomes(CacheHandler, IF reason = "signal" THEN "forcible" ELSE "patient")
  /\ cache_closed' = TRUE
  /\ UNCHANGED <<signalVars, commandVars, run, process, closed, uploads>>

\* The guard is dropped with the handler's task.
CacheFlushed ==
  /\ handler[CacheHandler] \in {"patient", "forcible"}
  /\ uploads # "busy"
  /\ Release(CacheHandler)
  /\ Becomes(CacheHandler, "done")
  /\ UNCHANGED <<commandVars, runVars>>

\* Mutant: the first signal already forces the shutdown.
ForcedAtOnce == signals > 0 \/ ~interactive

\* wait_for_forced_shutdown resolves: a second signal, or the timeout.
Forced == signals > 1 \/ ~interactive

\* The cache handler does not wait any longer.
CacheForced ==
  /\ handler[CacheHandler] = "forcible"
  /\ Forced
  /\ Release(CacheHandler)
  /\ Becomes(CacheHandler, "forced")
  /\ UNCHANGED <<commandVars, runVars>>

\* The process handler: stop, or after a signal shutdown(None).
ProcessesAlerted ==
  /\ Alerted(ProcessHandler)
  /\ Becomes(ProcessHandler, IF reason = "signal" THEN "forcible" ELSE "patient")
  /\ closed' = TRUE
  /\ process' = IF process # "running" THEN process
                ELSE IF reason = "signal" THEN "graceful" ELSE "ending"
  /\ UNCHANGED <<signalVars, commandVars, run, uploads, cache_closed>>

\* Mutant: a forced shutdown does not kill.
ProcessesForcedGently ==
  /\ handler[ProcessHandler] = "forcible"
  /\ Forced
  /\ Becomes(ProcessHandler, "forced")
  /\ UNCHANGED <<signalVars, commandVars, runVars>>

\* kill_all
ProcessesForced ==
  /\ handler[ProcessHandler] = "forcible"
  /\ Forced
  /\ Becomes(ProcessHandler, "forced")
  /\ process' = IF Alive THEN "ending" ELSE process
  /\ UNCHANGED <<signalVars, commandVars, run, closed, uploads, cache_closed>>

\* The close the handler awaits has returned.
ProcessesStopped ==
  /\ handler[ProcessHandler] \in {"patient", "forcible", "forced"}
  /\ ~Alive
  /\ Release(ProcessHandler)
  /\ Becomes(ProcessHandler, "done")
  /\ UNCHANGED <<commandVars, runVars>>

Handler ==
  \/ CacheAlerted \/ CacheFlushed \/ CacheForced
  \/ ProcessesAlerted \/ ProcessesForced \/ ProcessesStopped

RunShutdownNext ==
  \/ HandlerStep \/ Signal
  \/ Command \/ Run \/ SaveOutputs
  \/ ProcessExits \/ UploadEnds
  \/ Handler

RunShutdownSpec == RunShutdownInit /\ [][RunShutdownNext]_runShutdownVars

\* tokio polls every task that was woken and fires every timer.  A process ends
\* for certain only if it was interrupted with a deadline, or killed; neither
\* the tasks nor the uploads have to end by themselves.
RunShutdownFairness ==
  /\ WF_runShutdownVars(HandlerStep)
  /\ WF_runShutdownVars(Command)
  /\ WF_runShutdownVars(Run)
  /\ WF_runShutdownVars(process = "ending" /\ ProcessExits)
  /\ WF_runShutdownVars(CacheAlerted)
  /\ WF_runShutdownVars(CacheFlushed)
  /\ WF_runShutdownVars(CacheForced)
  /\ WF_runShutdownVars(ProcessesAlerted)
  /\ WF_runShutdownVars(ProcessesForced)
  /\ WF_runShutdownVars(ProcessesStopped)

FairRunShutdownSpec == RunShutdownSpec /\ RunShutdownFairness

-----------------------------------------------------------------------------
(* Properties.                                                             *)

Admitted(h) == sub[h] \in {"waiting", "alerted", "released"}

\* When the command exits, whichever of the run, a signal and a close was first,
\* no process of the run is alive, and what it put into the cache is stored, if
\* the cache handler was admitted and nobody forced it.
ExitedMeansClean ==
  command = "exited" =>
    /\ ~Alive
    /\ Admitted(CacheHandler) /\ handler[CacheHandler] # "forced" => uploads # "busy"

\* Nobody is forced by a single signal at a terminal, or without a signal.
ForcedOnlyOnRequest ==
  (\E h \in Subscriber : handler[h] = "forced") =>
    reason = "signal" /\ (arrived > 1 \/ ~interactive)

\* A second signal, or the timeout, ends the command, whatever the processes and
\* the uploads do, if both handlers were there for the first one.
ForceEndsCommand ==
  /\ reason = "signal"
  /\ Forced
  /\ \A h \in Subscriber : Admitted(h)
  ~> command = "exited"

\* crates/turborepo-signals/README.md:24, "The first signal starts cleanup": a
\* run that is interrupted stops its tasks.
FirstSignalStartsCleanup ==
  reason = "signal" ~> closed \/ command = "exited"
=============================================================================
