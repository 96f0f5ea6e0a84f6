--------------------------- MODULE ProcessManager ---------------------------
(***************************************************************************)
(* The process manager of crates/turborepo-process/src/lib.rs.             *)
(*                                                                         *)
(* spawn, close (behind stop, shutdown, kill_all and wait) and stop_tasks  *)
(* share a state under a mutex.  close and stop_tasks command the children *)
(* and await their exits outside the mutex, with one spawned future per    *)
(* child, so that any number of them overlap with each other, with spawns  *)
(* and with processes that exit.                                           *)
(***************************************************************************)
EXTENDS ChildProcess

CONSTANTS Task, TaskOf,   \* TaskOf[c]: the task id c is spawned for
          Call            \* the calls of close and stop_tasks ever made

ASSUME ManagerAssumption == TaskOf \in [Child -> Task]

VARIABLES
  is_closing,  \* ProcessManagerInner::is_closing
  children,    \* the children in ProcessManagerInner::children
  closing,     \* Child::closing of each child
  mode,        \* what each call is: "none" before it is made
  returned,    \* the calls that have returned
  closer       \* closer[k][c]: the future call k spawned for child c

managerVars == <<is_closing, children, closing, mode, returned, closer>>
processVars == <<childVars, managerVars>>

(***************************************************************************)
(* mode: the CloseMode, "stop" standing for Stop and Shutdown(Some(t)),    *)
(*   which send the same command, "shutdown" for Shutdown(None); "tasks"   *)
(*   is a call of stop_tasks.                                              *)
(* closer: "none" not spawned; "send" sending its command; "wait" awaiting *)
(*   the exit; "done".                                                     *)
(***************************************************************************)
CloseMode   == {"stop", "shutdown", "kill", "wait"}
Mode        == CloseMode \cup {"tasks"}
CloserState == {"none", "send", "wait", "done"}

\* Mutant: stop_tasks shuts its children down without a deadline.
CommandOfUntimed(m) == CASE m = "stop"                 -> "timed"
                         [] m \in {"shutdown", "tasks"} -> "untimed"
                         [] m = "kill"                 -> "kill"

CommandOf(m) == CASE m \in {"stop", "tasks"} -> "timed"
                  [] m = "shutdown"          -> "untimed"
                  [] m = "kill"              -> "kill"

ManagerTypeOK ==
  /\ ChildTypeOK
  /\ is_closing \in BOOLEAN
  /\ children \subseteq Child
  /\ closing \in [Child -> BOOLEAN]
  /\ mode \in [Call -> Mode \cup {"none"}]
  /\ returned \subseteq Call
  /\ closer \in [Call -> [Child -> CloserState]]

ManagerInit ==
  /\ ChildInit
  /\ is_closing = FALSE
  /\ children = {}
  /\ closing = [c \in Child |-> FALSE]
  /\ mode = [k \in Call |-> "none"]
  /\ returned = {}
  /\ closer = [k \in Call |-> [c \in Child |-> "none"]]

-----------------------------------------------------------------------------
(* spawn.  Refused spawns change nothing.                                  *)

\* Mutant: spawn does not look at is_closing.
SpawnUnchecked(c) ==
  /\ SpawnChild(c)
  /\ children' = children \cup {c}
  /\ UNCHANGED <<is_closing, closing, mode, returned, closer>>

Spawn(c) ==
  /\ ~is_closing
  /\ SpawnChild(c)
  /\ children' = children \cup {c}
  /\ UNCHANGED <<is_closing, closing, mode, returned, closer>>

-----------------------------------------------------------------------------
(* close and stop_tasks: the part under the mutex.                         *)

Closers(S, state) == [c \in Child |-> IF c \in S THEN state ELSE "none"]

BeginClose(k, m) ==
  /\ mode[k] = "none"
  /\ m \in CloseMode
  /\ mode' = [mode EXCEPT ![k] = m]
  /\ is_closing' = TRUE
  /\ closing' = [c \in Child |-> closing[c] \/ c \in children]
  /\ closer' = [closer EXCEPT ![k] =
                  Closers(children, IF m = "wait" THEN "wait" ELSE "send")]
  /\ UNCHANGED <<childVars, children, returned>>

\* Mutant: stop_tasks does not look at is_closing.
BeginStopTasksUnchecked(k, T) ==
  /\ mode[k] = "none"
  /\ mode' = [mode EXCEPT ![k] = "tasks"]
  /\ LET stopped == {c \in children : TaskOf[c] \in T}
     IN  /\ children' = children \ stopped
         /\ closer' = [closer EXCEPT ![k] = Closers(stopped, "send")]
  /\ UNCHANGED <<childVars, is_closing, closing, returned>>

\* stop_tasks returns at once when the manager is closing.
BeginStopTasks(k, T) ==
  /\ mode[k] = "none"
  /\ mode' = [mode EXCEPT ![k] = "tasks"]
  /\ \/ /\ is_closing
        /\ returned' = returned \cup {k}
        /\ UNCHANGED <<children, closer>>
     \/ /\ ~is_closing
        /\ LET stopped == {c \in children : TaskOf[c] \in T}
           IN  /\ children' = children \ stopped
               /\ closer' = [closer EXCEPT ![k] = Closers(stopped, "send")]
        /\ UNCHANGED returned
  /\ UNCHANGED <<childVars, is_closing, closing>>

-----------------------------------------------------------------------------
(* The spawned futures: Child::stop, shutdown, kill and wait.              *)

CloserSends(k, c) ==
  /\ closer[k][c] = "send"
  /\ SendCommand(c, CommandOf(mode[k]))
  /\ closer' = [closer EXCEPT ![k][c] = "wait"]
  /\ UNCHANGED <<is_closing, children, closing, mode, returned>>

CloserEnds(k, c) ==
  /\ closer[k][c] = "wait"
  /\ ExitKnown(c)
  /\ closer' = [closer EXCEPT ![k][c] = "done"]
  /\ UNCHANGED <<childVars, is_closing, children, closing, mode, returned>>

\* set.join_next() yields None; close then clears the children.
Return(k) ==
  /\ mode[k] # "none"
  /\ k \notin returned
  /\ \A c \in Child : closer[k][c] \in {"none", "done"}
  /\ returned' = returned \cup {k}
  /\ children' = IF mode[k] = "tasks" THEN children ELSE {}
  /\ UNCHANGED <<childVars, is_closing, closing, mode, closer>>

ManagerStep ==
  \/ \E c \in Child : Spawn(c)
  \/ \E k \in Call, m \in CloseMode : BeginClose(k, m)
  \/ \E k \in Call, T \in SUBSET Task : BeginStopTasks(k, T)
  \/ \E k \in Call, c \in Child : CloserSends(k, c) \/ CloserEnds(k, c)
  \/ \E k \in Call : Return(k)

ChildStep ==
  /\ \E c \in Child : ProcessStep(c) \/ Actor(c)
  /\ UNCHANGED managerVars

ManagerNext == ManagerStep \/ ChildStep

ManagerSpec == ManagerInit /\ [][ManagerNext]_processVars

\* tokio polls every task that was woken and fires every timer.  No process has
\* to exit by itself, and nobody has to call anything.
ManagerFairness ==
  /\ \A c \in Child : WF_processVars(Actor(c) /\ UNCHANGED managerVars)
  /\ \A k \in Call, c \in Child : WF_processVars(CloserSends(k, c) \/ CloserEnds(k, c))
  /\ \A k \in Call : WF_processVars(Return(k))

FairManagerSpec == ManagerSpec /\ ManagerFairness

-----------------------------------------------------------------------------
(* The manager as its callers see it implements ProcessContract.  A process *)
(* has ended when its exit is published.                                    *)

\* The children stop_tasks took away from close.
TakenByStopTasks(c) == \E k \in Call : mode[k] = "tasks" /\ closer[k][c] # "none"

SeenProcess(c) ==
  CASE code[c] = "none"                       -> "none"
    [] exit[c] = "success"                    -> "zero"
    [] exit[c] \in {"nonzero", "killedExternal", "failed"} -> "nonzero"
    [] exit[c] \in {"interrupted", "killed"}  -> IF closing[c] THEN "shutdown"
                                                              ELSE "restarted"
    [] code[c] # "none" /\ exit[c] = "none"   -> IF TakenByStopTasks(c) THEN "stopping"
                                                ELSE IF closing[c] THEN "closing"
                                                ELSE "running"

Contract == INSTANCE ProcessContract WITH
              Proc    <- Child,
              process <- [c \in Child |-> SeenProcess(c)],
              closed  <- is_closing

\* The manager keeps its contract: nothing is spawned after a close, a close
\* reaches whatever stop_tasks has not taken, no process is interrupted that was
\* not told to end, and its executor can tell which of the two told it.
ImplementsContract == Contract!ContractSpec

\* A call returns only when the contract lets it.
ReturnedAsPromised ==
  \A k \in returned :
    IF mode[k] = "tasks" THEN Contract!StopReturns({c \in Child : closer[k][c] # "none"})
                         ELSE Contract!CloseReturns

-----------------------------------------------------------------------------
(* Properties.                                                             *)

\* The children a call has to wait for: a stop_tasks for those it took, a close
\* for every other one.
IsFor(k, c) ==
  /\ code[c] # "none"
  /\ IF mode[k] = "tasks" THEN closer[k][c] # "none" ELSE ~TakenByStopTasks(c)

\* A call that returned has waited for its children: each of them has exited, and
\* the exit is published.
ReturnedMeansExited ==
  \A k \in returned, c \in Child : IsFor(k, c) => Exited(c) /\ ExitKnown(c)

\* The executor tells a shutdown from a restart by Child::closing (exec.rs:582):
\* a child turbo interrupted or killed was stopped by a close or by a
\* stop_tasks, never by both, and the flag says which.
ClosingFlagTellsWhy ==
  \A c \in Child : exit[c] \in {"interrupted", "killed"} =>
    (closing[c] <=> ~TakenByStopTasks(c))

\* A child reported interrupted or killed is gone with all of its descendants;
\* only one on a pseudo-terminal, killed while it waited for those it had noted,
\* may leave others.
StoppedTreeIsGone ==
  \A c \in Child : exit[c] \in {"interrupted", "killed"} =>
    /\ Exited(c)
    /\ "captured" \notin orphans[c]
    /\ exit[c] = "interrupted" \/ c \notin Pty => orphans[c] = {}

\* No exit is published twice and no handle sees two different exits.
ExitIsFinal ==
  [][\A c \in Child : ExitKnown(c) => exit'[c] = exit[c]]_processVars

\* A close that kills and a stop_tasks, whose children have a deadline, return
\* even if every process ignores SIGINT, a shutdown without a deadline is in
\* progress and the command slot is taken.
BoundedCallsReturn ==
  \A k \in Call : mode[k] \in {"kill", "tasks"} ~> k \in returned

\* The doc of wait (lib.rs:244), "waiting for all child processes to exit".
NoChildAfterClose ==
  (\E k \in returned : mode[k] \in CloseMode) => \A c \in Child : code[c] # "running"

\* The doc of ShutdownStyle (shutdown.rs:31), a graceful shutdown "escalates to
\* Kill", and a Kill ends the process group, also of a pseudo-terminal.
KilledTreeIsGone ==
  \A c \in Child : exit[c] = "killed" => orphans[c] = {}

\* The doc of close (lib.rs:254), "calling close with two different strategies
\* will propagate both signals to the child processes": a stop, whose strategy
\* has a deadline, ends the children whatever was called before.
StopReturns ==
  \A k \in Call : mode[k] = "stop" ~> k \in returned
=============================================================================
