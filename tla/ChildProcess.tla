---------------------------- MODULE ChildProcess ----------------------------
(***************************************************************************)
(* The child processes of crates/turborepo-process/src/child.rs with       *)
(* child/state.rs, child/shutdown.rs and child/handle.rs, on Unix.         *)
(*                                                                         *)
(* Child::spawn starts an operating-system process and a tokio task, the   *)
(* child's actor, which waits for the process and for commands on a        *)
(* channel of one slot, and publishes how the child ended on a watch       *)
(* channel.  Handles of the child send it commands.                        *)
(*                                                                         *)
(* A process may exit, ignore SIGINT for ever, or leave descendants of its *)
(* process group behind.  SIGKILL to the group ends it and them.  A failed *)
(* wait or kill system call is reported as "failed"; the process is taken  *)
(* to be gone then.                                                        *)
(*                                                                         *)
(* A graceful shutdown notes the descendants its child has at that moment. *)
(* Those of a child on a pseudo-terminal are waited for by their pids,     *)
(* before the process group is.                                            *)
(***************************************************************************)
EXTENDS Naturals, FiniteSets

CONSTANTS Child,   \* the children that are ever spawned
          Pty      \* those spawned on a pseudo-terminal

ASSUME PtyAssumption == Pty \subseteq Child

VARIABLES
  code,       \* how the process exited; "running"; "none" before the spawn
  orphans,    \* the kinds of descendants that survive the process
  actor,      \* where the child's actor is
  deadline,   \* the graceful shutdown in progress has a deadline
  queue,      \* the slot of the command channel
  exit        \* the exit watch channel

childVars == <<code, orphans, actor, deadline, queue, exit>>

(***************************************************************************)
(* actor: "none"; "idle" suspended in the biased select!; "polling" inside *)
(*   a poll, the command branch was pending; "graceful" SIGINT was sent,   *)
(*   waiting for the process; "descendants" waiting for those it noted;    *)
(*   "group" waiting for its process group; "done" returned, the command   *)
(*   receiver is dropped.                                                  *)
(* orphans: "captured" noted by the graceful shutdown, "other" not.        *)
(* queue: "timed" Shutdown(Graceful(Some(t))), "untimed"                   *)
(*   Shutdown(Graceful(None)), "kill" Kill.                                *)
(***************************************************************************)
Command    == {"timed", "untimed", "kill"}
CodeState  == {"none", "running", "zero", "nonzero", "signal"}
ActorState == {"none", "idle", "polling", "graceful", "descendants", "group", "done"}
Descendant == {"captured", "other"}
ChildExit  == {"success", "nonzero", "interrupted", "killed", "killedExternal",
               "failed"}

ChildTypeOK ==
  /\ code \in [Child -> CodeState]
  /\ orphans \in [Child -> SUBSET Descendant]
  /\ actor \in [Child -> ActorState]
  /\ deadline \in [Child -> BOOLEAN]
  /\ queue \in [Child -> Command \cup {"empty"}]
  /\ exit \in [Child -> ChildExit \cup {"none"}]

ChildInit ==
  /\ code = [c \in Child |-> "none"]
  /\ orphans = [c \in Child |-> {}]
  /\ actor = [c \in Child |-> "none"]
  /\ deadline = [c \in Child |-> FALSE]
  /\ queue = [c \in Child |-> "empty"]
  /\ exit = [c \in Child |-> "none"]

-----------------------------------------------------------------------------
(* The operating-system process.                                           *)

Exited(c) == code[c] \in {"zero", "nonzero", "signal"}

\* Which kinds of descendants a process that exits now can leave.
LeftBehind(c) == IF c \in Pty /\ actor[c] = "graceful" THEN Descendant ELSE {"other"}

\* The process exits by itself, on SIGINT, or is killed by someone else.
ProcessExits(c) ==
  /\ code[c] = "running"
  /\ \E how \in {"zero", "nonzero", "signal"} : code' = [code EXCEPT ![c] = how]
  /\ \E left \in SUBSET LeftBehind(c) : orphans' = [orphans EXCEPT ![c] = left]
  /\ UNCHANGED <<actor, deadline, queue, exit>>

\* The descendants of one kind have exited.
OrphansExit(c) ==
  /\ \E d \in orphans[c] : orphans' = [orphans EXCEPT ![c] = @ \ {d}]
  /\ UNCHANGED <<code, actor, deadline, queue, exit>>

-----------------------------------------------------------------------------
(* Child::spawn and the commands of its handles.                           *)

SpawnChild(c) ==
  /\ code[c] = "none"
  /\ code' = [code EXCEPT ![c] = "running"]
  /\ actor' = [actor EXCEPT ![c] = "idle"]
  /\ UNCHANGED <<orphans, deadline, queue, exit>>

\* command_channel.send(..).await.ok(): waits for the slot, or the receiver is
\* gone and the command is lost.
SendCommand(c, command) ==
  \/ /\ actor[c] = "done"
     /\ UNCHANGED childVars
  \/ /\ actor[c] # "done"
     /\ queue[c] = "empty"
     /\ queue' = [queue EXCEPT ![c] = command]
     /\ UNCHANGED <<code, orphans, actor, deadline, exit>>

\* exit_channel.changed() resolves: an exit was sent.
ExitKnown(c) == exit[c] # "none"

\* cleanup_if_successful: who piped the outputs kills what a child that succeeded
\* has left of its process group.
CleanUp(c) ==
  /\ exit[c] = "success"
  /\ orphans[c] # {}
  /\ orphans' = [orphans EXCEPT ![c] = {}]
  /\ UNCHANGED <<code, actor, deadline, queue, exit>>

-----------------------------------------------------------------------------
(* The child's actor.                                                      *)

\* The actor publishes the exit and returns; commands still queued are lost.
ActorEnds(c, how) ==
  /\ exit' = [exit EXCEPT ![c] = how]
  /\ actor' = [actor EXCEPT ![c] = "done"]
  /\ queue' = [queue EXCEPT ![c] = "empty"]

\* ChildHandle::kill: SIGKILL to the process group, then the actor ends.
KillTree(c) ==
  /\ code' = [code EXCEPT ![c] = IF code[c] = "running" THEN "signal" ELSE code[c]]
  /\ orphans' = [orphans EXCEPT ![c] = {}]
  /\ \E how \in {"killed", "failed"} : ActorEnds(c, how)
  /\ UNCHANGED deadline

\* First branch of the biased select!: a command.
ActorCommand(c) ==
  /\ actor[c] = "idle"
  /\ \/ /\ queue[c] = "kill"
        /\ KillTree(c)
     \/ /\ queue[c] \in {"timed", "untimed"}
        /\ actor' = [actor EXCEPT ![c] = "graceful"]
        /\ deadline' = [deadline EXCEPT ![c] = queue[c] = "timed"]
        /\ queue' = [queue EXCEPT ![c] = "empty"]
        /\ UNCHANGED <<code, orphans, exit>>

ActorNoCommand(c) ==
  /\ actor[c] = "idle"
  /\ queue[c] = "empty"
  /\ actor' = [actor EXCEPT ![c] = "polling"]
  /\ UNCHANGED <<code, orphans, deadline, queue, exit>>

\* Second branch: child.wait().
ActorWaits(c) ==
  /\ actor[c] = "polling"
  /\ code[c] = "running"
  /\ actor' = [actor EXCEPT ![c] = "idle"]
  /\ UNCHANGED <<code, orphans, deadline, queue, exit>>

\* Mutant: a process that somebody else killed is reported as killed.
ActorSeesExitKilled(c) ==
  /\ actor[c] = "polling"
  /\ Exited(c)
  /\ \E how \in {"failed", CASE code[c] = "zero"    -> "success"
                             [] code[c] = "nonzero" -> "nonzero"
                             [] code[c] = "signal"  -> "killed"} :
        ActorEnds(c, how)
  /\ UNCHANGED <<code, orphans, deadline>>

ActorSeesExit(c) ==
  /\ actor[c] = "polling"
  /\ Exited(c)
  /\ \E how \in {"failed", CASE code[c] = "zero"    -> "success"
                             [] code[c] = "nonzero" -> "nonzero"
                             [] code[c] = "signal"  -> "killedExternal"} :
        ActorEnds(c, how)
  /\ UNCHANGED <<code, orphans, deadline>>

\* Graceful shutdown: the process exited; descendants are waited for.
GracefulExit(c) ==
  /\ actor[c] = "graceful"
  /\ Exited(c)
  /\ \/ /\ actor' = [actor EXCEPT ![c] = IF "captured" \in orphans[c] THEN "descendants"
                                                                     ELSE "group"]
        /\ UNCHANGED <<exit, queue>>
     \/ ActorEnds(c, "failed")
  /\ UNCHANGED <<code, orphans, deadline>>

\* wait_for_remaining_descendants_exit is through.
DescendantsDrained(c) ==
  /\ actor[c] = "descendants"
  /\ "captured" \notin orphans[c]
  /\ actor' = [actor EXCEPT ![c] = "group"]
  /\ UNCHANGED <<code, orphans, deadline, queue, exit>>

\* Mutant: the process group is not waited for.
GroupDrainedAtOnce(c) ==
  /\ actor[c] = "group"
  /\ ActorEnds(c, "interrupted")
  /\ UNCHANGED <<code, orphans, deadline>>

\* wait_for_process_group_exit is through.
GroupDrained(c) ==
  /\ actor[c] = "group"
  /\ orphans[c] = {}
  /\ ActorEnds(c, "interrupted")
  /\ UNCHANGED <<code, orphans, deadline>>

\* A kill ends whichever wait is in progress: SIGKILL to the process group, or,
\* while noted descendants are waited for, to those alone.
KillWaited(c) ==
  \/ actor[c] = "graceful" /\ KillTree(c)
  \/ /\ \/ actor[c] = "descendants" /\ orphans' = [orphans EXCEPT ![c] = @ \ {"captured"}]
        \/ actor[c] = "group" /\ orphans' = [orphans EXCEPT ![c] = {}]
     /\ ActorEnds(c, "killed")
     /\ UNCHANGED <<code, deadline>>

ShuttingDown(c) == actor[c] \in {"graceful", "descendants", "group"}

\* Mutant: a shutdown in progress ignores every command.
ShutdownCommandIgnored(c) ==
  /\ ShuttingDown(c)
  /\ queue[c] # "empty"
  /\ queue' = [queue EXCEPT ![c] = "empty"]
  /\ UNCHANGED <<code, orphans, actor, deadline, exit>>

\* During each wait a Kill is obeyed and another Shutdown is dropped.
ShutdownCommand(c) ==
  /\ ShuttingDown(c)
  /\ \/ /\ queue[c] = "kill"
        /\ KillWaited(c)
     \/ /\ queue[c] \in {"timed", "untimed"}
        /\ queue' = [queue EXCEPT ![c] = "empty"]
        /\ UNCHANGED <<code, orphans, actor, deadline, exit>>

\* During each wait the deadline, if there is one, passes.
ShutdownTimeout(c) ==
  /\ ShuttingDown(c)
  /\ deadline[c]
  /\ KillWaited(c)

\* What happens to the process and its group outside the actor.
ProcessStep(c) == ProcessExits(c) \/ OrphansExit(c) \/ CleanUp(c)

Actor(c) ==
  \/ ActorCommand(c)
  \/ ActorNoCommand(c)
  \/ ActorWaits(c)
  \/ ActorSeesExit(c)
  \/ GracefulExit(c)
  \/ DescendantsDrained(c)
  \/ GroupDrained(c)
  \/ ShutdownCommand(c)
  \/ ShutdownTimeout(c)
=============================================================================
