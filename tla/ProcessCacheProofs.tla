------------------------ MODULE ProcessCacheProofs ------------------------
(***************************************************************************)
(* What the end of a run waits for: its processes, for any number of       *)
(* children, tasks and overlapping calls of close and stop_tasks, with the *)
(* contract its callers build on; then its cache writes, for any number of *)
(* calls and of workers.                                                   *)
(***************************************************************************)
EXTENDS ProcessManager, AsyncCache, TLAPS

-----------------------------------------------------------------------------
(* The process manager.                                                    *)

\* The child was told to stop, by a close or by stop_tasks.
Stopped(c) == closing[c] \/ TakenByStopTasks(c)

\* The actor publishes an exit when, and only when, it returns, and it returns
\* after the process; it shuts down gracefully only when told to.
ChildInv(c) ==
  /\ code[c] = "none" <=> actor[c] = "none"
  /\ exit[c] = "none" <=> actor[c] # "done"
  /\ actor[c] \in {"descendants", "group", "done"} => Exited(c)
  /\ code[c] \in {"none", "running"} => orphans[c] = {}
  /\ exit[c] \in {"interrupted", "killed"} => Stopped(c) /\ "captured" \notin orphans[c]
  /\ exit[c] = "interrupted" \/ (exit[c] = "killed" /\ c \notin Pty) => orphans[c] = {}
  /\ "captured" \in orphans[c] => c \in Pty
  /\ actor[c] = "descendants" => c \in Pty
  /\ actor[c] = "group" => "captured" \notin orphans[c]
  /\ queue[c] # "empty" \/ ShuttingDown(c) => Stopped(c)

\* The child was spawned, and how it ended is not published yet.
Unpublished(c) == code[c] # "none" /\ ~ExitKnown(c)

USE DEF Unpublished, ExitKnown

\* A child is in the map until a stop_tasks takes it, or every untaken child has
\* published its exit; close marks the children it sees, which are never taken.
MapInv(c) ==
  /\ c \in children => code[c] # "none" /\ ~TakenByStopTasks(c)
  /\ Unpublished(c) /\ ~TakenByStopTasks(c) => c \in children
  /\ closing[c] => is_closing /\ code[c] # "none" /\ ~TakenByStopTasks(c)

\* The futures of a call, and what they still wait for.
CallInv(k) ==
  /\ mode[k] = "none" => k \notin returned /\ \A c \in Child : closer[k][c] = "none"
  /\ mode[k] \in CloseMode => is_closing
  /\ k \in returned => \A c \in Child : closer[k][c] \in {"none", "done"}
  /\ \A c \in Child :
       /\ closer[k][c] # "none" => code[c] # "none"
       /\ closer[k][c] # "none" /\ mode[k] \in CloseMode => closing[c]
       /\ closer[k][c] = "done" => ExitKnown(c)
       /\ closer[k][c] = "send" => mode[k] # "wait"
       /\ mode[k] \in CloseMode /\ Unpublished(c) =>
            TakenByStopTasks(c) \/ closer[k][c] \in {"send", "wait"}

\* The inductive invariant of the process manager.
ManagerInv ==
  /\ ManagerTypeOK
  /\ \A c \in Child : ChildInv(c) /\ MapInv(c)
  /\ \A k \in Call : CallInv(k)

-----------------------------------------------------------------------------
\* The invariant holds of a new manager.
LEMMA ManagerInvInit == ManagerInit => ManagerInv
<1> SUFFICES ASSUME ManagerInit
             PROVE  ManagerInv
  OBVIOUS
<1> USE DEF ManagerInit, ChildInit
<1>1. ManagerTypeOK
  BY DEF ManagerTypeOK, ChildTypeOK, CodeState, ActorState, ChildExit, Command, Mode,
         CloserState
<1>2. \A c \in Child : ~TakenByStopTasks(c)
  BY DEF TakenByStopTasks
<1>3. \A c \in Child : ChildInv(c)
  BY DEF ChildInv, Exited, Stopped, ShuttingDown
<1>4. \A c \in Child : MapInv(c)
  BY <1>2 DEF MapInv
<1>5. \A k \in Call : CallInv(k)
  BY DEF CallInv, CloseMode
<1>6. QED
  BY <1>1, <1>3, <1>4, <1>5 DEF ManagerInv

\* What the children and their actors do.
LEMMA ChildStepTypeOK ==
  ASSUME ManagerInv, NEW c \in Child, ProcessStep(c) \/ Actor(c)
  PROVE  ChildTypeOK'
<1> USE DEF ManagerInv, ManagerTypeOK, ChildTypeOK, CodeState, ActorState, ChildExit, Command
<1>1. CASE ProcessStep(c)
  <2>1. UNCHANGED <<actor, deadline, queue, exit>>
    BY <1>1 DEF ProcessStep, ProcessExits, OrphansExit, CleanUp
  <2>2. code' \in [Child -> CodeState]
    BY <1>1 DEF ProcessStep, ProcessExits, OrphansExit, CleanUp
  <2>3. orphans' \in [Child -> SUBSET Descendant]
    <3>1. \E left \in SUBSET Descendant : orphans' = [orphans EXCEPT ![c] = left]
      BY <1>1 DEF ProcessStep, ProcessExits, OrphansExit, CleanUp, LeftBehind, Descendant
    <3>2. QED
      BY <3>1
  <2>4. QED
    BY <2>1, <2>2, <2>3
<1>2. ASSUME KillTree(c)
      PROVE  ChildTypeOK'
  <2>1. PICK how \in {"killed", "failed"} : ActorEnds(c, how)
    BY <1>2 DEF KillTree
  <2>2. /\ code' \in [Child -> CodeState]
        /\ orphans' \in [Child -> SUBSET Descendant]
        /\ deadline' \in [Child -> BOOLEAN]
    BY <1>2 DEF KillTree
  <2>3. /\ actor' \in [Child -> ActorState]
        /\ queue' \in [Child -> Command \cup {"empty"}]
        /\ exit' \in [Child -> ChildExit \cup {"none"}]
    BY <2>1 DEF ActorEnds
  <2>4. QED
    BY <2>2, <2>3
<1>3. CASE ActorCommand(c)
  <2>1. CASE queue[c] = "kill"
    BY <1>2, <1>3, <2>1 DEF ActorCommand
  <2>2. CASE queue[c] # "kill"
    <3>1. /\ actor' = [actor EXCEPT ![c] = "graceful"]
          /\ deadline' = [deadline EXCEPT ![c] = queue[c] = "timed"]
          /\ queue' = [queue EXCEPT ![c] = "empty"]
          /\ UNCHANGED <<code, orphans, exit>>
      BY <1>3, <2>2 DEF ActorCommand
    <3>2. actor' \in [Child -> ActorState]
      BY <3>1
    <3>3. queue' \in [Child -> Command \cup {"empty"}]
      BY <3>1
    <3>4. deadline' \in [Child -> BOOLEAN]
      <4>1. \E timed \in BOOLEAN : deadline' = [deadline EXCEPT ![c] = timed]
        BY <3>1, Zenon
      <4>2. deadline \in [Child -> BOOLEAN]
        OBVIOUS
      <4>3. QED
        BY <4>1, <4>2
    <3>5. QED
      BY <3>1, <3>2, <3>3, <3>4
  <2>3. QED
    BY <2>1, <2>2
<1>4. CASE ShutdownCommand(c) \/ ShutdownTimeout(c)
  <2>1. ASSUME KillWaited(c)
        PROVE  ChildTypeOK'
    <3>1. CASE ActorEnds(c, "killed") /\ UNCHANGED <<code, deadline>>
      <4>1. orphans' \in [Child -> SUBSET Descendant] => ChildTypeOK'
        BY <3>1 DEF ActorEnds
      <4>2. ASSUME NEW left \in SUBSET Descendant, orphans' = [orphans EXCEPT ![c] = left]
            PROVE  orphans' \in [Child -> SUBSET Descendant]
        BY <4>2
      <4>3. QED
        BY <1>2, <2>1, <4>1, <4>2 DEF KillWaited
    <3>2. QED
      BY <1>2, <2>1, <3>1 DEF KillWaited
  <2>2. UNCHANGED <<code, orphans, actor, deadline, exit>> /\ queue' = [queue EXCEPT ![c] = "empty"]
          => ChildTypeOK'
    OBVIOUS
  <2>3. QED
    BY <1>4, <2>1, <2>2 DEF ShutdownCommand, ShutdownTimeout
<1>5. CASE ActorNoCommand(c) \/ ActorWaits(c)
  BY <1>5 DEF ActorNoCommand, ActorWaits
<1>6. CASE ActorSeesExit(c)
  <2>1. \E how \in ChildExit : ActorEnds(c, how)
    BY <1>6 DEF ActorSeesExit, Exited
  <2>2. QED
    BY <1>6, <2>1 DEF ActorSeesExit, ActorEnds
<1>7. CASE GracefulExit(c) \/ DescendantsDrained(c) \/ GroupDrained(c)
  BY <1>7 DEF GracefulExit, DescendantsDrained, GroupDrained, ActorEnds
<1>8. QED
  BY <1>1, <1>3, <1>4, <1>5, <1>6, <1>7 DEF Actor

\* A step of one child keeps its own invariant and touches no other child; a
\* process never comes back and an exit is never taken back.
LEMMA OneChildStep ==
  ASSUME ManagerInv, UNCHANGED managerVars,
         NEW c \in Child, ProcessStep(c) \/ Actor(c)
  PROVE  /\ \A d \in Child : ChildInv(d)'
         /\ \A d \in Child : /\ code[d] = "none" <=> code'[d] = "none"
                             /\ code'[d] = "running" => code[d] = "running"
                             /\ ExitKnown(d) => ExitKnown(d)'
<1> DEFINE Goal(d) == /\ ChildInv(d)'
                      /\ code[d] = "none" <=> code'[d] = "none"
                      /\ code'[d] = "running" => code[d] = "running"
                      /\ ExitKnown(d) => ExitKnown(d)'
<1>1. \A d \in Child : Stopped(d)' <=> Stopped(d)
  BY DEF Stopped, TakenByStopTasks, managerVars
<1> USE DEF ManagerInv, ManagerTypeOK, ChildTypeOK, ChildInv, Exited, ExitKnown,
           ShuttingDown
<1>2. ASSUME NEW d \in Child, d # c
      PROVE  Goal(d)
  <2>1. /\ code'[d] = code[d] /\ orphans'[d] = orphans[d] /\ actor'[d] = actor[d]
        /\ queue'[d] = queue[d] /\ exit'[d] = exit[d]
    BY <1>2 DEF ProcessStep, ProcessExits, OrphansExit, CleanUp, Actor, ActorCommand,
                ShutdownCommand, ShutdownTimeout, KillWaited, KillTree, ActorEnds,
                ActorNoCommand, ActorWaits, ActorSeesExit, GracefulExit,
                DescendantsDrained, GroupDrained
  <2>2. QED
    BY <1>1, <2>1
<1>3. CASE ProcessStep(c)
  <2>1. CASE ProcessExits(c)
    BY <1>1, <1>2, <2>1 DEF ProcessExits, LeftBehind
  <2>2. CASE OrphansExit(c) \/ CleanUp(c)
    BY <1>1, <1>2, <2>2 DEF OrphansExit, CleanUp
  <2>3. QED
    BY <1>3, <2>1, <2>2 DEF ProcessStep
<1>4. ASSUME KillTree(c), Stopped(c), code[c] # "none"
      PROVE  Goal(c)
  <2>1. /\ code'[c] = IF code[c] = "running" THEN "signal" ELSE code[c]
        /\ orphans'[c] = {}
        /\ actor'[c] = "done"
        /\ exit'[c] \in {"killed", "failed"}
        /\ queue'[c] = "empty"
    BY <1>4 DEF KillTree, ActorEnds
  <2>2. code'[c] \in {"zero", "nonzero", "signal"}
    BY <1>4, <2>1 DEF CodeState
  <2>3. QED
    BY <1>1, <1>4, <2>1, <2>2
<1>5. CASE ActorCommand(c)
  <2>1. Stopped(c) /\ code[c] # "none"
    BY <1>5 DEF ActorCommand, Command
  <2>2. CASE queue[c] = "kill"
    BY <1>2, <1>5, <1>4, <2>1, <2>2 DEF ActorCommand
  <2>3. CASE queue[c] # "kill"
    BY <1>1, <1>2, <1>5, <2>1, <2>3 DEF ActorCommand
  <2>4. QED
    BY <2>2, <2>3
<1>6. CASE ActorNoCommand(c) \/ ActorWaits(c)
  BY <1>1, <1>2, <1>6 DEF ActorNoCommand, ActorWaits
<1>7. CASE ActorSeesExit(c)
  BY <1>1, <1>2, <1>7 DEF ActorSeesExit, ActorEnds
<1>8. CASE GracefulExit(c) \/ DescendantsDrained(c) \/ GroupDrained(c)
  <2>1. CASE GracefulExit(c)
    BY <1>1, <1>2, <2>1 DEF GracefulExit, ActorEnds
  <2>2. CASE DescendantsDrained(c)
    BY <1>1, <1>2, <2>2 DEF DescendantsDrained
  <2>3. CASE GroupDrained(c)
    BY <1>1, <1>2, <2>3 DEF GroupDrained, ActorEnds
  <2>4. QED
    BY <1>8, <2>1, <2>2, <2>3
<1>9. CASE ShutdownCommand(c) \/ ShutdownTimeout(c)
  <2>1. Stopped(c) /\ code[c] # "none"
    BY <1>9 DEF ShutdownCommand, ShutdownTimeout
  <2>2. CASE actor[c] = "graceful" /\ KillTree(c)
    BY <1>2, <1>4, <2>1, <2>2
  <2>3. CASE KillWaited(c) /\ actor[c] # "graceful"
    BY <1>1, <1>2, <2>1, <2>3 DEF KillWaited, ActorEnds
  <2>4. CASE ~KillWaited(c)
    BY <1>1, <1>2, <1>9, <2>1, <2>4 DEF ShutdownCommand, ShutdownTimeout
  <2>5. QED
    BY <1>9, <2>2, <2>3, <2>4 DEF KillWaited
<1>10. QED
  BY <1>3, <1>5, <1>6, <1>7, <1>8, <1>9 DEF Actor

\* The children's steps.
LEMMA ChildStepInv ==
  ASSUME ManagerInv, ChildStep
  PROVE  ManagerInv'
<1>1. PICK c \in Child : ProcessStep(c) \/ Actor(c)
  BY DEF ChildStep
<1>2. UNCHANGED managerVars
  BY DEF ChildStep
<1>3. /\ \A d \in Child : ChildInv(d)'
      /\ \A d \in Child : /\ code[d] = "none" <=> code'[d] = "none"
                          /\ code'[d] = "running" => code[d] = "running"
                          /\ ExitKnown(d) => ExitKnown(d)'
  BY <1>1, <1>2, OneChildStep
<1>4. \A d \in Child : TakenByStopTasks(d)' <=> TakenByStopTasks(d)
  BY <1>2 DEF managerVars, TakenByStopTasks
<1>5. \A d \in Child : MapInv(d)'
  BY <1>2, <1>3, <1>4 DEF ManagerInv, MapInv, managerVars
<1>6. \A k \in Call : CallInv(k)'
  BY <1>2, <1>3, <1>4 DEF ManagerInv, CallInv, managerVars
<1>7. ManagerTypeOK'
  BY <1>1, <1>2, ChildStepTypeOK DEF ManagerInv, ManagerTypeOK, managerVars
<1>8. QED
  BY <1>3, <1>5, <1>6, <1>7 DEF ManagerInv

-----------------------------------------------------------------------------
(* The manager's steps.                                                    *)

\* A spawn adds a child nobody has stopped, and only while no close began.
LEMMA SpawnInv ==
  ASSUME ManagerInv, NEW c \in Child, Spawn(c)
  PROVE  ManagerInv'
<1> USE DEF Spawn, SpawnChild
<1>1. \A d \in Child : /\ TakenByStopTasks(d)' <=> TakenByStopTasks(d)
                       /\ Stopped(d)' <=> Stopped(d)
  BY DEF TakenByStopTasks, Stopped
<1>2. ~TakenByStopTasks(c)
  BY DEF TakenByStopTasks, ManagerInv, CallInv
<1>3. ManagerTypeOK'
  BY DEF ManagerInv, ManagerTypeOK, ChildTypeOK, CodeState, ActorState
<1>4. \A d \in Child : ChildInv(d)'
  BY <1>1 DEF ManagerInv, ManagerTypeOK, ChildTypeOK, ChildInv, Exited, ShuttingDown
<1>5. \A d \in Child : MapInv(d)'
  BY <1>1, <1>2 DEF ManagerInv, ManagerTypeOK, ChildTypeOK, MapInv
<1>6. \A k \in Call : CallInv(k)'
  BY <1>1 DEF ManagerInv, ManagerTypeOK, ChildTypeOK, CallInv, ExitKnown
<1>7. QED
  BY <1>3, <1>4, <1>5, <1>6 DEF ManagerInv

\* A close marks every child it will wait for, under the mutex.
LEMMA BeginCloseInv ==
  ASSUME ManagerInv, NEW k \in Call, NEW m \in CloseMode, BeginClose(k, m)
  PROVE  ManagerInv'
<1> USE DEF CloseMode
<1>1. UNCHANGED childVars /\ children' = children /\ returned' = returned
  BY DEF BeginClose
<1>2. \A d \in Child : TakenByStopTasks(d)' <=> TakenByStopTasks(d)
  BY DEF BeginClose, TakenByStopTasks, ManagerInv, ManagerTypeOK, CallInv
<1>3. \A d \in Child : Stopped(d) => Stopped(d)'
  BY <1>2 DEF BeginClose, Stopped, ManagerInv, ManagerTypeOK
<1>4. ManagerTypeOK'
  BY DEF BeginClose, ManagerInv, ManagerTypeOK, ChildTypeOK, childVars, Mode, CloserState,
         Closers
<1>5. \A d \in Child : ChildInv(d)'
  BY <1>1, <1>3 DEF ManagerInv, ChildInv, Exited, ShuttingDown, childVars
<1>6. \A d \in Child : MapInv(d)'
  BY <1>1, <1>2 DEF BeginClose, ManagerInv, ManagerTypeOK, MapInv, childVars
<1>7. \A j \in Call : CallInv(j)'
  <2>1. ASSUME NEW j \in Call, j # k
        PROVE  CallInv(j)'
    BY <1>1, <1>2, <2>1
       DEF BeginClose, ManagerInv, ManagerTypeOK, CallInv, ExitKnown, childVars
  <2>2. CallInv(k)'
    BY <1>1, <1>2
       DEF BeginClose, Closers, ManagerInv, ManagerTypeOK, CallInv, MapInv, ExitKnown,
           childVars
  <2>3. QED
    BY <2>1, <2>2
<1>8. QED
  BY <1>4, <1>5, <1>6, <1>7 DEF ManagerInv

\* stop_tasks takes children only while no close began, so none of them is
\* marked.
LEMMA BeginStopTasksInv ==
  ASSUME ManagerInv, NEW k \in Call, NEW T \in SUBSET Task, BeginStopTasks(k, T)
  PROVE  ManagerInv'
<1> DEFINE stopped == {c \in children : TaskOf[c] \in T}
<1>1. UNCHANGED <<childVars, is_closing, closing>> /\ mode[k] = "none"
  BY DEF BeginStopTasks
<1>2. CASE is_closing
  <2>1. children' = children /\ closer' = closer /\ returned' = returned \cup {k}
        /\ mode' = [mode EXCEPT ![k] = "tasks"]
    BY <1>2 DEF BeginStopTasks
  <2>2. \A d \in Child : TakenByStopTasks(d)' <=> TakenByStopTasks(d)
    BY <1>1, <2>1 DEF TakenByStopTasks, ManagerInv, ManagerTypeOK, CallInv
  <2>3. \A d \in Child : Stopped(d)' <=> Stopped(d)
    BY <1>1, <2>2 DEF Stopped
  <2>4. ManagerTypeOK'
    BY <1>1, <2>1 DEF ManagerInv, ManagerTypeOK, ChildTypeOK, childVars, Mode
  <2>5. \A d \in Child : ChildInv(d)' /\ MapInv(d)'
    BY <1>1, <2>1, <2>2, <2>3 DEF ManagerInv, ChildInv, MapInv, Exited, ShuttingDown, childVars
  <2>6. \A j \in Call : CallInv(j)'
    BY <1>1, <2>1, <2>2
       DEF ManagerInv, ManagerTypeOK, CallInv, ExitKnown, childVars, CloseMode
  <2>7. QED
    BY <2>4, <2>5, <2>6 DEF ManagerInv
<1>3. CASE ~is_closing
  <2>1. /\ children' = children \ stopped
        /\ closer' = [closer EXCEPT ![k] = Closers(stopped, "send")]
        /\ returned' = returned
        /\ mode' = [mode EXCEPT ![k] = "tasks"]
    BY <1>3 DEF BeginStopTasks
  <2>2. \A d \in Child : TakenByStopTasks(d)' <=> TakenByStopTasks(d) \/ d \in stopped
    <3>1. ASSUME NEW d \in Child, NEW j \in Call
          PROVE  (mode'[j] = "tasks" /\ closer'[j][d] # "none") <=>
                   \/ mode[j] = "tasks" /\ closer[j][d] # "none"
                   \/ j = k /\ d \in stopped
      BY <1>1, <2>1 DEF Closers, ManagerInv, ManagerTypeOK, CallInv
    <3>2. QED
      BY <3>1 DEF TakenByStopTasks
  <2>3. \A d \in Child : /\ Stopped(d) => Stopped(d)'
                         /\ ~closing[d]
    BY <1>1, <1>3, <2>2 DEF Stopped, ManagerInv, MapInv
  <2>4. ManagerTypeOK'
    BY <1>1, <2>1
       DEF ManagerInv, ManagerTypeOK, ChildTypeOK, childVars, Mode, CloserState, Closers
  <2>5. \A d \in Child : ChildInv(d)'
    BY <1>1, <2>3 DEF ManagerInv, ChildInv, Exited, ShuttingDown, childVars
  <2>6. \A d \in Child : MapInv(d)'
    BY <1>1, <2>1, <2>2, <2>3 DEF ManagerInv, MapInv, childVars
  <2>7. ASSUME NEW j \in Call
        PROVE  CallInv(j)'
    <3>1. \A c \in stopped : code[c] # "none"
      BY DEF ManagerInv, ManagerTypeOK, MapInv
    <3>2. CASE j = k
      BY <1>1, <2>1, <3>1, <3>2
         DEF ManagerInv, ManagerTypeOK, CallInv, Closers, childVars, CloseMode
    <3>3. CASE j # k
      BY <1>1, <1>3, <2>1, <2>2, <3>3
         DEF ManagerInv, ManagerTypeOK, CallInv, ExitKnown, childVars
    <3>4. QED
      BY <3>2, <3>3
  <2>8. QED
    BY <2>4, <2>5, <2>6, <2>7 DEF ManagerInv
<1>4. QED
  BY <1>2, <1>3

\* A command reaches the slot of a child its call has stopped; a future ends
\* when the exit is known.
LEMMA CloserStepInv ==
  ASSUME ManagerInv, NEW k \in Call, NEW c \in Child,
         CloserSends(k, c) \/ CloserEnds(k, c)
  PROVE  ManagerInv'
<1>1. /\ UNCHANGED <<is_closing, children, closing, mode, returned>>
      /\ UNCHANGED <<code, orphans, actor, deadline, exit>>
  BY DEF CloserSends, CloserEnds, SendCommand, childVars
<1>2. /\ closer[k][c] \in {"send", "wait"}
      /\ closer' = [closer EXCEPT ![k][c] = closer'[k][c]]
      /\ closer'[k][c] \in {"wait", "done"}
      /\ closer'[k][c] = "done" => ExitKnown(c)
  BY DEF CloserSends, CloserEnds, ManagerInv, ManagerTypeOK
<1>3. \A d \in Child : /\ TakenByStopTasks(d)' <=> TakenByStopTasks(d)
                       /\ Stopped(d)' <=> Stopped(d)
  <2>1. \A j \in Call, d \in Child : closer'[j][d] = "none" <=> closer[j][d] = "none"
    BY <1>2 DEF ManagerInv, ManagerTypeOK
  <2>2. QED
    BY <1>1, <2>1 DEF TakenByStopTasks, Stopped
<1>4. mode[k] # "none" /\ k \notin returned
  BY <1>2 DEF ManagerInv, CallInv
<1>5. Stopped(c)
  <2>1. CASE mode[k] = "tasks"
    BY <1>2, <2>1 DEF Stopped, TakenByStopTasks
  <2>2. CASE mode[k] \in CloseMode
    BY <1>2, <2>2 DEF Stopped, ManagerInv, CallInv
  <2>3. QED
    BY <1>4, <2>1, <2>2 DEF ManagerInv, ManagerTypeOK, Mode
<1>6. \/ queue' = queue
      \/ /\ actor[c] # "done" /\ mode[k] # "wait"
         /\ queue' = [queue EXCEPT ![c] = CommandOf(mode[k])]
  <2>1. CASE CloserEnds(k, c)
    BY <2>1 DEF CloserEnds, childVars
  <2>2. CASE CloserSends(k, c) /\ mode[k] # "wait"
    BY <2>2 DEF CloserSends, SendCommand, childVars
  <2>3. CASE CloserSends(k, c) /\ mode[k] = "wait"
    BY <2>3 DEF CloserSends, ManagerInv, CallInv
  <2>4. QED
    BY <2>1, <2>2, <2>3
<1>7. ManagerTypeOK'
  <2>1. mode[k] # "wait" => CommandOf(mode[k]) \in Command
    BY <1>4 DEF CommandOf, Command, ManagerInv, ManagerTypeOK, Mode, CloseMode
  <2>2. queue' \in [Child -> Command \cup {"empty"}]
    BY <1>6, <2>1 DEF ManagerInv, ManagerTypeOK, ChildTypeOK
  <2>3. closer' \in [Call -> [Child -> CloserState]]
    BY <1>2 DEF ManagerInv, ManagerTypeOK, CloserState
  <2>4. QED
    BY <1>1, <2>2, <2>3 DEF ManagerInv, ManagerTypeOK, ChildTypeOK
<1>8. \A d \in Child : ChildInv(d)'
  BY <1>1, <1>3, <1>5, <1>6 DEF ManagerInv, ManagerTypeOK, ChildTypeOK, ChildInv, Exited, ShuttingDown
<1>9. \A d \in Child : MapInv(d)'
  BY <1>1, <1>3 DEF ManagerInv, MapInv
<1>10. \A j \in Call : CallInv(j)'
  BY <1>1, <1>2, <1>3, <1>4
     DEF ManagerInv, ManagerTypeOK, CallInv, ExitKnown, ChildInv, Exited
<1>11. QED
  BY <1>7, <1>8, <1>9, <1>10 DEF ManagerInv

\* When a close returns every child left in the map has published its exit.
LEMMA ReturnInv ==
  ASSUME ManagerInv, NEW k \in Call, Return(k)
  PROVE  ManagerInv'
<1> USE DEF Return
<1>1. \A d \in Child : /\ TakenByStopTasks(d)' <=> TakenByStopTasks(d)
                       /\ Stopped(d)' <=> Stopped(d)
  BY DEF TakenByStopTasks, Stopped
<1>2. ManagerTypeOK'
  BY DEF ManagerInv, ManagerTypeOK, ChildTypeOK, childVars
<1>3. \A d \in Child : ChildInv(d)'
  BY <1>1 DEF ManagerInv, ChildInv, Exited, ShuttingDown, childVars
<1>4. mode[k] # "tasks" => \A d \in Child : Unpublished(d) => TakenByStopTasks(d)
  BY DEF ManagerInv, ManagerTypeOK, Mode, CallInv
<1>5. \A d \in Child : MapInv(d)'
  BY <1>1, <1>4 DEF ManagerInv, MapInv, childVars
<1>6. \A j \in Call : CallInv(j)'
  BY <1>1 DEF ManagerInv, CallInv, ExitKnown, childVars
<1>7. QED
  BY <1>2, <1>3, <1>5, <1>6 DEF ManagerInv

\* The invariant is inductive.
LEMMA ManagerInvNext == ManagerInv /\ [ManagerNext]_processVars => ManagerInv'
<1> SUFFICES ASSUME ManagerInv, [ManagerNext]_processVars
             PROVE  ManagerInv'
  OBVIOUS
<1>1. CASE UNCHANGED processVars
  BY <1>1 DEF processVars, childVars, managerVars, ManagerInv, ManagerTypeOK, ChildTypeOK,
              ChildInv, MapInv, CallInv, Exited, ShuttingDown, ExitKnown, Stopped, TakenByStopTasks
<1>2. QED
  BY <1>1, ChildStepInv, SpawnInv, BeginCloseInv, BeginStopTasksInv, CloserStepInv,
     ReturnInv DEF ManagerNext, ManagerStep

\* The inductive invariant holds in every execution of the manager.
THEOREM ManagerInvariant == ManagerSpec => []ManagerInv
BY ManagerInvInit, ManagerInvNext, PTL DEF ManagerSpec

\* Type correctness of the manager and its children.
THEOREM ManagerTypeCorrect == ManagerSpec => []ManagerTypeOK
<1>1. ManagerInv => ManagerTypeOK
  BY DEF ManagerInv
<1>2. QED
  BY <1>1, ManagerInvariant, PTL

\* A call returns after the children it is for, and after their exits.
THEOREM CallsAreComplete == ManagerSpec => []ReturnedMeansExited
<1>1. ManagerInv => ReturnedMeansExited
  <2> SUFFICES ASSUME ManagerInv, NEW k \in returned, NEW c \in Child, IsFor(k, c)
               PROVE  Exited(c) /\ ExitKnown(c)
    BY DEF ReturnedMeansExited
  <2>1. k \in Call /\ mode[k] # "none" /\ closer[k][c] \in {"none", "done"}
    BY DEF ManagerInv, ManagerTypeOK, CallInv
  <2>2. mode[k] = "tasks" => ExitKnown(c)
    BY <2>1 DEF IsFor, ManagerInv, CallInv
  <2>3. mode[k] \in CloseMode => ExitKnown(c)
    BY <2>1 DEF IsFor, ManagerInv, CallInv, CloseMode
  <2>4. ExitKnown(c)
    BY <2>1, <2>2, <2>3 DEF ManagerInv, ManagerTypeOK, Mode
  <2> QED
    BY <2>4 DEF ManagerInv, ChildInv
<1>2. QED
  BY <1>1, ManagerInvariant, PTL

\* The closing flag separates shutdowns from restarts in every race of close
\* with stop_tasks.
THEOREM ClosingFlagIsRight == ManagerSpec => []ClosingFlagTellsWhy
<1>1. ManagerInv => ClosingFlagTellsWhy
  BY DEF ManagerInv, ChildInv, MapInv, Stopped, ClosingFlagTellsWhy
<1>2. QED
  BY <1>1, ManagerInvariant, PTL

\* A child reported as interrupted or killed left nothing behind.
THEOREM StoppedTreesAreGone == ManagerSpec => []StoppedTreeIsGone
<1>1. ManagerInv => StoppedTreeIsGone
  BY DEF ManagerInv, ManagerTypeOK, ChildTypeOK, ChildInv, StoppedTreeIsGone, ChildExit
<1>2. QED
  BY <1>1, ManagerInvariant, PTL

\* A step of a child publishes its exit, if it is not yet published, and no other.
LEMMA ChildStepExit ==
  ASSUME ManagerInv, NEW c \in Child, ProcessStep(c) \/ Actor(c)
  PROVE  exit' = exit \/ (~ExitKnown(c) /\ \E how : exit' = [exit EXCEPT ![c] = how])
<1>1. ExitKnown(c) => actor[c] = "done"
  BY DEF ManagerInv, ChildInv
<1>2. ExitKnown(c) => exit' = exit
  BY <1>1 DEF ProcessStep, ProcessExits, OrphansExit, CleanUp, Actor, ActorCommand,
     ActorNoCommand, ActorWaits, ActorSeesExit, GracefulExit, DescendantsDrained,
     GroupDrained, ShutdownCommand, ShutdownTimeout, ShuttingDown
<1>3. ASSUME NEW how, ActorEnds(c, how)
      PROVE  \E h : exit' = [exit EXCEPT ![c] = h]
  BY <1>3 DEF ActorEnds
<1>4. exit' = exit \/ \E how : ActorEnds(c, how)
  <2>1. KillTree(c) => \E how : ActorEnds(c, how)
    BY DEF KillTree
  <2>2. CASE ActorSeesExit(c)
    BY <2>2 DEF ActorSeesExit
  <2>3. CASE ~ActorSeesExit(c)
    BY <2>1, <2>3 DEF ProcessStep, ProcessExits, OrphansExit, CleanUp, Actor,
       ActorCommand, ActorNoCommand, ActorWaits, GracefulExit, DescendantsDrained,
       GroupDrained, ShutdownCommand, ShutdownTimeout, KillWaited
  <2>4. QED
    BY <2>2, <2>3
<1>5. QED
  BY <1>2, <1>3, <1>4

\* Every handle of a child sees the same exit.
THEOREM ExitsAreFinal == ManagerSpec => ExitIsFinal
<1>1. ManagerInv /\ [ManagerNext]_processVars =>
        [\A c \in Child : ExitKnown(c) => exit'[c] = exit[c]]_processVars
  <2> SUFFICES ASSUME ManagerInv, [ManagerNext]_processVars,
                      NEW c \in Child, ExitKnown(c)
               PROVE  exit'[c] = exit[c]
    OBVIOUS
  <2>1. CASE UNCHANGED processVars
    BY <2>1 DEF processVars, childVars
  <2>2. ManagerStep => exit' = exit
    BY DEF ManagerStep, Spawn, SpawnChild, BeginClose, BeginStopTasks, CloserSends,
           CloserEnds, SendCommand, Return, childVars
  <2>3. CASE ChildStep
    <3>1. PICK d \in Child : ProcessStep(d) \/ Actor(d)
      BY <2>3 DEF ChildStep
    <3>2. exit' = exit \/ (d # c /\ \E how : exit' = [exit EXCEPT ![d] = how])
      BY <3>1, ChildStepExit
    <3>3. QED
      BY <3>2 DEF ManagerInv, ManagerTypeOK, ChildTypeOK
  <2>4. QED
    BY <2>1, <2>2, <2>3 DEF ManagerNext
<1>2. QED
  BY <1>1, ManagerInvariant, PTL DEF ManagerSpec, ExitIsFinal

-----------------------------------------------------------------------------
(* The manager implements its contract.                                    *)

\* How a caller sees a child, by what the invariant knows of it.
LEMMA SeenByState ==
  ASSUME ManagerInv, NEW c \in Child
  PROVE  /\ SeenProcess(c) = "none" <=> code[c] = "none"
         /\ SeenProcess(c) = "running" <=>
              Unpublished(c) /\ ~TakenByStopTasks(c) /\ ~closing[c]
         /\ SeenProcess(c) = "closing" <=> Unpublished(c) /\ closing[c]
         /\ SeenProcess(c) = "stopping" <=> Unpublished(c) /\ TakenByStopTasks(c)
         /\ SeenProcess(c) = "zero" <=> exit[c] = "success"
         /\ SeenProcess(c) = "nonzero" <=> exit[c] \in {"nonzero", "killedExternal", "failed"}
         /\ SeenProcess(c) = "shutdown" <=>
              exit[c] \in {"interrupted", "killed"} /\ closing[c]
         /\ SeenProcess(c) = "restarted" <=>
              exit[c] \in {"interrupted", "killed"} /\ ~closing[c]
<1>1. /\ exit[c] \in ChildExit \cup {"none"} /\ closing[c] \in BOOLEAN
      /\ code[c] = "none" => exit[c] = "none"
      /\ closing[c] => ~TakenByStopTasks(c)
      /\ code[c] = "none" => ~closing[c] /\ ~TakenByStopTasks(c)
  BY DEF ManagerInv, ManagerTypeOK, ChildTypeOK, ChildInv, MapInv, CallInv, TakenByStopTasks
<1>2. CASE code[c] = "none"
  <2>1. SeenProcess(c) = "none"
    BY <1>1, <1>2 DEF SeenProcess
  <2> QED
    BY <1>1, <1>2, <2>1
<1>3. CASE code[c] # "none" /\ exit[c] = "none"
  <2>1. SeenProcess(c) = IF TakenByStopTasks(c) THEN "stopping"
                         ELSE IF closing[c] THEN "closing" ELSE "running"
    BY <1>3 DEF SeenProcess
  <2> QED
    BY <1>1, <1>3, <2>1
<1>4. CASE code[c] # "none" /\ exit[c] # "none"
  <2>1. SeenProcess(c) = CASE exit[c] = "success" -> "zero"
          [] exit[c] \in {"nonzero", "killedExternal", "failed"} -> "nonzero"
          [] exit[c] \in {"interrupted", "killed"} -> IF closing[c] THEN "shutdown"
                                                                   ELSE "restarted"
    BY <1>1, <1>4 DEF SeenProcess, ChildExit
  <2> QED
    BY <1>1, <1>4, <2>1 DEF ChildExit
<1> QED
  BY <1>2, <1>3, <1>4

\* A child is seen to change only when its code, its exit, its mark or its
\* stop_tasks does.
LEMMA SeenStays ==
  ASSUME NEW c \in Child, code'[c] = "none" <=> code[c] = "none", exit'[c] = exit[c],
         closing'[c] = closing[c], TakenByStopTasks(c)' <=> TakenByStopTasks(c)
  PROVE  SeenProcess(c)' = SeenProcess(c)
  BY DEF SeenProcess

\* A step of a child is seen as the end of its process, or not at all.
LEMMA ChildStepKeepsContract ==
  ASSUME ManagerInv, ManagerInv', ChildStep
  PROVE  [Contract!ContractNext]_Contract!contractVars
<1> DEFINE seen == [c \in Child |-> SeenProcess(c)]
<1>1. PICK c \in Child : ProcessStep(c) \/ Actor(c)
  BY DEF ChildStep
<1>2. /\ UNCHANGED <<is_closing, closing>>
      /\ \A d \in Child : TakenByStopTasks(d)' <=> TakenByStopTasks(d)
  BY DEF ChildStep, managerVars, TakenByStopTasks
<1>3. \A d \in Child : code[d] = "none" <=> code'[d] = "none"
  BY <1>1, OneChildStep DEF ChildStep
<1>4. CASE exit' = exit
  BY <1>2, <1>3, <1>4, SeenStays DEF Contract!contractVars
<1>5. CASE ~ExitKnown(c) /\ \E how : exit' = [exit EXCEPT ![c] = how]
  <2>1. \A d \in Child : d # c => exit'[d] = exit[d]
    BY <1>5 DEF ManagerInv, ManagerTypeOK, ChildTypeOK
  <2>2. \A d \in Child : d # c => SeenProcess(d)' = SeenProcess(d)
    BY <1>2, <1>3, <2>1, SeenStays
  <2>3. seen' = [seen EXCEPT ![c] = SeenProcess(c)']
    BY <2>2
  <2>4. CASE exit'[c] = "none"
    BY <1>2, <1>3, <1>5, <2>1, <2>4, SeenStays DEF Contract!contractVars
  <2>5. CASE exit'[c] # "none"
    <3>1. code[c] # "none" /\ code'[c] # "none"
      BY <1>3, <2>5 DEF ManagerInv, ChildInv
    <3>2. Contract!Alive(c)
      BY <1>5, <3>1, SeenByState DEF Contract!Alive
    <3>3. exit'[c] \in ChildExit
      BY <2>5 DEF ManagerInv, ManagerTypeOK, ChildTypeOK
    <3>4. CASE exit'[c] \in {"success", "nonzero", "killedExternal", "failed"}
      <4>1. SeenProcess(c)' \in {"zero", "nonzero"}
        BY <3>1, <3>4 DEF SeenProcess
      <4>2. Contract!Exits(c)
        BY <1>2, <2>3, <3>2, <4>1 DEF Contract!Exits
      <4> QED
        BY <4>2 DEF Contract!ContractNext
    <3>5. CASE exit'[c] \in {"interrupted", "killed"}
      <4>1. Stopped(c)' /\ (Stopped(c)' <=> Stopped(c))
        BY <1>2, <3>5 DEF ManagerInv, ChildInv, Stopped
      <4>2. SeenProcess(c)' = IF closing[c] THEN "shutdown" ELSE "restarted"
        BY <1>2, <3>1, <3>5 DEF SeenProcess
      <4>3. SeenProcess(c) = IF closing[c] THEN "closing" ELSE "stopping"
        BY <1>5, <3>1, <4>1, SeenByState DEF Stopped
      <4>4. Contract!Stopped(c)
        BY <1>2, <2>3, <4>2, <4>3 DEF Contract!Stopped
      <4> QED
        BY <4>4 DEF Contract!ContractNext
    <3> QED
      BY <3>3, <3>4, <3>5 DEF ChildExit
  <2> QED
    BY <2>4, <2>5
<1> QED
  BY <1>1, <1>4, <1>5, ChildStepExit

\* A spawn, and the beginning of a close and of a stop_tasks, are seen as such.
LEMMA SpawnKeepsContract ==
  ASSUME ManagerInv, NEW c \in Child, Spawn(c)
  PROVE  Contract!Spawn(c)
<1> DEFINE seen == [d \in Child |-> SeenProcess(d)]
<1>1. /\ code[c] = "none" /\ code' = [code EXCEPT ![c] = "running"]
      /\ UNCHANGED <<exit, closing, is_closing, mode, closer>> /\ ~is_closing
  BY DEF Spawn, SpawnChild
<1>2. \A d \in Child : TakenByStopTasks(d)' <=> TakenByStopTasks(d)
  BY <1>1 DEF TakenByStopTasks
<1>3. \A d \in Child : d # c => SeenProcess(d)' = SeenProcess(d)
  BY <1>1, <1>2, SeenStays DEF ManagerInv, ManagerTypeOK, ChildTypeOK
<1>4. SeenProcess(c) = "none" /\ SeenProcess(c)' = "running"
  <2>1. exit[c] = "none" /\ ~closing[c] /\ ~TakenByStopTasks(c)
    BY <1>1 DEF ManagerInv, ManagerTypeOK, ChildInv, MapInv, CallInv, TakenByStopTasks
  <2>2. code'[c] = "running"
    BY <1>1 DEF ManagerInv, ManagerTypeOK, ChildTypeOK
  <2> QED
    BY <1>1, <1>2, <2>1, <2>2 DEF SeenProcess
<1>5. seen' = [seen EXCEPT ![c] = "running"]
  BY <1>3, <1>4
<1> QED
  BY <1>1, <1>4, <1>5 DEF Contract!Spawn

LEMMA CloseKeepsContract ==
  ASSUME ManagerInv, ManagerInv', NEW k \in Call, NEW m \in CloseMode, BeginClose(k, m)
  PROVE  Contract!Close
<1>1. /\ UNCHANGED <<code, exit>> /\ is_closing' = TRUE
      /\ \A c \in Child : closing'[c] <=> closing[c] \/ c \in children
  BY DEF BeginClose, childVars
<1>2. \A d \in Child : TakenByStopTasks(d)' <=> TakenByStopTasks(d)
  BY DEF BeginClose, TakenByStopTasks, ManagerInv, ManagerTypeOK, CallInv, CloseMode
<1>3. ASSUME NEW c \in Child
      PROVE  SeenProcess(c)' = IF SeenProcess(c) = "running" THEN "closing"
                                                             ELSE SeenProcess(c)
  <2>1. CASE SeenProcess(c) = "running"
    <3>1. Unpublished(c) /\ ~TakenByStopTasks(c)
      BY <2>1, SeenByState
    <3>2. closing'[c]
      BY <1>1, <3>1 DEF ManagerInv, MapInv
    <3> QED
      BY <1>1, <1>2, <2>1, <3>1, <3>2 DEF SeenProcess
  <2>2. CASE SeenProcess(c) # "running"
    <3>1. code[c] = "none" => SeenProcess(c)' = SeenProcess(c)
      BY <1>1 DEF SeenProcess, ManagerInv, ChildInv
    <3>2. Unpublished(c) => TakenByStopTasks(c) \/ closing[c]
      BY <2>2, SeenByState
    <3>3. exit[c] \in {"interrupted", "killed"} => TakenByStopTasks(c) \/ closing[c]
      BY DEF ManagerInv, ChildInv, Stopped
    <3>4. TakenByStopTasks(c) \/ closing[c] => closing'[c] = closing[c]
      BY <1>1 DEF ManagerInv, ManagerTypeOK, MapInv
    <3>5. CASE TakenByStopTasks(c) \/ closing[c]
      BY <1>1, <1>2, <2>2, <3>4, <3>5, SeenStays
    <3>6. CASE exit[c] \in {"success", "nonzero", "killedExternal", "failed"}
      <4>1. code[c] # "none"
        BY <3>6 DEF ManagerInv, ChildInv
      <4>2. SeenProcess(c)' = SeenProcess(c)
        BY <1>1, <3>6, <4>1 DEF SeenProcess
      <4> QED
        BY <2>2, <4>2
    <3>7. exit[c] \in ChildExit \cup {"none"}
      BY DEF ManagerInv, ManagerTypeOK, ChildTypeOK
    <3> QED
      BY <2>2, <3>1, <3>2, <3>3, <3>5, <3>6, <3>7 DEF ChildExit
  <2> QED
    BY <2>1, <2>2
<1> QED
  BY <1>1, <1>3 DEF Contract!Close

LEMMA StopTasksKeepsContract ==
  ASSUME ManagerInv, ManagerInv', NEW k \in Call, NEW T \in SUBSET Task, BeginStopTasks(k, T)
  PROVE  [Contract!ContractNext]_Contract!contractVars
<1> DEFINE stopped == {c \in children : TaskOf[c] \in T}
<1>1. UNCHANGED <<code, exit, closing, is_closing>> /\ mode[k] = "none"
  BY DEF BeginStopTasks, childVars
<1>2. CASE is_closing
  <2>1. closer' = closer /\ mode' = [mode EXCEPT ![k] = "tasks"]
    BY <1>2 DEF BeginStopTasks
  <2>2. \A d \in Child : TakenByStopTasks(d)' <=> TakenByStopTasks(d)
    BY <1>1, <2>1 DEF TakenByStopTasks, ManagerInv, ManagerTypeOK, CallInv
  <2> QED
    BY <1>1, <2>2, SeenStays DEF Contract!contractVars
<1>3. CASE ~is_closing
  <2>1. /\ closer' = [closer EXCEPT ![k] = Closers(stopped, "send")]
        /\ mode' = [mode EXCEPT ![k] = "tasks"]
    BY <1>3 DEF BeginStopTasks
  <2>2. ASSUME NEW c \in Child
        PROVE  TakenByStopTasks(c)' <=> TakenByStopTasks(c) \/ c \in stopped
    <3>1. ASSUME NEW j \in Call
          PROVE  (mode'[j] = "tasks" /\ closer'[j][c] # "none") <=>
                   \/ mode[j] = "tasks" /\ closer[j][c] # "none"
                   \/ j = k /\ c \in stopped
      BY <1>1, <2>1 DEF Closers, ManagerInv, ManagerTypeOK, CallInv
    <3>2. QED
      BY <3>1 DEF TakenByStopTasks
  <2>3. ASSUME NEW c \in Child
        PROVE  SeenProcess(c)' = IF c \in stopped /\ SeenProcess(c) = "running"
                                 THEN "stopping" ELSE SeenProcess(c)
    <3>1. CASE c \in stopped /\ SeenProcess(c) = "running"
      <4>1. Unpublished(c) /\ TakenByStopTasks(c)'
        BY <2>2, <3>1, SeenByState
      <4>2. SeenProcess(c)' = "stopping"
        BY <1>1, <4>1 DEF SeenProcess
      <4> QED
        BY <3>1, <4>2
    <3>2. CASE c \in stopped /\ SeenProcess(c) # "running"
      <4>1. code[c] # "none" /\ ~closing[c] /\ ~TakenByStopTasks(c)
        BY <1>3, <3>2 DEF ManagerInv, MapInv
      <4>2. ExitKnown(c)
        BY <3>2, <4>1, SeenByState
      <4>3. SeenProcess(c)' = SeenProcess(c)
        BY <1>1, <4>1, <4>2 DEF SeenProcess
      <4> QED
        BY <3>2, <4>3
    <3>3. CASE c \notin stopped
      BY <1>1, <2>2, <3>3, SeenStays
    <3> QED
      BY <3>1, <3>2, <3>3
  <2>4. stopped \in SUBSET Child
    BY DEF ManagerInv, ManagerTypeOK
  <2>5. Contract!StopTasks(stopped)
    BY <1>1, <1>3, <2>3 DEF Contract!StopTasks
  <2> QED
    BY <2>4, <2>5 DEF Contract!ContractNext
<1> QED
  BY <1>2, <1>3

\* The futures of a call, and its return, are not seen.
LEMMA CloserKeepsContract ==
  ASSUME ManagerInv, NEW k \in Call,
         (\E c \in Child : CloserSends(k, c) \/ CloserEnds(k, c)) \/ Return(k)
  PROVE  UNCHANGED Contract!contractVars
<1>1. UNCHANGED <<code, exit, closing, is_closing, mode>>
  BY DEF CloserSends, CloserEnds, SendCommand, Return, childVars
<1>2. \A j \in Call, d \in Child : closer'[j][d] = "none" <=> closer[j][d] = "none"
  BY DEF CloserSends, CloserEnds, Return, ManagerInv, ManagerTypeOK
<1>3. \A d \in Child : TakenByStopTasks(d)' <=> TakenByStopTasks(d)
  BY <1>1, <1>2 DEF TakenByStopTasks
<1> QED
  BY <1>1, <1>3, SeenStays DEF Contract!contractVars

\* The manager implements its contract, for any number of children and of
\* overlapping calls.
THEOREM ManagerKeepsContract == ManagerSpec => ImplementsContract
<1>1. ManagerInit => Contract!ContractInit
  BY DEF ManagerInit, ChildInit, Contract!ContractInit, SeenProcess
<1>2. ManagerInv /\ ManagerInv' /\ [ManagerNext]_processVars =>
        [Contract!ContractNext]_Contract!contractVars
  <2> SUFFICES ASSUME ManagerInv, ManagerInv', [ManagerNext]_processVars
               PROVE  [Contract!ContractNext]_Contract!contractVars
    OBVIOUS
  <2>1. CASE UNCHANGED processVars
    BY <2>1, SeenStays DEF processVars, childVars, managerVars, TakenByStopTasks,
       Contract!contractVars
  <2>2. CASE ChildStep
    BY <2>2, ChildStepKeepsContract
  <2>3. ASSUME NEW c \in Child, Spawn(c)
        PROVE  Contract!ContractNext
    BY <2>3, SpawnKeepsContract DEF Contract!ContractNext
  <2>4. ASSUME NEW k \in Call, NEW m \in CloseMode, BeginClose(k, m)
        PROVE  Contract!ContractNext
    BY <2>4, CloseKeepsContract DEF Contract!ContractNext
  <2> QED
    BY <2>1, <2>2, <2>3, <2>4, StopTasksKeepsContract, CloserKeepsContract
       DEF ManagerNext, ManagerStep
<1> QED
  BY <1>1, <1>2, ManagerInvariant, PTL DEF ManagerSpec, ImplementsContract,
     Contract!ContractSpec

\* For every call, too, that has returned, the condition of the contract holds.
THEOREM ReturnsKeepContract == ManagerSpec => []ReturnedAsPromised
<1>1. ManagerInv /\ ReturnedMeansExited => ReturnedAsPromised
  <2> SUFFICES ASSUME ManagerInv, ReturnedMeansExited, NEW k \in returned
               PROVE  IF mode[k] = "tasks"
                      THEN Contract!StopReturns({c \in Child : closer[k][c] # "none"})
                      ELSE Contract!CloseReturns
    BY DEF ReturnedAsPromised
  <2>1. k \in Call
    BY DEF ManagerInv, ManagerTypeOK
  <2>2. ASSUME NEW c \in Child, IsFor(k, c)
        PROVE  SeenProcess(c) \notin {"running", "closing", "stopping"}
    BY <2>2, SeenByState DEF ReturnedMeansExited
  <2>3. CASE mode[k] = "tasks"
    <3>1. ASSUME NEW c \in Child, closer[k][c] # "none"
          PROVE  IsFor(k, c)
      BY <2>1, <2>3, <3>1 DEF IsFor, ManagerInv, CallInv
    <3> QED
      BY <2>2, <2>3, <3>1 DEF Contract!StopReturns, Contract!Alive
  <2>4. CASE mode[k] # "tasks"
    <3>1. ASSUME NEW c \in Child, SeenProcess(c) \in {"running", "closing"}
          PROVE  IsFor(k, c)
      BY <2>4, <3>1, SeenByState DEF IsFor, ManagerInv, MapInv
    <3> QED
      BY <2>2, <2>4, <3>1 DEF Contract!CloseReturns
  <2> QED
    BY <2>3, <2>4
<1> QED
  BY <1>1, ManagerInvariant, CallsAreComplete, PTL

-----------------------------------------------------------------------------
(* The write-behind cache.                                                 *)

\* The channel takes a request once, and what the loop has not received awaits it.
ChannelInv ==
  /\ \A i, j \in 1 .. Len(accepted) : accepted[i] = accepted[j] => i = j
  /\ \A i \in 1 .. Len(accepted) : status[accepted[i]] \notin {"idle", "sending"}
  /\ \A i \in received + 1 .. Len(accepted) : status[accepted[i]] = "accepted"
  /\ \A r \in Request : status[r] = "accepted" => \E i \in 1 .. Len(accepted) : accepted[i] = r
  /\ ~handles => \A r \in Request : status[r] # "sending"

\* The loop takes requests.
Looping == {"receiving", "acquiring", "flushing"}

\* Where the loop is: it handles the request it received last, and leaves at the
\* first shutdown or when it has handled everything.
LoopInv ==
  /\ open <=> loop \in Looping \cup {"left"}
  /\ ~open => received = Len(accepted)
  /\ loop = "receiving" => current = "none"
  /\ loop \in {"acquiring", "flushing"} =>
       received > 0 /\ accepted[received] = current /\ status[current] = "accepted"
  /\ loop = "acquiring" => current \in Write \ writing
  /\ loop = "flushing" => current \in Flush
  /\ loop \notin Looping /\ current = "none" => ~handles /\ received = Len(accepted)

\* No shutdown was received before the one at which the loop left.
ShutdownInv ==
  /\ loop \in Looping \/ current = "none" =>
       \A j \in 1 .. received : accepted[j] \notin Shutdown
  /\ loop \notin Looping /\ current # "none" =>
       /\ current \in Shutdown
       /\ \E i \in 1 .. received :
            /\ accepted[i] = current
            /\ \A j \in 1 .. i - 1 : accepted[j] \notin Shutdown
  /\ \A s \in Shutdown : status[s] = "done" => loop = "done" /\ current = s

\* A write that was received is with the loop, with a writer, or over.
WriterInv ==
  /\ \A i \in 1 .. received : accepted[i] \in Write =>
       \/ status[accepted[i]] \in {"done", "lost"}
       \/ /\ status[accepted[i]] = "accepted"
          /\ accepted[i] \in writing \/ (loop = "acquiring" /\ accepted[i] = current)
  /\ \A w \in writing : status[w] = "accepted" /\ \E i \in 1 .. received : accepted[i] = w
  /\ loop = "done" => writing = {}

\* The inductive invariant of the cache.
CacheInv ==
  /\ CacheTypeOK /\ ChannelInv /\ LoopInv /\ ShutdownInv /\ WriterInv
  /\ LostOnlyBehindShutdown /\ FlushCoversEarlierWrites

-----------------------------------------------------------------------------
(* The callers.                                                            *)

\* A request is called, or refused: it is not in the channel.
LEMMA CallStep ==
  ASSUME CacheInv, NEW r \in Request, CallCache(r) \/ Refuse(r)
  PROVE  CacheInv'
<1> USE CacheAssumption DEF CacheInv
<1>1. /\ status[r] \in {"idle", "sending"} /\ status'[r] \in {"sending", "refused"}
      /\ \A q \in Request : q # r => status'[q] = status[q]
      /\ status' \in [Request -> CallState]
      /\ UNCHANGED <<accepted, received, open, handles, loop, current, writing>>
      /\ status'[r] = "sending" => handles
  BY DEF CallCache, Refuse, CacheTypeOK, CallState
<1>2. \A i \in 1 .. Len(accepted) : accepted[i] \in Request /\ accepted[i] # r
  BY <1>1 DEF CacheTypeOK, ChannelInv
<1>3. \A i \in 1 .. Len(accepted) : status'[accepted[i]] = status[accepted[i]]
  BY <1>1, <1>2
<1>4. CacheTypeOK'
  BY <1>1 DEF CacheTypeOK
<1>5. ChannelInv'
  BY <1>1, <1>3 DEF ChannelInv, CacheTypeOK
<1>6. received \in 0 .. Len(accepted) /\ Len(accepted) \in Nat
  BY DEF CacheTypeOK
<1>7. LoopInv'
  BY <1>1, <1>3, <1>6 DEF LoopInv
<1>8. ShutdownInv'
  BY <1>1 DEF ShutdownInv, Request
<1>9. WriterInv'
  BY <1>1, <1>3, <1>6 DEF WriterInv
<1>10. LostOnlyBehindShutdown'
  BY <1>1 DEF LostOnlyBehindShutdown, Before, Request
<1>11. FlushCoversEarlierWrites'
  BY <1>1 DEF FlushCoversEarlierWrites, Before, Request
<1>12. QED
  BY <1>4, <1>5, <1>7, <1>8, <1>9, <1>10, <1>11

\* A request is put behind those in the channel.
LEMMA SendStep ==
  ASSUME CacheInv, NEW r \in Request, Send(r)
  PROVE  CacheInv'
<1> USE CacheAssumption DEF CacheInv
<1>1. /\ status[r] = "sending" /\ open
      /\ UNCHANGED <<received, open, handles, loop, current, writing>>
  BY DEF Send
<1>2. /\ status'[r] = "accepted" /\ status' \in [Request -> CallState]
      /\ \A q \in Request : q # r => status'[q] = status[q]
  BY DEF Send, CacheTypeOK, CallState
<1>3. accepted \in Seq(Request) /\ accepted' = Append(accepted, r)
  BY DEF Send, CacheTypeOK
<1>4. /\ Len(accepted) \in Nat /\ Len(accepted') = Len(accepted) + 1
      /\ \A i \in 1 .. Len(accepted) : accepted'[i] = accepted[i]
      /\ accepted'[Len(accepted) + 1] = r
      /\ accepted' \in Seq(Request)
  BY <1>3
<1>5. received \in 0 .. Len(accepted) /\ handles
  BY <1>1 DEF CacheTypeOK, ChannelInv
<1>6. \A i \in 1 .. Len(accepted) : accepted[i] \in Request \ {r}
  BY <1>1, <1>3 DEF ChannelInv
<1>7. \A i \in 1 .. Len(accepted) : status'[accepted[i]] = status[accepted[i]]
  BY <1>2, <1>6
<1>8. CacheTypeOK'
  BY <1>1, <1>2, <1>4 DEF CacheTypeOK
<1>9. ChannelInv'
  <2>1. \A i, j \in 1 .. Len(accepted') : accepted'[i] = accepted'[j] => i = j
    BY <1>4, <1>6 DEF ChannelInv
  <2>2. \A i \in 1 .. Len(accepted') : status'[accepted'[i]] \notin {"idle", "sending"}
    BY <1>2, <1>4, <1>7 DEF ChannelInv
  <2>3. \A i \in received + 1 .. Len(accepted') : status'[accepted'[i]] = "accepted"
    BY <1>2, <1>4, <1>5, <1>7 DEF ChannelInv
  <2>4. \A q \in Request : status'[q] = "accepted" =>
          \E i \in 1 .. Len(accepted') : accepted'[i] = q
    <3> SUFFICES ASSUME NEW q \in Request, status'[q] = "accepted", q # r
                 PROVE  \E i \in 1 .. Len(accepted') : accepted'[i] = q
      BY <1>4
    <3>1. PICK i \in 1 .. Len(accepted) : accepted[i] = q
      BY <1>2 DEF ChannelInv
    <3>2. QED
      BY <1>4, <3>1
  <2>5. QED
    BY <1>1, <1>5, <2>1, <2>2, <2>3, <2>4 DEF ChannelInv
<1>10. LoopInv'
  <2>1. loop \in {"acquiring", "flushing"} => received > 0 /\ accepted'[received] = accepted[received]
    BY <1>4, <1>5 DEF LoopInv
  <2>2. loop \in {"acquiring", "flushing"} => status'[current] = "accepted"
    BY <1>1, <1>2 DEF LoopInv, CacheTypeOK
  <2>3. QED
    BY <1>1, <1>5, <2>1, <2>2 DEF LoopInv
<1>11. ShutdownInv'
  <2>1. \A i \in 1 .. received : accepted'[i] = accepted[i]
    BY <1>4, <1>5
  <2>2. \A s \in Shutdown : status'[s] = "done" => status[s] = "done"
    BY <1>2 DEF Request
  <2>3. QED
    BY <1>1, <1>5, <2>1, <2>2 DEF ShutdownInv
<1>12. WriterInv'
  BY <1>1, <1>4, <1>5, <1>6, <1>7 DEF WriterInv
<1>13. \A p, q : Before(p, q) => Before(p, q)'
  BY <1>4 DEF Before
<1>14. \A p, q \in Request : Before(p, q)' /\ q # r => Before(p, q)
  <2> SUFFICES ASSUME NEW p \in Request, NEW q \in Request, Before(p, q)', q # r
               PROVE  Before(p, q)
    OBVIOUS
  <2>1. PICK j \in 1 .. Len(accepted') : \E i \in 1 .. j - 1 : accepted'[i] = p /\ accepted'[j] = q
    BY DEF Before
  <2>2. j \in 1 .. Len(accepted)
    BY <1>4, <2>1
  <2>3. QED
    BY <1>4, <2>1, <2>2 DEF Before
<1>15. LostOnlyBehindShutdown'
  <2> SUFFICES ASSUME NEW w \in Write, status'[w] = "lost"
               PROVE  \E s \in Shutdown : Before(s, w)'
    BY DEF LostOnlyBehindShutdown
  <2>1. status[w] = "lost"
    BY <1>2 DEF Request
  <2>2. QED
    BY <1>13, <2>1 DEF LostOnlyBehindShutdown
<1>16. FlushCoversEarlierWrites'
  <2> SUFFICES ASSUME NEW f \in Flush, NEW w \in Write, status'[f] = "done", Before(w, f)',
                      ~(\E s \in Shutdown : Before(s, f)')
               PROVE  status'[w] = "done"
    BY DEF FlushCoversEarlierWrites
  <2>1. f # r /\ status[f] = "done"
    BY <1>2 DEF Request
  <2>2. Before(w, f) /\ ~(\E s \in Shutdown : Before(s, f))
    BY <1>13, <1>14, <2>1 DEF Request
  <2>3. status[w] = "done"
    BY <2>1, <2>2 DEF FlushCoversEarlierWrites
  <2>4. QED
    BY <1>1, <1>2, <2>3 DEF Request
<1>17. QED
  BY <1>8, <1>9, <1>10, <1>11, <1>12, <1>15, <1>16

\* The last handle goes.
LEMMA DropStep ==
  ASSUME CacheInv, DropHandles
  PROVE  CacheInv'
<1> USE DEF DropHandles, CacheInv
<1>1. CacheTypeOK' /\ ChannelInv'
  BY DEF CacheTypeOK, ChannelInv
<1>2. LoopInv' /\ ShutdownInv' /\ WriterInv'
  BY DEF LoopInv, ShutdownInv, WriterInv
<1>3. LostOnlyBehindShutdown' /\ FlushCoversEarlierWrites'
  BY DEF LostOnlyBehindShutdown, FlushCoversEarlierWrites, Before
<1>4. QED
  BY <1>1, <1>2, <1>3

-----------------------------------------------------------------------------
(* The worker loop.                                                        *)

\* Where a request is in the channel, and what was accepted before it, does not
\* change when nothing is sent.
LEMMA OrderStays ==
  ASSUME UNCHANGED accepted, UNCHANGED status, LostOnlyBehindShutdown, FlushCoversEarlierWrites
  PROVE  LostOnlyBehindShutdown' /\ FlushCoversEarlierWrites'
BY DEF LostOnlyBehindShutdown, FlushCoversEarlierWrites, Before

\* write_consumer.recv()
LEMMA ReceiveStep ==
  ASSUME CacheInv, Receive
  PROVE  CacheInv'
<1> USE CacheAssumption DEF CacheInv
<1>1. /\ loop = "receiving" /\ current = "none"
      /\ UNCHANGED <<accepted, open, handles, status, writing>>
  BY DEF Receive, LoopInv
<1>2. received \in 0 .. Len(accepted) /\ Len(accepted) \in Nat /\ accepted \in Seq(Request)
  BY DEF CacheTypeOK
<1>3. \A j \in 1 .. received : accepted[j] \notin Shutdown
  BY <1>1 DEF ShutdownInv, Looping
<1>4. \A s \in Shutdown : status[s] # "done"
  BY <1>1 DEF ShutdownInv
<1>5. LostOnlyBehindShutdown' /\ FlushCoversEarlierWrites'
  BY <1>1, OrderStays
<1>6. open
  BY <1>1 DEF LoopInv, Looping
<1>7. ASSUME received < Len(accepted), received' = received + 1,
             current' = accepted[received + 1],
             loop' = CASE current' \in Write    -> "acquiring"
                       [] current' \in Flush    -> "flushing"
                       [] current' \in Shutdown -> "left"
      PROVE  CacheInv'
  <2>1. current' \in Request /\ status[current'] = "accepted" /\ received' \in 1 .. Len(accepted)
    BY <1>2, <1>7 DEF ChannelInv
  <2>2. \/ current' \in Write /\ loop' = "acquiring"
        \/ current' \in Flush /\ loop' = "flushing"
        \/ current' \in Shutdown /\ loop' = "left"
    BY <1>7, <2>1 DEF Request
  <2>3. CacheTypeOK'
    BY <1>1, <1>2, <2>1, <2>2 DEF CacheTypeOK, LoopState
  <2>4. ChannelInv'
    BY <1>1, <1>2, <1>7 DEF ChannelInv
  <2>5. current' \notin writing
    <3> SUFFICES ASSUME current' \in writing
                 PROVE  FALSE
      OBVIOUS
    <3>1. PICK i \in 1 .. received : accepted[i] = current'
      BY DEF WriterInv
    <3>2. i = received + 1
      BY <1>2, <1>7, <3>1 DEF ChannelInv
    <3>3. QED
      BY <1>2, <3>1, <3>2
  <2>6. current' # "none"
    BY <2>1 DEF Request
  <2>7. LoopInv'
    BY <1>1, <1>2, <1>6, <1>7, <2>1, <2>2, <2>5, <2>6 DEF LoopInv, Looping
  <2>8. ShutdownInv'
    <3>1. CASE loop' = "left"
      BY <1>1, <1>2, <1>3, <1>4, <1>7, <2>1, <2>2, <2>6, <3>1 DEF ShutdownInv, Looping
    <3>2. CASE loop' \in {"acquiring", "flushing"}
      <4>1. \A j \in 1 .. received' : accepted[j] \notin Shutdown
        BY <1>2, <1>3, <1>7, <2>2, <3>2
      <4>2. QED
        BY <1>1, <1>4, <3>2, <4>1 DEF ShutdownInv, Looping
    <3>3. QED
      BY <2>2, <3>1, <3>2
  <2>9. WriterInv'
    <3>1. \A i \in 1 .. received' : accepted[i] \in Write =>
            \/ status[accepted[i]] \in {"done", "lost"}
            \/ /\ status[accepted[i]] = "accepted"
               /\ accepted[i] \in writing \/ (loop' = "acquiring" /\ accepted[i] = current')
      <4> SUFFICES ASSUME NEW i \in 1 .. received', accepted[i] \in Write
                   PROVE  \/ status[accepted[i]] \in {"done", "lost"}
                          \/ /\ status[accepted[i]] = "accepted"
                             /\ \/ accepted[i] \in writing
                                \/ loop' = "acquiring" /\ accepted[i] = current'
        OBVIOUS
      <4>1. CASE i = received + 1
        BY <1>7, <2>1, <2>2, <4>1
      <4>2. CASE i \in 1 .. received
        BY <1>1, <4>2 DEF WriterInv
      <4>3. QED
        BY <1>2, <1>7, <4>1, <4>2
    <3>2. \A w \in writing : status[w] = "accepted" /\ \E i \in 1 .. received' : accepted[i] = w
      BY <1>2, <1>7 DEF WriterInv
    <3>3. loop' # "done"
      BY <2>2
    <3>4. QED
      BY <1>1, <3>1, <3>2, <3>3 DEF WriterInv
  <2>10. QED
    BY <1>5, <2>3, <2>4, <2>7, <2>8, <2>9
<1>8. ASSUME received = Len(accepted), ~handles, loop' = "left", UNCHANGED <<received, current>>
      PROVE  CacheInv'
  <2>1. CacheTypeOK' /\ ChannelInv'
    BY <1>1, <1>8 DEF CacheTypeOK, ChannelInv, LoopState
  <2>2. LoopInv'
    BY <1>1, <1>6, <1>8 DEF LoopInv, Looping
  <2>3. ShutdownInv'
    BY <1>1, <1>3, <1>4, <1>8 DEF ShutdownInv
  <2>4. WriterInv'
    BY <1>1, <1>8 DEF WriterInv
  <2>5. QED
    BY <1>5, <2>1, <2>2, <2>3, <2>4
<1>9. QED
  BY <1>7, <1>8 DEF Receive

\* The writer is spawned.
LEMMA StartStep ==
  ASSUME CacheInv, StartWriter
  PROVE  CacheInv'
<1> USE CacheAssumption DEF CacheInv
<1>1. /\ loop = "acquiring" /\ loop' = "receiving" /\ current' = "none"
      /\ writing' = writing \cup {current}
      /\ UNCHANGED <<accepted, received, open, handles, status>>
  BY DEF StartWriter
<1>2. current \in Write /\ status[current] = "accepted"
  BY <1>1 DEF LoopInv
<1>3. received \in 1 .. Len(accepted) /\ accepted[received] = current
  BY <1>1 DEF LoopInv, CacheTypeOK
<1>4. LostOnlyBehindShutdown' /\ FlushCoversEarlierWrites'
  BY <1>1, OrderStays
<1>5. CacheTypeOK' /\ ChannelInv'
  BY <1>1, <1>2 DEF CacheTypeOK, ChannelInv, LoopState
<1>6. LoopInv'
  BY <1>1 DEF LoopInv, Looping
<1>7. ShutdownInv'
  BY <1>1 DEF ShutdownInv, Looping
<1>8. WriterInv'
  BY <1>1, <1>2, <1>3 DEF WriterInv
<1>9. QED
  BY <1>4, <1>5, <1>6, <1>7, <1>8

\* The writers are through, and so is the flush.
LEMMA FlushStep ==
  ASSUME CacheInv, Flushed
  PROVE  CacheInv'
<1> USE CacheAssumption DEF CacheInv
<1>1. /\ loop = "flushing" /\ loop' = "receiving" /\ current' = "none" /\ writing = {}
      /\ UNCHANGED <<accepted, received, open, handles, writing>>
  BY DEF Flushed
<1>2. /\ status[current] = "accepted" /\ current \in Flush
      /\ status'[current] = "done" /\ status' \in [Request -> CallState]
      /\ \A q \in Request : q # current => status'[q] = status[q]
  BY <1>1 DEF Flushed, LoopInv, CacheTypeOK, Request, CallState
<1>3. received \in 1 .. Len(accepted) /\ Len(accepted) \in Nat /\ accepted[received] = current
  BY <1>1 DEF LoopInv, CacheTypeOK
<1>4. \A i \in 1 .. Len(accepted) : accepted[i] \in Request
  BY DEF CacheTypeOK
<1>5. \A i \in 1 .. Len(accepted) : i # received => accepted[i] # current
  BY <1>3 DEF ChannelInv
<1>6. CacheTypeOK'
  BY <1>1, <1>2 DEF CacheTypeOK, LoopState
<1>7. ChannelInv'
  BY <1>1, <1>2, <1>3, <1>4, <1>5 DEF ChannelInv
<1>8. LoopInv'
  BY <1>1 DEF LoopInv, Looping
<1>9. ShutdownInv'
  BY <1>1, <1>2 DEF ShutdownInv, Looping, Request
<1>10. WriterInv'
  BY <1>1, <1>2, <1>3, <1>4 DEF WriterInv
<1>11. LostOnlyBehindShutdown'
  BY <1>1, <1>2 DEF LostOnlyBehindShutdown, Before, Request
<1>12. FlushCoversEarlierWrites'
  <2> SUFFICES ASSUME NEW f \in Flush, NEW w \in Write, status'[f] = "done", Before(w, f),
                      ~(\E s \in Shutdown : Before(s, f))
               PROVE  status'[w] = "done"
    BY <1>1 DEF FlushCoversEarlierWrites, Before
  <2>1. CASE f # current
    BY <1>2, <2>1 DEF FlushCoversEarlierWrites, Request
  <2>2. CASE f = current
    <3>1. PICK j \in 1 .. Len(accepted) :
            \E i \in 1 .. j - 1 : accepted[i] = w /\ accepted[j] = f
      BY DEF Before
    <3>2. PICK i \in 1 .. j - 1 : accepted[i] = w /\ accepted[j] = f
      BY <3>1
    <3>3. i \in 1 .. received /\ i < received
      BY <1>3, <1>5, <2>2, <3>1, <3>2
    <3>4. status[w] \in {"done", "lost"}
      BY <1>1, <3>2, <3>3 DEF WriterInv
    <3>5. status[w] # "lost"
      <4> SUFFICES ASSUME status[w] = "lost"
                   PROVE  FALSE
        OBVIOUS
      <4>1. PICK s \in Shutdown : Before(s, w)
        BY DEF LostOnlyBehindShutdown
      <4>2. PICK m \in 1 .. Len(accepted) :
              \E k \in 1 .. m - 1 : accepted[k] = s /\ accepted[m] = w
        BY <4>1 DEF Before
      <4>3. PICK k \in 1 .. m - 1 : accepted[k] = s /\ accepted[m] = w
        BY <4>2
      <4>4. m = i
        BY <1>3, <3>2, <3>3, <4>3 DEF ChannelInv
      <4>5. QED
        BY <1>3, <3>2, <3>3, <4>3, <4>4 DEF Before
    <3>6. QED
      BY <1>2, <2>2, <3>4, <3>5 DEF Request
  <2>3. QED
    BY <2>1, <2>2
<1>13. QED
  BY <1>6, <1>7, <1>8, <1>9, <1>10, <1>11, <1>12

\* The receiver is dropped.
LEMMA ReceiverStep ==
  ASSUME CacheInv, DropReceiver
  PROVE  CacheInv'
<1> USE CacheAssumption DEF CacheInv
<1>1. /\ loop = "left" /\ loop' = "closing" /\ open' = FALSE /\ received' = Len(accepted)
      /\ UNCHANGED <<accepted, handles, current, writing>>
  BY DEF DropReceiver
<1>2. received \in 0 .. Len(accepted) /\ Len(accepted) \in Nat
      /\ \A i \in 1 .. Len(accepted) : accepted[i] \in Request
  BY DEF CacheTypeOK
<1>3. status' = [r \in Request |->
                   IF r \notin Queued  THEN status[r]
                   ELSE IF r \in Write THEN "lost"
                   ELSE IF r \in Flush THEN "done"
                   ELSE "refused"]
  BY DEF DropReceiver
<1>4. \A r \in Request : r \in Queued <=> \E i \in received + 1 .. Len(accepted) : accepted[i] = r
  BY DEF Queued
<1>5. \A r \in Request : r \in Queued => status[r] = "accepted"
  BY <1>4 DEF ChannelInv
<1>6. \A i \in 1 .. received : accepted[i] \notin Queued
  BY <1>2, <1>4 DEF ChannelInv
<1> HIDE DEF Queued
<1>7. /\ \A r \in Request \ Queued : status'[r] = status[r]
      /\ \A r \in Queued \cap Write : status'[r] = "lost"
      /\ \A r \in Queued \cap Flush : status'[r] = "done"
      /\ \A r \in Queued \cap Shutdown : status'[r] = "refused"
      /\ status' \in [Request -> CallState]
  BY <1>3 DEF Request, CacheTypeOK, CallState
<1>8. CacheTypeOK'
  <2>1. received' \in 0 .. Len(accepted') /\ loop' \in LoopState
    BY <1>1, <1>2 DEF LoopState
  <2>2. open' \in BOOLEAN
    BY <1>1
  <2>3. QED
    BY <1>1, <1>7, <2>1, <2>2 DEF CacheTypeOK
<1>9. \A i \in 1 .. Len(accepted) : i \in received + 1 .. Len(accepted) => accepted[i] \in Queued
  BY <1>2, <1>4
<1>10. ChannelInv'
  <2>1. \A i \in 1 .. Len(accepted) : status'[accepted[i]] \notin {"idle", "sending"}
    <3> SUFFICES ASSUME NEW i \in 1 .. Len(accepted)
                 PROVE  status'[accepted[i]] \notin {"idle", "sending"}
      OBVIOUS
    <3>1. CASE accepted[i] \in Queued
      BY <1>2, <1>7, <3>1 DEF Request
    <3>2. CASE accepted[i] \notin Queued
      BY <1>2, <1>7, <3>2 DEF ChannelInv
    <3>3. QED
      BY <3>1, <3>2
  <2>2. \A r \in Request : status'[r] \in {"accepted", "sending"} => status[r] = status'[r]
    BY <1>7 DEF Request
  <2>3. QED
    BY <1>1, <1>2, <2>1, <2>2 DEF ChannelInv
<1>11. LoopInv'
  <2>1. current = "none" => ~handles
    BY <1>1 DEF LoopInv, Looping
  <2>2. QED
    BY <1>1, <2>1 DEF LoopInv, Looping
<1>12. current = "none" => received = Len(accepted)
  BY <1>1 DEF LoopInv, Looping
<1>13. current # "none" =>
         /\ current \in Shutdown
         /\ \E i \in 1 .. received :
              /\ accepted[i] = current
              /\ \A j \in 1 .. i - 1 : accepted[j] \notin Shutdown
  BY <1>1 DEF ShutdownInv, Looping
<1>14. ShutdownInv'
  <2>1. \A s \in Shutdown : status'[s] # "done"
    BY <1>1, <1>7 DEF ShutdownInv, Request
  <2>2. current = "none" => \A j \in 1 .. received : accepted[j] \notin Shutdown
    BY DEF ShutdownInv
  <2>3. QED
    BY <1>1, <1>2, <1>12, <1>13, <2>1, <2>2 DEF ShutdownInv, Looping
<1>15. WriterInv'
  <2>1. \A i \in 1 .. Len(accepted) : accepted[i] \in Write =>
          \/ status'[accepted[i]] \in {"done", "lost"}
          \/ status'[accepted[i]] = "accepted" /\ accepted[i] \in writing
    <3> SUFFICES ASSUME NEW i \in 1 .. Len(accepted), accepted[i] \in Write
                 PROVE  \/ status'[accepted[i]] \in {"done", "lost"}
                        \/ status'[accepted[i]] = "accepted" /\ accepted[i] \in writing
      OBVIOUS
    <3>1. CASE accepted[i] \in Queued
      BY <1>7, <3>1
    <3>2. CASE accepted[i] \notin Queued
      <4>1. i \in 1 .. received
        BY <1>2, <1>9, <3>2
      <4>2. QED
        BY <1>1, <1>2, <1>7, <3>2, <4>1 DEF WriterInv
    <3>3. QED
      BY <3>1, <3>2
  <2>2. \A w \in writing : status'[w] = "accepted" /\ \E i \in 1 .. Len(accepted) : accepted[i] = w
    BY <1>2, <1>6, <1>7 DEF WriterInv
  <2>3. QED
    BY <1>1, <2>1, <2>2 DEF WriterInv
<1>16. \A r \in Queued : current # "none" /\ Before(current, r)
  <2> SUFFICES ASSUME NEW r \in Queued
               PROVE  current # "none" /\ Before(current, r)
    OBVIOUS
  <2>1. PICK j \in received + 1 .. Len(accepted) : accepted[j] = r
    BY DEF Queued
  <2>2. current # "none"
    BY <1>2, <1>12, <2>1
  <2>3. PICK i \in 1 .. received : accepted[i] = current
    BY <1>13, <2>2
  <2>4. j \in 1 .. Len(accepted) /\ i \in 1 .. j - 1
    BY <1>2, <2>1, <2>3
  <2>5. QED
    BY <2>1, <2>2, <2>3, <2>4 DEF Before
<1>17. LostOnlyBehindShutdown'
  <2> SUFFICES ASSUME NEW w \in Write, status'[w] = "lost"
               PROVE  \E s \in Shutdown : Before(s, w)
    BY <1>1 DEF LostOnlyBehindShutdown, Before
  <2>1. CASE w \in Queued
    BY <1>13, <1>16, <2>1
  <2>2. CASE w \notin Queued
    BY <1>7, <2>2 DEF LostOnlyBehindShutdown, Request
  <2>3. QED
    BY <2>1, <2>2
<1>18. FlushCoversEarlierWrites'
  <2> SUFFICES ASSUME NEW f \in Flush, NEW w \in Write, status'[f] = "done", Before(w, f),
                      ~(\E s \in Shutdown : Before(s, f))
               PROVE  status'[w] = "done"
    BY <1>1 DEF FlushCoversEarlierWrites, Before
  <2>1. f \notin Queued
    BY <1>13, <1>16
  <2>2. status[w] = "done"
    BY <1>7, <2>1 DEF FlushCoversEarlierWrites, Request
  <2>3. QED
    BY <1>5, <1>7, <2>2 DEF Request
<1>19. QED
  BY <1>8, <1>10, <1>11, <1>14, <1>15, <1>17, <1>18

\* The shutdown is told that it started.
LEMMA StartedStep ==
  ASSUME CacheInv, Started
  PROVE  CacheInv'
<1> USE CacheAssumption DEF CacheInv
<1>1. /\ loop = "closing" /\ loop' = "draining"
      /\ UNCHANGED <<accepted, received, open, handles, current, writing>>
  BY DEF Started
<1>2. /\ status' \in [Request -> CallState]
      /\ current # "none" => current \in Shutdown /\ status'[current] = "started"
      /\ \A q \in Request : q # current => status'[q] = status[q]
  BY <1>1 DEF Started, ShutdownInv, Looping, CacheTypeOK, Request, CallState
<1>3. \A r \in Write \cup Flush : r # current
  BY <1>2 DEF Request
<1>4. \A r \in Write \cup Flush : status'[r] = status[r]
  BY <1>2, <1>3 DEF Request
<1>5. CacheTypeOK'
  BY <1>1, <1>2 DEF CacheTypeOK, LoopState
<1>6. received = Len(accepted) /\ Len(accepted) \in Nat
      /\ \A i \in 1 .. Len(accepted) : accepted[i] \in Request
  BY <1>1 DEF LoopInv, CacheTypeOK, Looping
<1>7. ChannelInv'
  BY <1>1, <1>2, <1>6 DEF ChannelInv, Request
<1>8. LoopInv'
  BY <1>1 DEF LoopInv, Looping
<1>9. ShutdownInv'
  <2>1. \A s \in Shutdown : status'[s] # "done"
    BY <1>1, <1>2 DEF ShutdownInv, Request
  <2>2. QED
    BY <1>1, <2>1 DEF ShutdownInv, Looping
<1>10. WriterInv'
  BY <1>1, <1>4, <1>6 DEF WriterInv, CacheTypeOK
<1>11. LostOnlyBehindShutdown'
  BY <1>1, <1>4 DEF LostOnlyBehindShutdown, Before
<1>12. FlushCoversEarlierWrites'
  BY <1>1, <1>4 DEF FlushCoversEarlierWrites, Before
<1>13. QED
  BY <1>5, <1>7, <1>8, <1>9, <1>10, <1>11, <1>12

\* The writers are through, and so is the shutdown.
LEMMA ClosedStep ==
  ASSUME CacheInv, Closed
  PROVE  CacheInv'
<1> USE CacheAssumption DEF CacheInv
<1>1. /\ loop = "draining" /\ loop' = "done" /\ writing = {}
      /\ UNCHANGED <<accepted, received, open, handles, current, writing>>
  BY DEF Closed
<1>2. /\ status' \in [Request -> CallState]
      /\ current # "none" => current \in Shutdown /\ status'[current] = "done"
      /\ \A q \in Request : q # current => status'[q] = status[q]
  BY <1>1 DEF Closed, ShutdownInv, Looping, CacheTypeOK, Request, CallState
<1>3. \A r \in Write \cup Flush : r # current
  BY <1>2 DEF Request
<1>4. \A r \in Write \cup Flush : status'[r] = status[r]
  BY <1>2, <1>3 DEF Request
<1>5. CacheTypeOK'
  BY <1>1, <1>2 DEF CacheTypeOK, LoopState
<1>6. received = Len(accepted) /\ Len(accepted) \in Nat
      /\ \A i \in 1 .. Len(accepted) : accepted[i] \in Request
  BY <1>1 DEF LoopInv, CacheTypeOK, Looping
<1>7. ChannelInv'
  BY <1>1, <1>2, <1>6 DEF ChannelInv, Request
<1>8. LoopInv'
  BY <1>1 DEF LoopInv, Looping
<1>9. ShutdownInv'
  <2>1. \A s \in Shutdown : status'[s] = "done" => current = s
    BY <1>1, <1>2 DEF ShutdownInv, Request
  <2>2. QED
    BY <1>1, <2>1 DEF ShutdownInv, Looping
<1>10. WriterInv'
  BY <1>1, <1>4, <1>6 DEF WriterInv, CacheTypeOK
<1>11. LostOnlyBehindShutdown'
  BY <1>1, <1>4 DEF LostOnlyBehindShutdown, Before
<1>12. FlushCoversEarlierWrites'
  BY <1>1, <1>4 DEF FlushCoversEarlierWrites, Before
<1>13. QED
  BY <1>5, <1>7, <1>8, <1>9, <1>10, <1>11, <1>12

\* A writer ends.
LEMMA EndStep ==
  ASSUME CacheInv, NEW w \in Write, EndWriter(w)
  PROVE  CacheInv'
<1> USE CacheAssumption DEF CacheInv
<1>1. /\ w \in writing /\ writing' = writing \ {w}
      /\ UNCHANGED <<accepted, received, open, handles, loop, current>>
  BY DEF EndWriter
<1>2. /\ status' \in [Request -> CallState] /\ status[w] = "accepted" /\ status'[w] = "done"
      /\ \A q \in Request : q # w => status'[q] = status[q]
  BY DEF EndWriter, CacheTypeOK, WriterInv, Request, CallState
<1>3. received \in 0 .. Len(accepted) /\ Len(accepted) \in Nat
      /\ \A i \in 1 .. Len(accepted) : accepted[i] \in Request
  BY DEF CacheTypeOK
<1>4. PICK n \in 1 .. received : accepted[n] = w
  BY <1>1 DEF WriterInv
<1>5. \A i \in 1 .. Len(accepted) : i # n => accepted[i] # w
  BY <1>3, <1>4 DEF ChannelInv
<1>6. CacheTypeOK'
  BY <1>1, <1>2 DEF CacheTypeOK
<1>7. ChannelInv'
  BY <1>1, <1>2, <1>3, <1>4, <1>5 DEF ChannelInv
<1>8. LoopInv'
  <2>1. loop \in {"acquiring", "flushing"} => current \in Request \ {w}
    BY <1>1 DEF LoopInv, Request
  <2>2. QED
    BY <1>1, <1>2, <2>1 DEF LoopInv, Looping
<1>9. ShutdownInv'
  BY <1>1, <1>2 DEF ShutdownInv, Request
<1>10. WriterInv'
  BY <1>1, <1>2, <1>3 DEF WriterInv, CacheTypeOK, Request
<1>11. LostOnlyBehindShutdown'
  BY <1>1, <1>2 DEF LostOnlyBehindShutdown, Before, Request
<1>12. FlushCoversEarlierWrites'
  BY <1>1, <1>2 DEF FlushCoversEarlierWrites, Before, Request
<1>13. QED
  BY <1>6, <1>7, <1>8, <1>9, <1>10, <1>11, <1>12

-----------------------------------------------------------------------------
(* The theorems.                                                           *)

\* The invariant holds of a cache that was not used.
LEMMA CacheInvInit == CacheInit => CacheInv
<1> SUFFICES ASSUME CacheInit
             PROVE  CacheInv
  OBVIOUS
<1> USE CacheAssumption DEF CacheInit
<1>1. CacheTypeOK
  BY DEF CacheTypeOK, LoopState, CallState
<1>2. ChannelInv /\ LoopInv
  BY DEF ChannelInv, LoopInv, Looping
<1>3. ShutdownInv /\ WriterInv
  BY DEF ShutdownInv, WriterInv, Looping, Request
<1>4. LostOnlyBehindShutdown /\ FlushCoversEarlierWrites
  BY DEF LostOnlyBehindShutdown, FlushCoversEarlierWrites, Request
<1>5. QED
  BY <1>1, <1>2, <1>3, <1>4 DEF CacheInv

\* Every step keeps the inductive invariant.
LEMMA CacheInvStep == CacheInv /\ [CacheNext]_cacheVars => CacheInv'
<1> SUFFICES ASSUME CacheInv, [CacheNext]_cacheVars
             PROVE  CacheInv'
  OBVIOUS
<1>1. CASE UNCHANGED cacheVars
  <2> USE <1>1 DEF cacheVars, CacheInv
  <2>1. CacheTypeOK' /\ ChannelInv' /\ LoopInv'
    BY DEF CacheTypeOK, ChannelInv, LoopInv
  <2>2. ShutdownInv' /\ WriterInv'
    BY DEF ShutdownInv, WriterInv
  <2>3. LostOnlyBehindShutdown' /\ FlushCoversEarlierWrites'
    BY OrderStays
  <2>4. QED
    BY <2>1, <2>2, <2>3
<1>2. CASE CacheNext
  BY <1>2, CallStep, SendStep, DropStep, ReceiveStep, StartStep, FlushStep, ReceiverStep,
     StartedStep, ClosedStep, EndStep DEF CacheNext, WorkerLoop
<1>3. QED
  BY <1>1, <1>2

\* The inductive invariant holds of every behaviour.
THEOREM CacheInvariant == CacheSpec => []CacheInv
<1>1. CacheInit => CacheInv
  BY CacheInvInit
<1>2. CacheInv /\ [CacheNext]_cacheVars => CacheInv'
  BY CacheInvStep
<1>3. QED
  BY <1>1, <1>2, PTL DEF CacheSpec

\* Every variable of the cache has its type.
THEOREM CacheTypeCorrect == CacheSpec => []CacheTypeOK
<1>1. CacheInv => CacheTypeOK
  BY DEF CacheInv
<1>2. QED
  BY <1>1, CacheInvariant, PTL

\* put: what it accepted is dropped only behind a shutdown that came before it.
THEOREM LostOnlyBehind == CacheSpec => []LostOnlyBehindShutdown
<1>1. CacheInv => LostOnlyBehindShutdown
  BY DEF CacheInv
<1>2. QED
  BY <1>1, CacheInvariant, PTL

\* wait: every write accepted before it has ended when it returns.
THEOREM FlushCovers == CacheSpec => []FlushCoversEarlierWrites
<1>1. CacheInv => FlushCoversEarlierWrites
  BY DEF CacheInv
<1>2. QED
  BY <1>1, CacheInvariant, PTL

\* What the invariant says of a shutdown that is through.
LEMMA ShutdownIsThrough == ASSUME CacheInv PROVE ShutdownCoversWrites
<1> USE CacheAssumption DEF CacheInv
<1> SUFFICES ASSUME NEW s \in Shutdown, status[s] = "done"
             PROVE  /\ writing = {}
                    /\ \A w \in Write : ~Pending(w)
                    /\ \A w \in Write : Before(w, s) => status[w] = "done"
  BY DEF ShutdownCoversWrites
<1>1. loop = "done" /\ current = s /\ s # "none"
  BY DEF ShutdownInv
<1>2. writing = {}
  BY <1>1 DEF WriterInv
<1>3. received = Len(accepted) /\ Len(accepted) \in Nat
  BY <1>1 DEF LoopInv, CacheTypeOK, Looping
<1>4. \A i \in 1 .. Len(accepted) : accepted[i] \in Write => status[accepted[i]] \in {"done", "lost"}
  BY <1>1, <1>2, <1>3 DEF WriterInv
<1>5. \A w \in Write : ~Pending(w)
  BY <1>4 DEF Pending, ChannelInv, Request
<1>6. ASSUME NEW w \in Write, Before(w, s)
      PROVE  status[w] = "done"
  <2>1. PICK j \in 1 .. Len(accepted) :
          \E i \in 1 .. j - 1 : accepted[i] = w /\ accepted[j] = s
    BY <1>6 DEF Before
  <2>2. PICK i \in 1 .. j - 1 : accepted[i] = w /\ accepted[j] = s
    BY <2>1
  <2>3. \A m \in 1 .. j - 1 : accepted[m] \notin Shutdown
    <3>1. PICK n \in 1 .. received :
            accepted[n] = s /\ \A m \in 1 .. n - 1 : accepted[m] \notin Shutdown
      BY <1>1 DEF ShutdownInv, Looping
    <3>2. n = j
      BY <1>3, <2>2, <3>1 DEF ChannelInv
    <3>3. QED
      BY <3>1, <3>2
  <2>4. status[w] # "lost"
    <3> SUFFICES ASSUME status[w] = "lost"
                 PROVE  FALSE
      OBVIOUS
    <3>1. PICK t \in Shutdown : Before(t, w)
      BY DEF LostOnlyBehindShutdown
    <3>2. PICK m \in 1 .. Len(accepted) :
            \E k \in 1 .. m - 1 : accepted[k] = t /\ accepted[m] = w
      BY <3>1 DEF Before
    <3>3. PICK k \in 1 .. m - 1 : accepted[k] = t /\ accepted[m] = w
      BY <3>2
    <3>4. m = i
      BY <1>3, <2>1, <2>2, <3>3 DEF ChannelInv
    <3>5. QED
      BY <1>3, <2>2, <2>3, <3>3, <3>4
  <2>5. QED
    BY <1>3, <1>4, <2>1, <2>2, <2>4
<1>7. QED
  BY <1>2, <1>5, <1>6

\* shutdown: no upload runs and none is to come when it reports completion, and the
\* writes accepted before it were written.
THEOREM ShutdownCovers == CacheSpec => []ShutdownCoversWrites
<1>1. CacheInv => ShutdownCoversWrites
  BY ShutdownIsThrough
<1>2. QED
  BY <1>1, CacheInvariant, PTL
=============================================================================
