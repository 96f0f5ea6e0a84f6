----------------------------- MODULE TaskRunProofs -----------------------------
(***************************************************************************)
(* The run of the tasks for every acyclic graph, every set of persistent   *)
(* and of serial tasks and every option: its exit code is the truth, it    *)
(* leaves nothing behind, saves in order, and is a caller that the         *)
(* engine's schedule and the contract of the process manager allow.        *)
(***************************************************************************)
EXTENDS TaskRun, TLAPS

\* Where the executor of a task is fixes what it can have returned.
ExecInv(t) ==
  /\ status[t] = "waiting" => exec[t] = "none"
  /\ exec[t] = "none" => outcome[t] = "none" /\ process[t] = "none"
  /\ exec[t] \in {"restore", "lock", "spawn"} => outcome[t] = "none" /\ process[t] = "none"
  /\ exec[t] = "wait" => outcome[t] = "none" /\ process[t] # "none"
  /\ exec[t] = "report" => outcome[t] \notin {"none", "skipped"}
  /\ exec[t] = "save" => outcome[t] = "run"
  /\ exec[t] \in {"end", "stop"} => StopsManager(t)
  /\ exec[t] = "ended" => outcome[t] # "none"

\* What the engine has been told of a task.
ReportInv(t) ==
  /\ exec[t] = "none" => status[t] \in {"waiting", "running"} \/ dispatch_error
  /\ exec[t] = "none" => status[t] \in {"waiting", "running", "succeeded"}
  /\ exec[t] # "none" /\ Detached(t) => status[t] = "succeeded"
  /\ exec[t] \in {"restore", "lock", "spawn", "wait", "report"} /\ ~Detached(t) =>
       status[t] = "running"
  /\ outcome[t] = "skipped" => exec[t] = "ended" /\ status[t] = "succeeded"
  /\ exec[t] \in {"save", "end", "stop", "ended"} /\ ~Detached(t) /\ outcome[t] # "skipped" =>
       status[t] = Verdict(outcome[t])

\* What became of its process.
ProcessInv(t) ==
  /\ outcome[t] \in {"hit", "skipped"} => process[t] = "none"
  /\ outcome[t] = "run" => process[t] = "zero"
  /\ outcome[t] = "task" => process[t] \in {"none", "nonzero"}
  /\ outcome[t] = "shutdown" => closed /\ process[t] \in {"none", "shutdown"}
  /\ outcome[t] = "restarted" => is_watch /\ process[t] = "restarted"
  /\ process[t] \in {"closing", "shutdown"} => closed
  /\ process[t] = "running" => ~closed
  /\ process[t] \in {"stopping", "restarted"} => is_watch
  /\ outcome[t] = "err" /\ exec[t] = "ended" /\ ~is_watch => ~Alive(t)
  /\ t \in errors <=> outcome[t] = "task"
  /\ t \in saved => outcome[t] = "run"

\* A task that was started found its dependencies succeeded or halted; one that
\* depends on a task the shutdown stopped was started too late to spawn.
DependencyInv(t) ==
  \A d \in TaskDeps[t] :
    /\ status[t] # "waiting" => status[d] \in {"succeeded", "halted"}
    /\ status[d] = "halted" /\ outcome[d] = "shutdown" => process[t] = "none"

Unfortunate == \E t \in Task : outcome[t] \in {"err", "task"}

\* What the visitor and the engine know when they are through.
VisitInv ==
  /\ visitor = "dispatching" => ~left /\ ~dispatch_error
  /\ left => over \/ dispatch_error
  /\ over => Active = {}
  /\ over /\ ~dispatch_error /\ (\A t \in Task : status[t] # "halted") =>
       \A t \in Task : status[t] = "waiting" =>
         \E d \in TaskDeps[t] : status[d] # "succeeded"
  /\ visitor \notin {"dispatching", "draining"} => over /\ \A t \in Joined : exec[t] = "ended"
  /\ visitor \in {"stop", "zero", "nonzero"} =>
       ~dispatch_error /\ \A t \in Joined : outcome[t] # "err"
  /\ visitor = "zero" /\ ~is_watch => errors = {}
  /\ visitor = "nonzero" => errors # {}
  /\ visitor = "stop" => ~is_watch

\* Nobody but the signal closes the process manager of a run that goes well.
CloseInv ==
  ~interrupted =>
    /\ closed /\ (visitor \in {"dispatching", "draining"} \/ is_watch) => Unfortunate
    /\ (\E t \in Task : outcome[t] = "shutdown") => Unfortunate

TaskRunInv ==
  /\ TaskRunTypeOK
  /\ \A t \in Task : ExecInv(t)
  /\ \A t \in Task : ReportInv(t)
  /\ \A t \in Task : ProcessInv(t)
  /\ \A t \in Task : DependencyInv(t)
  /\ VisitInv
  /\ CloseInv
-----------------------------------------------------------------------------

\* A step that tells the engine nothing leaves what it has been told.
LEMMA ReportInvStays ==
  ASSUME NEW s \in Task, ReportInv(s), UNCHANGED optionVars,
         dispatch_error => dispatch_error',
         status'[s] = status[s], outcome'[s] = outcome[s],
         \/ exec'[s] = exec[s]
         \/ exec[s] = "lock" /\ exec'[s] = "spawn"
         \/ exec[s] \in {"save", "end", "stop"} /\ exec'[s] \in {"stop", "ended"}
  PROVE  ReportInv(s)'
<1>1. Detached(s)' <=> Detached(s)
  BY DEF optionVars, Detached
<1>2. Verdict(outcome[s])' = Verdict(outcome[s])
  BY DEF optionVars, Verdict
<1> QED
  BY <1>1, <1>2 DEF ReportInv

\* The engine starts a task, or finds that it is through.
LEMMA EngineKeepsInv ==
  ASSUME TaskRunInv, EngineStep
  PROVE  TaskRunInv'
<1> USE DEF TaskRunInv, TaskRunTypeOK, Contract!ProcessState, EngineStep, Start,
        Finished, Undisturbed,
        scheduleVars, execVars, visitVars, optionVars
<1>1. TaskRunTypeOK'
  BY DEF Status, Visiting
<1>2. ASSUME NEW s \in Task PROVE ExecInv(s)'
  BY DEF ExecInv, StopsManager
<1>3. ASSUME NEW s \in Task PROVE ReportInv(s)'
  <2>1. CASE status'[s] = status[s]
    BY <2>1, ReportInvStays
  <2>2. CASE status'[s] # status[s]
    BY <2>2 DEF ExecInv, ReportInv
  <2> QED
    BY <2>1, <2>2
<1>4. ASSUME NEW s \in Task PROVE ProcessInv(s)'
  BY DEF ExecInv, ProcessInv, Alive, Contract!Alive
<1>5. ASSUME NEW s \in Task PROVE DependencyInv(s)'
  BY TaskRunAssumption DEF TaskRunAssumption, ExecInv, ProcessInv, DependencyInv
<1>6. VisitInv'
  <2>1. ASSUME NEW t \in Task, Start(t) PROVE VisitInv'
    BY <2>1 DEF ExecInv, VisitInv, Active, Joined, Detached
  <2>2. CASE Finished
    BY <2>2 DEF VisitInv, Active, Joined, Detached
  <2> QED
    BY <2>1, <2>2
<1>7. CloseInv'
  BY DEF CloseInv, Unfortunate
<1> QED
  BY <1>1, <1>2, <1>3, <1>4, <1>5, <1>6, <1>7

\* The visitor receives a task it can dispatch.
LEMMA ReceiveKeepsInv ==
  ASSUME TaskRunInv, NEW t \in Task, Receive(t)
  PROVE  TaskRunInv'
<1> USE DEF TaskRunInv, TaskRunTypeOK, Contract!ProcessState, Receive, Dispatch,
        DispatchDetached,
        DispatchNothing, Finish, Queued, Active, scheduleVars, execVars, visitVars,
        optionVars
<1>1. TaskRunTypeOK'
  BY DEF Status, Visiting
<1>2. ASSUME NEW s \in Task PROVE ExecInv(s)'
  BY DEF ExecInv, StopsManager
<1>3. ASSUME NEW s \in Task PROVE ReportInv(s)'
  <2>1. Detached(s)' <=> Detached(s)
    BY DEF Detached
  <2>2. CASE s = t
    BY <2>1, <2>2 DEF ExecInv, ReportInv
  <2>3. CASE s # t
    <3>1. Verdict(outcome[s])' = Verdict(outcome[s])
      BY <2>3 DEF Verdict
    <3> QED
      BY <2>1, <2>3, <3>1 DEF ReportInv
  <2> QED
    BY <2>2, <2>3
<1>4. ASSUME NEW s \in Task PROVE ProcessInv(s)'
  BY DEF ExecInv, ProcessInv, Alive, Contract!Alive
<1>5. ASSUME NEW s \in Task PROVE DependencyInv(s)'
  BY TaskRunAssumption DEF TaskRunAssumption, ExecInv, ProcessInv, DependencyInv
<1>6. VisitInv'
  BY DEF ExecInv, ReportInv, VisitInv, Active, Joined, Detached
<1>7. CloseInv'
  <2>1. Unfortunate => Unfortunate'
    BY DEF ExecInv, Unfortunate
  <2>2. ASSUME NEW s \in Task
        PROVE  outcome'[s] = "shutdown" => outcome[s] = "shutdown"
    OBVIOUS
  <2> QED
    BY <2>1, <2>2 DEF CloseInv
<1> QED
  BY <1>1, <1>2, <1>3, <1>4, <1>5, <1>6, <1>7

\* The visitor cannot dispatch a task, or the stream of tasks ends.
LEMMA LeaveKeepsInv ==
  ASSUME TaskRunInv, (\E t \in Task : DispatchFails(t)) \/ StreamEnds
  PROVE  TaskRunInv'
<1> USE DEF TaskRunInv, TaskRunTypeOK, Contract!ProcessState, DispatchFails,
        StreamEnds, Leave, Finish,
        Queued, Active, scheduleVars, execVars, visitVars, optionVars
<1>1. TaskRunTypeOK'
  <2>1. status' \in [Task -> Status]
    BY DEF Status
  <2> QED
    BY <2>1 DEF Visiting
<1>2. ASSUME NEW s \in Task PROVE ExecInv(s)'
  BY DEF ExecInv, StopsManager
<1>3. ASSUME NEW s \in Task PROVE ReportInv(s)'
  <2>1. CASE status'[s] = status[s]
    BY <2>1, ReportInvStays
  <2>2. CASE status'[s] # status[s]
    BY <2>2 DEF ExecInv, ReportInv
  <2> QED
    BY <2>1, <2>2
<1>4. ASSUME NEW s \in Task PROVE ProcessInv(s)'
  BY DEF ExecInv, ProcessInv, Alive, Contract!Alive
<1>5. ASSUME NEW s \in Task PROVE DependencyInv(s)'
  BY TaskRunAssumption DEF TaskRunAssumption, ExecInv, ProcessInv, DependencyInv
<1>6. VisitInv'
  BY DEF ExecInv, ReportInv, VisitInv, Active, Joined, Detached
<1>7. CloseInv'
  BY DEF CloseInv, Unfortunate
<1> QED
  BY <1>1, <1>2, <1>3, <1>4, <1>5, <1>6, <1>7

\* The tasks have been drained, and the processes stopped.
LEMMA SettleKeepsInv ==
  ASSUME TaskRunInv, TasksDrained \/ ProcessesStopped
  PROVE  TaskRunInv'
<1> USE DEF TaskRunInv, TaskRunTypeOK, Contract!ProcessState, TasksDrained,
        ProcessesStopped, Settle,
        ExitCode, Contract!Close, Failing, Joined, Detached, scheduleVars, execVars,
        visitVars, optionVars
<1>1. TaskRunTypeOK'
  <2>1. visitor' \in {"stop", "zero", "nonzero", "error"}
    BY Zenon
  <2>2. process' = process \/ process' = [s \in Task |-> IF process[s] = "running"
                                                      THEN "closing" ELSE process[s]]
    BY Zenon
  <2>3. closed' \in BOOLEAN
    BY Zenon
  <2> HIDE DEF Settle
  <2> QED
    BY <2>1, <2>2, <2>3 DEF Visiting
<1>2. ASSUME NEW s \in Task PROVE ExecInv(s)'
  BY DEF ExecInv, StopsManager
<1>3. ASSUME NEW s \in Task PROVE ReportInv(s)'
  BY ReportInvStays
<1>4. ASSUME NEW s \in Task PROVE ProcessInv(s)'
  BY DEF ExecInv, ProcessInv, Alive, Contract!Alive
<1>5. ASSUME NEW s \in Task PROVE DependencyInv(s)'
  BY TaskRunAssumption DEF TaskRunAssumption, ExecInv, ProcessInv, DependencyInv
<1>6. VisitInv'
  BY DEF ExecInv, ReportInv, VisitInv, Active, Joined, Detached
<1>7. CloseInv'
  BY DEF CloseInv, Unfortunate
<1> QED
  BY <1>1, <1>2, <1>3, <1>4, <1>5, <1>6, <1>7

\* execute_inner goes on, or returns: the engine is not told yet.
LEMMA ReturnKeepsInv ==
  ASSUME TaskRunInv, NEW t \in Task, Restore(t) \/ Spawn(t) \/ ProcessEnded(t) \/ PipeFails(t),
         UNCHANGED <<over, left, visitVars, optionVars, interrupted>>
  PROVE  TaskRunInv'
<1> USE DEF TaskRunInv, TaskRunTypeOK, Contract!ProcessState, Restore, Spawn,
        Contract!Spawn, ProcessEnded, PipeFails,
        Returns, Goes, visitVars, optionVars
<1>1. TaskRunTypeOK'
  BY DEF Status, Visiting
<1>2. ASSUME NEW s \in Task PROVE ExecInv(s)'
  BY DEF ExecInv, StopsManager
<1>3. ASSUME NEW s \in Task PROVE ReportInv(s)'
  <2>1. Detached(s)' <=> Detached(s)
    BY DEF Detached
  <2>2. CASE s = t
    <3>1. Detached(s) => status[s] = "succeeded"
      BY <2>2 DEF ReportInv
    <3>2. ~Detached(s) => status[s] = "running"
      BY <2>2 DEF ReportInv
    <3> QED
      BY <2>1, <2>2, <3>1, <3>2 DEF ReportInv
  <2>3. CASE s # t
    <3>1. Verdict(outcome[s])' = Verdict(outcome[s])
      BY <2>3 DEF Verdict
    <3> QED
      BY <2>1, <2>3, <3>1 DEF ReportInv
  <2> QED
    BY <2>2, <2>3
<1>4. ASSUME NEW s \in Task PROVE ProcessInv(s)'
  BY DEF ExecInv, ProcessInv, Alive, Contract!Alive
<1>5. ASSUME NEW s \in Task PROVE DependencyInv(s)'
  <2>1. ASSUME NEW d \in TaskDeps[s]
        PROVE  /\ d \in Task
               /\ status[s] # "waiting" => status[d] \in {"succeeded", "halted"}
               /\ status[d] = "halted" /\ outcome[d] = "shutdown" => process[s] = "none"
    BY TaskRunAssumption DEF TaskRunAssumption, DependencyInv
  <2>2. ASSUME NEW d \in TaskDeps[s], status[d] = "halted", outcome'[d] = "shutdown"
        PROVE  process'[s] = "none"
    BY <2>1, <2>2 DEF ExecInv, ReportInv, ProcessInv
  <2> QED
    BY <2>1, <2>2 DEF DependencyInv
<1>6. VisitInv'
  BY DEF ExecInv, ReportInv, VisitInv, Active, Joined, Detached
<1>7. CloseInv'
  <2>1. ASSUME NEW s \in Task, outcome[s] # "none" PROVE outcome'[s] = outcome[s]
    BY <2>1 DEF ExecInv
  <2>2. Unfortunate => Unfortunate'
    BY <2>1 DEF Unfortunate
  <2>3. outcome'[t] = "shutdown" => closed
    BY DEF ProcessInv
  <2>4. visitor \in {"dispatching", "draining"} \/ is_watch
    BY DEF Visiting, VisitInv, Joined, Detached
  <2> QED
    BY <2>1, <2>2, <2>3, <2>4 DEF CloseInv
<1> QED
  BY <1>1, <1>2, <1>3, <1>4, <1>5, <1>6, <1>7

\* The executor tells the engine what became of the task.
LEMMA ReportKeepsInv ==
  ASSUME TaskRunInv, NEW t \in Task, Report(t),
         UNCHANGED <<over, left, visitVars, optionVars, interrupted>>
  PROVE  TaskRunInv'
<1> USE DEF TaskRunInv, TaskRunTypeOK, Contract!ProcessState, Report, Finish,
        visitVars, optionVars
<1>a. /\ exec'[t] \in {"save", "end", "ended"}
      /\ exec'[t] = "save" => outcome[t] = "run"
      /\ exec'[t] = "end" => StopsManager(t)
      /\ exec'[t] = "ended" => outcome[t] # "err"
      /\ exec' \in [Task -> {"none", "restore", "lock", "spawn", "wait", "report",
                             "save", "end", "stop", "ended"}]
      /\ \A s \in Task : s # t => exec'[s] = exec[s]
  BY DEF Goes, StopsManager
<1>b. /\ exec[t] = "report"
      /\ outcome[t] \notin {"none", "skipped"}
      /\ UNCHANGED <<outcome, process, closed, errors, saved>>
  BY DEF ExecInv
<1>c. /\ Verdict(outcome[t]) \in {"succeeded", "failed", "halted"}
      /\ outcome[t] \in {"shutdown", "err"} => Verdict(outcome[t]) = "halted"
  BY <1>b DEF Verdict, ContinueMode
<1>d. /\ Detached(t) => status' = status
      /\ ~Detached(t) => status[t] = "running" /\ status'[t] = Verdict(outcome[t])
      /\ status' \in [Task -> Status]
      /\ \A s \in Task : s # t => status'[s] = status[s]
  BY <1>c DEF Active, Status, Verdict
<1> HIDE DEF Report
<1>1. TaskRunTypeOK'
  BY <1>a, <1>b, <1>d 
<1>2. ASSUME NEW s \in Task PROVE ExecInv(s)'
  <2>1. StopsManager(s)' <=> StopsManager(s)
    BY <1>b DEF StopsManager
  <2>2. CASE s = t
    <3>1. status'[s] # "waiting"
      BY <1>b, <1>c, <1>d, <2>2 DEF ReportInv
    <3>2. exec'[s] = "end" => StopsManager(s)
      BY <1>a, <2>2
    <3> QED
      BY <1>a, <1>b, <2>1, <2>2, <3>1, <3>2 DEF ExecInv
  <2>3. CASE s # t
    BY <1>a, <1>b, <1>d, <2>1, <2>3 DEF ExecInv
  <2> QED
    BY <2>2, <2>3
<1>3. ASSUME NEW s \in Task PROVE ReportInv(s)'
  <2>1. Detached(s)' <=> Detached(s)
    BY DEF Detached
  <2>2. Verdict(outcome[s])' = Verdict(outcome[s])
    BY <1>b DEF Verdict
  <2> QED
    BY <1>a, <1>b, <1>d, <2>1, <2>2 DEF ReportInv
<1>4. ASSUME NEW s \in Task PROVE ProcessInv(s)'
  BY <1>a, <1>b, <1>d DEF ExecInv, ProcessInv, Alive, Contract!Alive
<1>5. ASSUME NEW s \in Task PROVE DependencyInv(s)'
  BY <1>a, <1>b, <1>c, <1>d, TaskRunAssumption DEF ExecInv, ProcessInv, ReportInv, DependencyInv,
     TaskRunAssumption
<1>6. VisitInv'
  BY <1>a, <1>b, <1>c, <1>d DEF ExecInv, ReportInv, VisitInv, Active, Joined, Detached
<1>7. CloseInv'
  BY <1>b DEF CloseInv, Unfortunate
<1> QED
  BY <1>1, <1>2, <1>3, <1>4, <1>5, <1>6, <1>7

\* The other steps of an executor: the serial group, the cache, the end.
LEMMA ExecutorKeepsInv ==
  ASSUME TaskRunInv, NEW t \in Task,
         TakeSerialLock(t) \/ Save(t) \/ EndTask(t) \/ StopReturns(t),
         UNCHANGED <<over, left, visitVars, optionVars, interrupted>>
  PROVE  TaskRunInv'
<1> USE DEF TaskRunInv, TaskRunTypeOK, Contract!ProcessState, TakeSerialLock, Save,
        EndTask, StopReturns,
        Contract!CloseReturns, Contract!Close, Goes, visitVars, optionVars
<1>1. TaskRunTypeOK'
  <2>1. /\ \E to \in {"spawn", "ended", "stop"} : exec' = [exec EXCEPT ![t] = to]
        /\ UNCHANGED <<status, outcome, errors>>
    OBVIOUS
  <2>2. exec' \in [Task -> {"none", "restore", "lock", "spawn", "wait", "report",
                          "save", "end", "stop", "ended"}]
    BY <2>1
  <2>3. process' \in [Task -> {"none", "running", "closing", "stopping", "zero",
                             "nonzero", "shutdown", "restarted"}]
    OBVIOUS
  <2>4. closed' \in BOOLEAN /\ saved' \subseteq Task
    OBVIOUS
  <2> QED
    BY <2>1, <2>2, <2>3, <2>4
<1>2. ASSUME NEW s \in Task PROVE ExecInv(s)'
  BY DEF ExecInv, StopsManager
<1>3. ASSUME NEW s \in Task PROVE ReportInv(s)'
  BY ReportInvStays
<1>4. ASSUME NEW s \in Task PROVE ProcessInv(s)'
  BY DEF ExecInv, ProcessInv, Alive, Contract!Alive
<1>5. ASSUME NEW s \in Task PROVE DependencyInv(s)'
  BY TaskRunAssumption DEF TaskRunAssumption, ExecInv, ProcessInv, DependencyInv
<1>6. VisitInv'
  BY DEF ExecInv, ReportInv, VisitInv, Active, Joined, Detached
<1>7. CloseInv'
  <2>1. EndTask(t) => outcome[t] \in {"shutdown", "err", "task"}
    BY DEF ExecInv, StopsManager
  <2> QED
    BY <2>1 DEF CloseInv, Unfortunate
<1> QED
  BY <1>1, <1>2, <1>3, <1>4, <1>5, <1>6, <1>7

\* A process ends or is told to, or nothing happens.
LEMMA OutsideKeepsInv ==
  ASSUME TaskRunInv, \/ \E t \in Task : ProcessExits(t) \/ ProcessStopped(t) \/ StopTask(t)
         \/ Interrupt
         \/ UNCHANGED taskRunVars
  PROVE  TaskRunInv'
<1> USE DEF TaskRunInv, TaskRunTypeOK, Contract!ProcessState, ProcessExits,
        ProcessStopped, StopTask,
        Contract!Exits, Contract!Stopped, Contract!StopTasks,
        Interrupt, Alive, Contract!Alive, Contract!Close, RunOver, taskRunVars, scheduleVars, execVars,
        visitVars, optionVars
<1>1. TaskRunTypeOK'
  <2>1. ASSUME NEW t \in Task, ProcessExits(t) \/ ProcessStopped(t) \/ StopTask(t)
        PROVE  TaskRunTypeOK'
    BY <2>1
  <2>2. CASE Interrupt
    BY <2>2
  <2>3. CASE UNCHANGED taskRunVars
    BY <2>3
  <2> QED
    BY <2>1, <2>2, <2>3
<1>2. ASSUME NEW s \in Task PROVE ExecInv(s)'
  BY DEF ExecInv, StopsManager
<1>3. ASSUME NEW s \in Task PROVE ReportInv(s)'
  BY ReportInvStays
<1>4. ASSUME NEW s \in Task PROVE ProcessInv(s)'
  BY DEF ExecInv, ProcessInv, Alive, Contract!Alive
<1>5. ASSUME NEW s \in Task PROVE DependencyInv(s)'
  BY TaskRunAssumption DEF TaskRunAssumption, ExecInv, ProcessInv, DependencyInv
<1>6. VisitInv'
  BY DEF ExecInv, ReportInv, VisitInv, Active, Joined, Detached
<1>7. CloseInv'
  BY DEF CloseInv, Unfortunate
<1> QED
  BY <1>1, <1>2, <1>3, <1>4, <1>5, <1>6, <1>7

\* The run begins with the invariant.
LEMMA TaskRunInvInit == TaskRunInit => TaskRunInv
<1> SUFFICES ASSUME TaskRunInit PROVE TaskRunInv
  OBVIOUS
<1> USE DEF TaskRunInit, ScheduleInit, Contract!ContractInit
<1>1. TaskRunTypeOK
  BY TaskRunAssumption DEF TaskRunAssumption, TaskRunTypeOK, Contract!ProcessState, Status,
     Visiting
<1>2. ASSUME NEW t \in Task
      PROVE  ExecInv(t) /\ ReportInv(t) /\ ProcessInv(t)
  BY Zenon DEF ExecInv, ReportInv, ProcessInv, Alive, Contract!Alive
<1>3. ASSUME NEW t \in Task PROVE DependencyInv(t)
  BY TaskRunAssumption DEF TaskRunAssumption, DependencyInv
<1>4. VisitInv /\ CloseInv
  BY Zenon DEF VisitInv, CloseInv
<1> QED
  BY <1>1, <1>2, <1>3, <1>4 DEF TaskRunInv

\* ... and every step keeps it.
LEMMA TaskRunInvNext == TaskRunInv /\ [TaskRunNext]_taskRunVars => TaskRunInv'
<1> SUFFICES ASSUME TaskRunInv, [TaskRunNext]_taskRunVars PROVE TaskRunInv'
  OBVIOUS
<1>1. CASE EngineStep
  BY <1>1, EngineKeepsInv
<1>2. CASE Visit
  BY <1>2, ReceiveKeepsInv, LeaveKeepsInv, SettleKeepsInv DEF Visit
<1>3. ASSUME NEW t \in Task, Execute(t) PROVE TaskRunInv'
  BY <1>3, ReturnKeepsInv, ReportKeepsInv, ExecutorKeepsInv DEF Execute
<1>4. ASSUME NEW t \in Task, ProcessExits(t) \/ ProcessStopped(t) \/ StopTask(t)
      PROVE  TaskRunInv'
  BY <1>4, OutsideKeepsInv
<1>5. CASE Interrupt
  BY <1>5, OutsideKeepsInv
<1>6. CASE UNCHANGED taskRunVars
  BY <1>6, OutsideKeepsInv
<1> QED
  BY <1>1, <1>2, <1>3, <1>4, <1>5, <1>6 DEF TaskRunNext

\* The inductive invariant of the run of the tasks.
THEOREM TaskRunInvariant == TaskRunSpec => []TaskRunInv
  BY TaskRunInvInit, TaskRunInvNext, PTL DEF TaskRunSpec

\* Type correctness of the run of the tasks.
THEOREM TaskRunTypeCorrect == TaskRunSpec => []TaskRunTypeOK
<1>1. TaskRunInv => TaskRunTypeOK
  BY DEF TaskRunInv
<1> QED
  BY <1>1, TaskRunInvariant, PTL

-----------------------------------------------------------------------------
(* The properties.                                                         *)

\* A run that the signal left alone and that settles on 0 ran every task: what
\* did not start waits for something that did not start, and no chain of tasks
\* that wait for each other is closed.
LEMMA ZeroMeansAllRan ==
  ASSUME TaskRunInv, ~is_watch, ~interrupted, visitor = "zero", NEW t \in Task
  PROVE  outcome[t] \in {"hit", "run", "skipped"}
<1>1. errors = {} /\ over /\ ~dispatch_error
  BY DEF TaskRunInv, VisitInv
<1>2. ASSUME NEW s \in Task, exec[s] # "none"
      PROVE  exec[s] = "ended" /\ outcome[s] \notin {"err", "none"}
  BY <1>2 DEF TaskRunInv, VisitInv, Joined, Detached, ExecInv
<1>3. ASSUME NEW s \in Task
      PROVE  outcome[s] \notin {"err", "task", "restarted"}
  BY <1>1, <1>2 DEF TaskRunInv, ProcessInv, ExecInv
<1>4. ASSUME NEW s \in Task
      PROVE  outcome[s] # "shutdown"
  BY <1>3 DEF TaskRunInv, CloseInv, Unfortunate
<1>5. ASSUME NEW s \in Task, exec[s] # "none"
      PROVE  outcome[s] \in {"hit", "run", "skipped"} /\ status[s] = "succeeded"
  <2>1. outcome[s] \in {"hit", "run", "skipped"}
    BY <1>2, <1>3, <1>4, <1>5 DEF TaskRunInv, TaskRunTypeOK
  <2>2. outcome[s] # "skipped" => status[s] = Verdict(outcome[s])
    BY <1>2, <1>5 DEF TaskRunInv, ReportInv, Detached
  <2> QED
    BY <2>1, <2>2 DEF TaskRunInv, ReportInv, Verdict
<1>6. ASSUME NEW s \in Task, exec[s] = "none"
      PROVE  status[s] = "waiting"
  BY <1>1, <1>6 DEF TaskRunInv, ReportInv, VisitInv, Active
<1>7. \A s \in Task : status[s] # "halted"
  BY <1>5, <1>6
<1> DEFINE Unstarted == {s \in Task : exec[s] = "none"}
<1>8. Unstarted = {}
  <2> SUFFICES ASSUME Unstarted # {} PROVE FALSE
    OBVIOUS
  <2>1. PICK s \in Unstarted : TaskDeps[s] \cap Unstarted = {}
    BY TaskRunAcyclic
  <2>2. PICK d \in TaskDeps[s] : status[d] # "succeeded"
    BY <1>1, <1>6, <1>7 DEF TaskRunInv, VisitInv
  <2>3. d \in Task
    BY <2>1, <2>2, TaskRunAssumption DEF TaskRunAssumption
  <2> QED
    BY <1>5, <2>1, <2>2, <2>3
<1> QED
  BY <1>5, <1>8

\* For every acyclic graph: 0 means that every task was run, restored or had no
\* command, another exit code that one failed.
THEOREM ExitCodeIsTheTruth == TaskRunSpec => []ExitCodeTellsTruth
<1>1. TaskRunInv => ExitCodeTellsTruth
  <2> SUFFICES ASSUME TaskRunInv, ~is_watch, ~interrupted
               PROVE  /\ visitor = "zero" =>
                           \A t \in Task : outcome[t] \in {"hit", "run", "skipped"}
                      /\ visitor = "nonzero" => \E t \in Task : outcome[t] = "task"
    BY DEF ExitCodeTellsTruth
  <2>1. ASSUME visitor = "nonzero" PROVE \E t \in Task : outcome[t] = "task"
    <3>1. PICK t \in errors : TRUE
      BY <2>1 DEF TaskRunInv, VisitInv
    <3> QED
      BY <3>1 DEF TaskRunInv, TaskRunTypeOK, ProcessInv
  <2> QED
    BY <2>1, ZeroMeansAllRan
<1> QED
  BY <1>1, TaskRunInvariant, PTL

\* A run of the command that returned left no process and no executor behind.
THEOREM NothingIsLeftBehind == TaskRunSpec => []NothingOutlivesRun
<1>1. TaskRunInv => NothingOutlivesRun
  <2> SUFFICES ASSUME TaskRunInv, RunOver, ~is_watch, NEW t \in Task
               PROVE  ~Alive(t) /\ exec[t] \in {"none", "ended"}
    BY DEF NothingOutlivesRun
  <2>1. exec[t] \in {"none", "ended"}
    BY DEF TaskRunInv, VisitInv, RunOver, Joined, Detached
  <2>2. ~Alive(t)
    BY <2>1 DEF TaskRunInv, TaskRunTypeOK, ExecInv, ProcessInv, Alive, Contract!Alive
  <2> QED
    BY <2>1, <2>2
<1> QED
  BY <1>1, TaskRunInvariant, PTL

\* With --continue=dependencies-successful nothing is saved that ran after a
\* dependency that failed or was stopped.
THEOREM SavesInOrder == TaskRunSpec => []SavedAfterDependencies
<1>1. TaskRunInv => SavedAfterDependencies
  <2> SUFFICES ASSUME TaskRunInv, continue = "dependencies",
                      NEW t \in saved, NEW d \in TaskDeps[t], ~Detached(d)
               PROVE  outcome[d] \notin {"task", "restarted", "shutdown"}
    BY DEF SavedAfterDependencies
  <2>1. t \in Task /\ d \in Task
    BY TaskRunAssumption DEF TaskRunAssumption, TaskRunInv, TaskRunTypeOK
  <2>2. process[t] = "zero" /\ status[t] # "waiting"
    BY <2>1 DEF TaskRunInv, ProcessInv, ExecInv
  <2>3. status[d] \in {"succeeded", "halted"}
    BY <2>1, <2>2 DEF TaskRunInv, DependencyInv
  <2>4. ASSUME outcome[d] \in {"task", "restarted", "shutdown"}
        PROVE  status[d] = Verdict(outcome[d])
    <3>1. exec[d] \in {"report", "save", "end", "stop", "ended"}
      BY <2>1, <2>4 DEF TaskRunInv, TaskRunTypeOK, ExecInv
    <3> QED
      BY <2>1, <2>3, <2>4, <3>1 DEF TaskRunInv, ReportInv
  <2>5. outcome[d] \notin {"task", "restarted"}
    BY <2>3, <2>4 DEF Verdict
  <2>6. outcome[d] # "shutdown"
    <3>1. outcome[d] = "shutdown" => status[d] = "halted"
      BY <2>4 DEF Verdict
    <3> QED
      BY <2>1, <2>2, <3>1 DEF TaskRunInv, DependencyInv
  <2> QED
    BY <2>5, <2>6
<1> QED
  BY <1>1, TaskRunInvariant, PTL

\* What the run tells the engine is an outcome the schedule knows.
LEMMA VerdictIsOutcome ==
  ASSUME TaskRunInv, NEW t \in Task, exec[t] = "report"
  PROVE  Verdict(outcome[t]) \in Outcome
<1>1. /\ outcome[t] \in {"hit", "run", "task", "shutdown", "restarted", "err"}
      /\ continue \in ContinueMode
  BY DEF TaskRunInv, TaskRunTypeOK, ExecInv
<1> QED
  BY <1>1 DEF Verdict, Outcome, ContinueMode

\* Seen from the engine the run is the schedule that Engine::execute implements:
\* the visitor and the executors do nothing to it that the schedule does not allow.
THEOREM RunFollowsSchedule == TaskRunSpec => ScheduleSpec
<1>1. TaskRunInit => ScheduleInit
  BY DEF TaskRunInit
<1>2. TaskRunInv /\ [TaskRunNext]_taskRunVars => [ScheduleNext]_scheduleVars
  <2> SUFFICES ASSUME TaskRunInv, [TaskRunNext]_taskRunVars
               PROVE  [ScheduleNext]_scheduleVars
    OBVIOUS
  <2> USE DEF ScheduleNext, scheduleVars
  <2>1. CASE EngineStep
    BY <2>1 DEF EngineStep
  <2>2. ASSUME NEW t \in Task, Receive(t) PROVE [ScheduleNext]_scheduleVars
    <3>1. {t} \in SUBSET Task /\ "succeeded" \in Outcome
      BY DEF Outcome
    <3> QED
      BY <2>2, <3>1 DEF Receive, Dispatch, DispatchDetached, DispatchNothing
  <2>3. ASSUME NEW t \in Task, DispatchFails(t) PROVE [ScheduleNext]_scheduleVars
    <3>1. Queued \in SUBSET Task
      BY DEF Queued, Active
    <3> QED
      BY <2>3, <3>1 DEF DispatchFails
  <2>4. CASE StreamEnds
    BY <2>4 DEF StreamEnds
  <2>5. CASE TasksDrained \/ ProcessesStopped
    BY <2>5 DEF TasksDrained, ProcessesStopped
  <2>6. ASSUME NEW t \in Task, Report(t), UNCHANGED <<over, left>>
        PROVE  [ScheduleNext]_scheduleVars
    <3>1. {t} \in SUBSET Task /\ Verdict(outcome[t]) \in Outcome
      BY <2>6, VerdictIsOutcome DEF Report
    <3>2. UNCHANGED status \/ Finish({t}, Verdict(outcome[t]))
      BY <2>6, Zenon DEF Report
    <3> QED
      BY <2>6, <3>1, <3>2
  <2>7. ASSUME NEW t \in Task, Execute(t) PROVE [ScheduleNext]_scheduleVars
    BY <2>6, <2>7 DEF Execute, Restore, TakeSerialLock, Spawn, ProcessEnded, PipeFails, Save,
       EndTask, StopReturns
  <2>8. ASSUME NEW t \in Task, ProcessExits(t) \/ ProcessStopped(t) \/ StopTask(t)
        PROVE  [ScheduleNext]_scheduleVars
    BY <2>8 DEF ProcessExits, ProcessStopped, StopTask
  <2>9. CASE Interrupt
    BY <2>9 DEF Interrupt
  <2>10. CASE UNCHANGED taskRunVars
    BY <2>10 DEF taskRunVars
  <2> QED
    BY <2>1, <2>2, <2>3, <2>4, <2>5, <2>7, <2>8, <2>9, <2>10 DEF TaskRunNext, Visit
<1> QED
  BY <1>1, <1>2, TaskRunInvariant, PTL DEF TaskRunSpec, ScheduleSpec

-----------------------------------------------------------------------------
(* The run uses the process manager as its contract allows.                *)

\* Where the visitor and the executors touch the processes, it is by a call of
\* the contract; a process that ends or is stopped does so as the contract says.
LEMMA RunStepIsContractStep ==
  ASSUME [TaskRunNext]_taskRunVars
  PROVE  [Contract!ContractNext]_(Contract!contractVars)
<1> USE DEF Contract!ContractNext, Contract!contractVars
<1>1. CASE EngineStep
  BY <1>1 DEF EngineStep, execVars
<1>2. CASE Visit
  BY <1>2 DEF Visit, Receive, DispatchFails, StreamEnds, TasksDrained, Settle, ProcessesStopped,
     execVars
<1>3. ASSUME NEW t \in Task, Execute(t)
      PROVE  [Contract!ContractNext]_(Contract!contractVars)
  <2>1. \/ Contract!Spawn(t) \/ Contract!Close
        \/ UNCHANGED <<process, closed>>
    BY <1>3 DEF Execute, Restore, TakeSerialLock, Spawn, ProcessEnded, PipeFails, Report, Save,
       EndTask, StopReturns
  <2> QED
    BY <2>1
<1>4. ASSUME NEW t \in Task, ProcessExits(t) \/ ProcessStopped(t) \/ StopTask(t)
      PROVE  [Contract!ContractNext]_(Contract!contractVars)
  <2>1. {t} \in SUBSET Task
    OBVIOUS
  <2> QED
    BY <1>4, <2>1 DEF ProcessExits, ProcessStopped, StopTask
<1>5. CASE Interrupt
  BY <1>5 DEF Interrupt
<1>6. CASE UNCHANGED taskRunVars
  BY <1>6 DEF taskRunVars, execVars
<1> QED
  BY <1>1, <1>2, <1>3, <1>4, <1>5, <1>6 DEF TaskRunNext

\* Seen from the processes the run is a caller that the contract of the process
\* manager allows, so what ProcessManager promises is what the run builds on.
THEOREM RunKeepsContract == TaskRunSpec => Contract!ContractSpec
<1>1. TaskRunInit => Contract!ContractInit
  BY DEF TaskRunInit
<1> QED
  BY <1>1, RunStepIsContractStep, PTL DEF TaskRunSpec, Contract!ContractSpec
=============================================================================
