------------------------- MODULE EngineExecuteProofs -------------------------
(***************************************************************************)
(* The graph walker for every graph and every caller, then Engine::execute *)
(* for every acyclic graph and every concurrency: it uses the walker as    *)
(* the walker expects, conserves permits, sends a task only after its      *)
(* dependencies, and implements TaskSchedule.                              *)
(***************************************************************************)
EXTENDS EngineExecute, TLAPS, FiniteSetTheorems

-----------------------------------------------------------------------------
(* Safety of the graph walker for every graph and every caller.            *)

\* Where a node's task is fixes what its message and its signal can be.
TaskInv(n) ==
  /\ task[n] \in {"deps", "polling"} => callback[n] = "none" /\ signal[n] = "open"
  /\ task[n] = "callback" => callback[n] # "none" /\ signal[n] = "open"
  /\ task[n] = "done" => signal[n] # "open" /\ callback[n] \notin {"queued", "held"}

\* A node says continue exactly when its caller finished it: "finished" is never
\* turned into another signal, and nothing else becomes "continue".
SignalInv(n) ==
  /\ signal[n] = "continue" => callback[n] = "finished"
  /\ callback[n] = "finished" => signal[n] \in {"open", "continue"}

\* A node that was sent had the continue signal of every dependency.
DepsInv(n) == callback[n] # "none" => \A d \in Deps[n] : signal[d] = "continue"

\* The inductive invariant of the walker.
WalkerInv ==
  /\ WalkerTypeOK
  /\ \A n \in Node : TaskInv(n)
  /\ \A n \in Node : SignalInv(n)
  /\ \A n \in Node : DepsInv(n)

-----------------------------------------------------------------------------
\* The invariant holds when Walker::new has spawned the tasks.
LEMMA WalkerInvInit == WalkerInit => WalkerInv
BY DEF WalkerInit, WalkerInv, WalkerTypeOK, TaskInv, SignalInv, DepsInv, TaskState,
       CallbackState, SignalState

\* A task returns only out of a state in which it has sent no signal, so the
\* signals already sent stay: the heart of the argument.
LEMMA ReturnStep ==
  ASSUME WalkerInv, NEW n \in Node, NEW s \in SignalState \ {"open"},
         task[n] # "done", callback[n] \notin {"queued", "held"}, Return(n, s),
         s = "continue" => callback[n] = "finished",
         callback[n] = "finished" => s = "continue",
         UNCHANGED <<cancelled, listening, callback>>
  PROVE  WalkerInv'
BY DEF WalkerInv, WalkerTypeOK, TaskInv, SignalInv, DepsInv, Return, TaskState,
       CallbackState, SignalState

\* The invariant is preserved by every step of a node's task.
LEMMA NodeTaskStep ==
  ASSUME WalkerInv, NEW n \in Node, NodeTask(n)
  PROVE  WalkerInv'
<1> USE DEF TaskState, CallbackState, SignalState
<1>1. CASE PollCancel(n)
  <2>1. CASE cancelled
    <3>1. callback[n] = "none"
      BY <1>1 DEF PollCancel, WalkerInv, TaskInv
    <3>2. QED
      BY <1>1, <2>1, <3>1, ReturnStep DEF PollCancel
  <2>2. CASE ~cancelled
    BY <1>1, <2>2 DEF PollCancel, WalkerInv, WalkerTypeOK, TaskInv, SignalInv, DepsInv
  <2>3. QED
    BY <2>1, <2>2
<1>2. CASE PollDepsPending(n)
  BY <1>2 DEF PollDepsPending, WalkerInv, WalkerTypeOK, TaskInv, SignalInv, DepsInv
<1>3. CASE PollDepsSkip(n)
  <2>1. callback[n] = "none"
    BY <1>3 DEF PollDepsSkip, WalkerInv, TaskInv
  <2>2. PICK d \in Deps[n] : /\ signal[d] \in {"stop", "closed"}
                             /\ Return(n, signal[d])
    BY <1>3 DEF PollDepsSkip
  <2>3. QED
    BY <1>3, <2>1, <2>2, ReturnStep DEF PollDepsSkip
<1>4. CASE PollDepsEmit(n)
  <2>1. CASE listening
    BY <1>4, <2>1 DEF PollDepsEmit, WalkerInv, WalkerTypeOK, TaskInv, SignalInv, DepsInv
  <2>2. CASE ~listening
    <3>1. callback[n] = "none"
      BY <1>4 DEF PollDepsEmit, WalkerInv, TaskInv
    <3>2. QED
      BY <1>4, <2>2, <3>1, ReturnStep DEF PollDepsEmit
  <2>3. QED
    BY <2>1, <2>2
<1>5. CASE CallbackResolved(n)
  BY <1>5, ReturnStep DEF CallbackResolved
<1>6. QED
  BY <1>1, <1>2, <1>3, <1>4, <1>5 DEF NodeTask

\* The invariant is preserved by whatever the caller does.
LEMMA CallerStep ==
  ASSUME WalkerInv, Caller
  PROVE  WalkerInv'
<1> USE DEF TaskState, CallbackState, SignalState
<1>1. ASSUME NEW n \in Node, Receive(n)
      PROVE  WalkerInv'
  BY <1>1 DEF Receive, WalkerInv, WalkerTypeOK, TaskInv, SignalInv, DepsInv
<1>2. ASSUME NEW n \in Node, NEW r \in Results, Answer(n, r)
      PROVE  WalkerInv'
  <2>1. signal[n] = "open"
    BY <1>2 DEF Answer, WalkerInv, WalkerTypeOK, TaskInv, SignalInv, DepsInv
  <2>2. QED
    BY <1>2, <2>1
       DEF Answer, Results, WalkerInv, WalkerTypeOK, TaskInv, SignalInv, DepsInv
<1>3. CASE Cancel
  BY <1>3 DEF Cancel, WalkerInv, WalkerTypeOK, TaskInv, SignalInv, DepsInv
<1>4. CASE DropReceiver
  BY <1>4 DEF DropReceiver, WalkerInv, WalkerTypeOK, TaskInv, SignalInv, DepsInv
<1>5. QED
  BY <1>1, <1>2, <1>3, <1>4 DEF Caller

\* The invariant is inductive.
LEMMA WalkerInvNext == WalkerInv /\ [WalkerNext]_walkerVars => WalkerInv'
<1> SUFFICES ASSUME WalkerInv, [WalkerNext]_walkerVars
             PROVE  WalkerInv'
  OBVIOUS
<1>1. CASE UNCHANGED walkerVars
  BY <1>1 DEF walkerVars, WalkerInv, WalkerTypeOK, TaskInv, SignalInv, DepsInv
<1>2. QED
  BY <1>1, NodeTaskStep, CallerStep DEF WalkerNext

\* The inductive invariant, hence the type invariant, holds of every walk.
THEOREM WalkerInvariant == WalkerSpec => []WalkerInv
BY WalkerInvInit, WalkerInvNext, PTL DEF WalkerSpec

\* Type correctness of the walker.
THEOREM WalkerTypeCorrect == WalkerSpec => []WalkerTypeOK
<1>1. WalkerInv => WalkerTypeOK
  BY DEF WalkerInv
<1>2. QED
  BY <1>1, WalkerInvariant, PTL

\* No node is handed to the caller before its dependencies are finished,
\* for every finite graph and every order of cancels, answers and drops.
THEOREM EmissionOrder == WalkerSpec => []EmittedAfterDependencies
<1>1. WalkerInv => EmittedAfterDependencies
  BY GraphAssumption
     DEF WalkerInv, SignalInv, DepsInv, EmittedAfterDependencies
<1>2. QED
  BY <1>1, WalkerInvariant, PTL

\* The outcome a node broadcasts never changes.
THEOREM FinalOutcomes == WalkerSpec => OutcomeIsFinal
<1>1. WalkerInv /\ [WalkerNext]_walkerVars =>
        [\A n \in Node : signal[n] # "open" => signal'[n] = signal[n]]_walkerVars
  <2> SUFFICES ASSUME WalkerInv, WalkerNext,
                      NEW n \in Node, signal[n] # "open"
               PROVE  signal'[n] = signal[n]
    OBVIOUS
  <2>1. task[n] = "done"
    BY DEF WalkerInv, WalkerTypeOK, TaskState, TaskInv
  <2>2. CASE Caller
    BY <2>2 DEF Caller, Receive, Answer, Cancel, DropReceiver
  <2>3. ASSUME NEW m \in Node, NodeTask(m)
        PROVE  signal'[n] = signal[n]
    BY <2>1, <2>3
       DEF NodeTask, PollCancel, PollDepsPending, PollDepsSkip, PollDepsEmit,
           CallbackResolved, Return, WalkerInv, WalkerTypeOK
  <2>4. QED
    BY <2>2, <2>3 DEF WalkerNext
<1>2. QED
  BY <1>1, WalkerInvariant, PTL DEF WalkerSpec, OutcomeIsFinal

\* A reason to skip a node stays one: cancels, drops and signals are final.
LEMMA ReasonNext ==
  ASSUME WalkerInv, SkippedForAReason, WalkerNext
  PROVE  SkippedForAReason'
<1> SUFFICES ASSUME NEW n \in Node, task'[n] = "done", callback'[n] = "none",
                    ~cancelled', listening'
             PROVE  \E d \in Deps[n] : Abandoned(d)'
  BY DEF SkippedForAReason
<1> USE DEF TaskState, CallbackState, SignalState
<1>1. ASSUME NEW m \in Node, NodeTask(m)
      PROVE  UNCHANGED <<cancelled, listening>>
  BY <1>1 DEF NodeTask, PollCancel, PollDepsPending, PollDepsSkip, PollDepsEmit,
              CallbackResolved
<1>2. CASE Caller
  BY <1>2 DEF Caller, Receive, Answer, Cancel, DropReceiver, WalkerInv, WalkerTypeOK,
              Results, SkippedForAReason, Abandoned
<1>3. CASE \E m \in Node : NodeTask(m)
  <2>1. PICK m \in Node : NodeTask(m)
    BY <1>3
  <2>2. ~cancelled /\ listening
    BY <1>1, <2>1
  <2>3. callback[n] = "none"
    BY <2>1 DEF NodeTask, PollCancel, PollDepsPending, PollDepsSkip, PollDepsEmit,
                CallbackResolved, WalkerInv, WalkerTypeOK
  <2>4. ASSUME NEW d \in Node, Abandoned(d)
        PROVE  Abandoned(d)'
    BY <2>1, <2>4
       DEF NodeTask, PollCancel, PollDepsPending, PollDepsSkip, PollDepsEmit,
           CallbackResolved, Return, Abandoned, WalkerInv, WalkerTypeOK, TaskInv
  <2>5. \E d \in Deps[n] : Abandoned(d)
    <3>1. CASE task[n] = "done"
      BY <2>2, <2>3, <3>1 DEF SkippedForAReason
    <3>2. CASE task[n] # "done"
      BY <2>1, <2>2, <2>3, <3>2
         DEF NodeTask, PollCancel, PollDepsPending, PollDepsSkip, PollDepsEmit,
             CallbackResolved, Return, Abandoned, WalkerInv, WalkerTypeOK
    <3>3. QED
      BY <3>1, <3>2
  <2>6. QED
    BY <2>4, <2>5, GraphAssumption
<1>4. QED
  BY <1>2, <1>3 DEF WalkerNext

\* A node is skipped only because of a cancel, a dropped receiver or an
\* abandoned dependency.
THEOREM SkipsHaveReasons == WalkerSpec => []SkippedForAReason
<1>1. WalkerInit => SkippedForAReason
  BY DEF WalkerInit, SkippedForAReason
<1>2. WalkerInv /\ SkippedForAReason /\ [WalkerNext]_walkerVars => SkippedForAReason'
  <2>1. CASE UNCHANGED walkerVars
    BY <2>1 DEF walkerVars, SkippedForAReason, Abandoned
  <2>2. QED
    BY <2>1, ReasonNext
<1>3. QED
  BY <1>1, <1>2, WalkerInvariant, PTL DEF WalkerSpec

\* A walk nobody cut short emits exactly the nodes whose dependencies finished.
THEOREM WalksAreComplete == WalkerSpec => []CompleteWalk
<1>1. WalkerInv /\ SkippedForAReason => CompleteWalk
  <2> SUFFICES ASSUME WalkerInv, SkippedForAReason, WalkOver, ~cancelled, listening,
                      NEW n \in Node
               PROVE  callback[n] # "none" <=> \A d \in Deps[n] : callback[d] = "finished"
    BY DEF CompleteWalk
  <2>1. Deps[n] \subseteq Node
    BY GraphAssumption
  <2>2. ASSUME callback[n] # "none"
        PROVE  \A d \in Deps[n] : callback[d] = "finished"
    BY <2>1, <2>2 DEF WalkerInv, SignalInv, DepsInv
  <2>3. ASSUME callback[n] = "none"
        PROVE  \E d \in Deps[n] : callback[d] # "finished"
    <3>1. PICK d \in Deps[n] : Abandoned(d)
      BY <2>3 DEF WalkOver, SkippedForAReason
    <3>2. callback[d] # "finished"
      BY <2>1, <3>1 DEF Abandoned, WalkerInv, SignalInv
    <3>3. QED
      BY <3>1, <3>2
  <2>4. QED
    BY <2>2, <2>3
<1>2. QED
  BY <1>1, WalkerInvariant, SkipsHaveReasons, PTL

-----------------------------------------------------------------------------
(* The engine.                                                             *)

\* Where a worker is fixes where its node's callback is.
CallbackInv(n) ==
  /\ worker[n] = "none" => callback[n] \in {"none", "queued"}
  /\ worker[n] \in {"root", "acquire", "send", "result", "report"} => callback[n] = "held"
  /\ worker[n] = "ok" => callback[n] \in {"finished", "stopped"}
  /\ worker[n] = "err" => callback[n] = "dropped" /\ ~visiting

\* Where a worker is fixes what its message can be.
MessageInv(n) ==
  /\ worker[n] \in {"none", "root", "acquire", "send", "err"} => message[n] = "none"
  /\ worker[n] = "result" => message[n] # "none"
  /\ worker[n] = "report" => message[n] = "all"
  /\ message[n] = "queued" => visiting
  /\ n \in RootNode => message[n] = "none" /\ worker[n] \in {"none", "root", "ok"}
  /\ n \in Task => worker[n] # "root"
  /\ n \in Task /\ worker[n] = "ok" =>
       \/ callback[n] = "finished" /\ message[n] \in {"ok", "dropped", "all"}
       \/ callback[n] = "stopped"  /\ message[n] = "dependents"
  /\ n \in RootNode /\ worker[n] = "ok" => callback[n] = "finished"

\* What the main loop knows of the walk and of the workers.
LoopInv ==
  /\ listening
  /\ cancelled => \E n \in Node : message[n] = "all"
  /\ engine # "walking" => WalkOver
  /\ engine = "ok"  => \A n \in Node : worker[n] \in {"none", "ok"}
  /\ engine = "err" => \E n \in Node : worker[n] = "err"

\* The inductive invariant of the engine; permits are counted apart.
EngineInv ==
  /\ EngineTypeOK
  /\ WalkerInv
  /\ \A n \in Node : CallbackInv(n)
  /\ \A n \in Node : MessageInv(n)
  /\ LoopInv

-----------------------------------------------------------------------------
(* The engine is a caller of the walker.                                   *)

\* Every step of the engine is a step of the walker's specification, or
\* leaves the walker alone.
LEMMA EngineStepIsWalkerStep ==
  ASSUME EngineTypeOK, [EngineNext]_allVars
  PROVE  [WalkerNext]_walkerVars
<1>1. ASSUME NEW n \in Node, WalkerStep(n) \/ SpawnWorker(n)
      PROVE  WalkerNext
  BY <1>1 DEF WalkerStep, SpawnWorker, WalkerNext, Caller
<1>2. ASSUME NEW n \in Node, Worker(n)
      PROVE  [WalkerNext]_walkerVars
  <2>1. CASE ResultStopsAll(n)
    BY <2>1 DEF ResultStopsAll, Cancel, WalkerNext, Caller, walkerVars, EngineTypeOK,
                WalkerTypeOK
  <2>2. CASE \E r \in Results : Answer(n, r)
    BY <2>2 DEF WalkerNext, Caller
  <2>3. CASE AcquirePermit(n) \/ SendTask(n)
    BY <2>3 DEF AcquirePermit, SendTask, walkerVars
  <2>4. QED
    BY <1>2, <2>1, <2>2, <2>3
       DEF Worker, ReportRoot, SendFails, ResultOk, ResultStopsDependents,
           ReportAfterCancel, EndWorker, Results
<1>3. CASE WalkFinished \/ Drained \/ Visitor
  BY <1>3 DEF WalkFinished, Drained, Visitor, VisitorReceives, VisitorAnswers,
              VisitorLeaves, walkerVars
<1>4. CASE UNCHANGED allVars
  BY <1>4 DEF allVars, walkerVars
<1>5. QED
  BY <1>1, <1>2, <1>3, <1>4 DEF EngineNext

-----------------------------------------------------------------------------
(* The inductive invariant.                                                *)

\* The invariant holds when execute enters its loop.
LEMMA EngineInvInit == EngineInit => EngineInv
<1>1. EngineInit => WalkerInv
  BY WalkerInvInit DEF EngineInit
<1>2. QED
  BY <1>1, EngineAssumption
     DEF EngineInit, WalkerInit, EngineInv, EngineTypeOK, WalkerInv, CallbackInv, MessageInv,
         LoopInv, EngineState, WorkerState, MessageState, Verdict, Task

\* The walker's own tasks only send nodes that have no worker yet.
LEMMA WalkerStepInv ==
  ASSUME EngineInv, WalkerInv', NEW n \in Node, WalkerStep(n)
  PROVE  EngineInv'
<1>1. /\ UNCHANGED <<cancelled, listening>>
      /\ \A m \in Node : \/ callback'[m] = callback[m]
                         \/ callback[m] = "none" /\ callback'[m] = "queued"
  BY DEF WalkerStep, NodeTask, PollCancel, PollDepsPending, PollDepsSkip, PollDepsEmit,
         CallbackResolved, EngineInv, WalkerInv, WalkerTypeOK, TaskInv
<1>2. ASSUME engine # "walking"
      PROVE  WalkOver'
  BY <1>2 DEF EngineInv, LoopInv, WalkOver, WalkerStep, NodeTask, PollCancel,
              PollDepsPending, PollDepsSkip, PollDepsEmit, CallbackResolved
<1>3. UNCHANGED <<engine, worker, permits, message, visiting>>
  BY DEF WalkerStep, engineVars
<1>4. \A m \in Node : CallbackInv(m)'
  BY <1>1, <1>3 DEF EngineInv, CallbackInv
<1>5. \A m \in Node : MessageInv(m)'
  BY <1>1, <1>3 DEF EngineInv, MessageInv, CallbackInv
<1>6. QED
  BY <1>1, <1>2, <1>3, <1>4, <1>5 DEF EngineInv, EngineTypeOK, WalkerInv, LoopInv

\* The main loop.
LEMMA LoopStepInv ==
  ASSUME EngineInv, WalkerInv',
         WalkFinished \/ Drained \/ \E n \in Node : SpawnWorker(n)
  PROVE  EngineInv'
<1> USE DEF EngineState, WorkerState, MessageState, Verdict, CallbackState
<1>1. ASSUME NEW n \in Node, SpawnWorker(n)
      PROVE  EngineInv'
  <2>1. worker[n] = "none" /\ message[n] = "none"
    BY <1>1 DEF SpawnWorker, Receive, EngineInv, EngineTypeOK, CallbackInv, MessageInv
  <2>2. \A m \in Node : CallbackInv(m)' /\ MessageInv(m)'
    BY <1>1, <2>1 DEF SpawnWorker, Receive, EngineInv, EngineTypeOK, WalkerTypeOK,
                      CallbackInv, MessageInv, Task
  <2>3. EngineTypeOK' /\ LoopInv'
    BY <1>1 DEF SpawnWorker, Receive, EngineInv, EngineTypeOK, WalkerInv, LoopInv
  <2>4. QED
    BY <2>2, <2>3 DEF EngineInv
<1>2. CASE WalkFinished \/ Drained
  <2>1. UNCHANGED <<walkerVars, worker, permits, message, visiting>>
    BY <1>2 DEF WalkFinished, Drained
  <2>2. \A m \in Node : CallbackInv(m)' /\ MessageInv(m)'
    BY <2>1 DEF EngineInv, CallbackInv, MessageInv, walkerVars
  <2>3. EngineTypeOK' /\ LoopInv'
    BY <1>2, <2>1 DEF WalkFinished, Drained, EngineInv, EngineTypeOK, WalkerInv, LoopInv,
                      walkerVars, WalkOver
  <2>4. QED
    BY <2>2, <2>3 DEF EngineInv
<1>3. QED
  BY <1>1, <1>2

\* The worker of a node.
LEMMA WorkerStepInv ==
  ASSUME EngineInv, WalkerInv', NEW n \in Node, Worker(n)
  PROVE  EngineInv'
<1> USE DEF EngineState, WorkerState, MessageState, Verdict, CallbackState
<1>1. engine = "walking"
  BY DEF EngineInv, LoopInv, WalkOver, WalkerInv, TaskInv, CallbackInv, Worker, ReportRoot,
         AcquirePermit, SendTask, SendFails, ResultOk, ResultStopsDependents,
         ResultStopsAll, ReportAfterCancel
<1>2. CASE ReportRoot(n)
  <2>1. n \in RootNode
    BY <1>2 DEF ReportRoot, EngineInv, MessageInv, Task
  <2>2. \A m \in Node : CallbackInv(m)' /\ MessageInv(m)'
    BY <1>2, <2>1 DEF ReportRoot, Answer, EngineInv, EngineTypeOK, WalkerTypeOK,
                      CallbackInv, MessageInv, Task
  <2>3. QED
    BY <1>1, <1>2, <2>2
       DEF ReportRoot, Answer, EngineInv, EngineTypeOK, WalkerInv, LoopInv
<1>3. CASE AcquirePermit(n)
  <2>1. \A m \in Node : CallbackInv(m)' /\ MessageInv(m)'
    BY <1>3 DEF AcquirePermit, walkerVars, EngineInv, EngineTypeOK, CallbackInv,
                MessageInv, Task
  <2>2. QED
    BY <1>1, <1>3, <2>1
       DEF AcquirePermit, walkerVars, EngineInv, EngineTypeOK, WalkerInv, LoopInv
<1>4. CASE SendTask(n)
  <2>1. \A m \in Node : CallbackInv(m)' /\ MessageInv(m)'
    BY <1>4 DEF SendTask, walkerVars, EngineInv, EngineTypeOK, CallbackInv, MessageInv, Task
  <2>2. cancelled => \E m \in Node : message'[m] = "all"
    BY <1>4 DEF SendTask, EngineInv, EngineTypeOK, LoopInv, MessageInv
  <2>3. QED
    BY <1>1, <1>4, <2>1, <2>2
       DEF SendTask, walkerVars, EngineInv, EngineTypeOK, WalkerInv, LoopInv
<1>5. CASE SendFails(n) \/ ResultOk(n) \/ ResultStopsDependents(n) \/ ReportAfterCancel(n)
  <2>1. \A m \in Node : CallbackInv(m)' /\ MessageInv(m)'
    BY <1>5 DEF SendFails, ResultOk, ResultStopsDependents, ReportAfterCancel, EndWorker,
                Answer, EngineInv, EngineTypeOK, WalkerTypeOK, CallbackInv, MessageInv, Task
  <2>2. PICK done \in Results, result \in {"ok", "err"} : EndWorker(n, done, result)
    BY <1>5 DEF SendFails, ResultOk, ResultStopsDependents, ReportAfterCancel, Results
  <2>3. QED
    BY <1>1, <2>1, <2>2
       DEF EndWorker, Answer, EngineInv, EngineTypeOK, WalkerInv, LoopInv
<1>6. CASE ResultStopsAll(n)
  <2>1. \A m \in Node : CallbackInv(m)' /\ MessageInv(m)'
    BY <1>6 DEF ResultStopsAll, Cancel, EngineInv, EngineTypeOK, CallbackInv, MessageInv,
                Task
  <2>2. QED
    BY <1>1, <1>6, <2>1
       DEF ResultStopsAll, Cancel, EngineInv, EngineTypeOK, WalkerInv, LoopInv
<1>7. QED
  BY <1>2, <1>3, <1>4, <1>5, <1>6 DEF Worker

\* The visitor.
LEMMA VisitorStepInv ==
  ASSUME EngineInv, Visitor
  PROVE  EngineInv'
<1> USE DEF EngineState, WorkerState, MessageState, Verdict
<1>1. UNCHANGED <<walkerVars, engine, worker, permits>>
  BY DEF Visitor, VisitorReceives, VisitorAnswers, VisitorLeaves
<1>2. visiting' = visiting \/ visiting' = FALSE
  BY DEF Visitor, VisitorReceives, VisitorAnswers, VisitorLeaves
<1>3. message' \in [Node -> MessageState]
  BY DEF Visitor, VisitorReceives, VisitorAnswers, VisitorLeaves, EngineInv, EngineTypeOK
<1>4. \A m \in Node : \/ message'[m] = message[m]
                      \/ message[m] \in {"queued", "held"} /\ message'[m] # "none"
  BY DEF Visitor, VisitorReceives, VisitorAnswers, VisitorLeaves, EngineInv, EngineTypeOK
<1>5. \A m \in Node : message'[m] = "queued" => visiting'
  BY DEF Visitor, VisitorReceives, VisitorAnswers, VisitorLeaves, EngineInv, EngineTypeOK,
         MessageInv
<1>6. \A m \in Node : CallbackInv(m)' /\ MessageInv(m)'
  BY <1>1, <1>2, <1>4, <1>5 DEF EngineInv, CallbackInv, MessageInv, walkerVars
<1>7. WalkerInv'
  BY <1>1 DEF EngineInv, WalkerInv, WalkerTypeOK, TaskInv, SignalInv, DepsInv, walkerVars
<1>8. LoopInv'
  BY <1>1, <1>4 DEF EngineInv, LoopInv, WalkOver, walkerVars
<1>9. QED
  BY <1>1, <1>2, <1>3, <1>6, <1>7, <1>8 DEF EngineInv, EngineTypeOK, WalkerInv

\* The invariant is inductive.
LEMMA EngineInvNext == EngineInv /\ [EngineNext]_allVars => EngineInv'
<1> SUFFICES ASSUME EngineInv, [EngineNext]_allVars
             PROVE  EngineInv'
  OBVIOUS
<1>1. WalkerInv'
  BY EngineStepIsWalkerStep, WalkerInvNext DEF EngineInv
<1>2. CASE UNCHANGED allVars
  BY <1>1, <1>2 DEF allVars, engineVars, walkerVars, EngineInv, EngineTypeOK, WalkerInv,
                    CallbackInv, MessageInv, LoopInv, WalkOver
<1>3. QED
  BY <1>1, <1>2, WalkerStepInv, LoopStepInv, WorkerStepInv, VisitorStepInv DEF EngineNext

\* The inductive invariant holds of every execution.
THEOREM EngineInvariant == EngineSpec => []EngineInv
BY EngineInvInit, EngineInvNext, PTL DEF EngineSpec

\* Type correctness of the engine.
THEOREM EngineTypeCorrect == EngineSpec => []EngineTypeOK
<1>1. EngineInv => EngineTypeOK
  BY DEF EngineInv
<1>2. QED
  BY <1>1, EngineInvariant, PTL

\* The engine keeps the protocol of the walker: what is proved of the walker
\* for every caller holds of it.
THEOREM EngineIsWalkerCaller == EngineSpec => IsWalkerCaller
<1>1. EngineInit => WalkerInit
  BY DEF EngineInit
<1>2. EngineInv /\ [EngineNext]_allVars => [WalkerNext]_walkerVars
  BY EngineStepIsWalkerStep DEF EngineInv
<1>3. QED
  BY <1>1, <1>2, EngineInvariant, PTL DEF EngineSpec, WalkerSpec, IsWalkerCaller

-----------------------------------------------------------------------------
(* Permits.                                                                *)

\* The tasks with the visitor hold permits, and so do the workers about to send
\* one.
LEMMA RunningHolds ==
  ASSUME EngineInv
  PROVE  /\ Queued \subseteq Running
         /\ Running \subseteq {n \in Node : worker[n] = "result"}
         /\ Running \subseteq Holding
         /\ IsFiniteSet(Node) /\ IsFiniteSet(Holding) /\ IsFiniteSet(Running)
         /\ IsFiniteSet(Queued)
<1>1. \A n \in Node : message[n] \in {"queued", "held"} => worker[n] = "result"
  BY DEF EngineInv, EngineTypeOK, WorkerState, MessageInv, Task
<1>2. IsFiniteSet(Node)
  BY GraphAssumption
<1>3. /\ Holding \subseteq Node
      /\ Running \subseteq Node
      /\ Queued \subseteq Node
  BY DEF Holding, Running, Queued
<1>4. IsFiniteSet(Holding) /\ IsFiniteSet(Running) /\ IsFiniteSet(Queued)
  BY <1>2, <1>3, FS_Subset
<1>5. QED
  BY <1>1, <1>2, <1>4 DEF Queued, Running, Holding

\* A step moves at most one worker into or out of the permit holders, and
\* takes or returns its permit in the same step.
LEMMA PermitsNext ==
  ASSUME EngineInv, PermitsConserved, [EngineNext]_allVars, ~Parallel
  PROVE  permits' + Cardinality(Holding') = Concurrency
<1>1. /\ permits + Cardinality(Holding) = Concurrency
      /\ permits \in Nat
      /\ Cardinality(Holding) \in Nat
      /\ IsFiniteSet(Holding)
  BY RunningHolds, FS_CardinalityType DEF PermitsConserved, EngineInv, EngineTypeOK
<1>2. CASE permits' = permits /\ Holding' = Holding
  BY <1>1, <1>2
<1>3. ASSUME NEW n \in Node, AcquirePermit(n)
      PROVE  permits' + Cardinality(Holding') = Concurrency
  <2>1. n \notin Holding /\ Holding' = Holding \cup {n} /\ permits' = permits - 1
    BY <1>3 DEF AcquirePermit, Holding, EngineInv, EngineTypeOK
  <2>2. Cardinality(Holding') = Cardinality(Holding) + 1
    BY <1>1, <2>1, FS_AddElement
  <2>3. QED
    BY <1>1, <2>1, <2>2
<1>4. ASSUME NEW n \in Node, SendFails(n) \/ ResultOk(n) \/ ResultStopsDependents(n)
                              \/ ReportAfterCancel(n)
      PROVE  permits' + Cardinality(Holding') = Concurrency
  <2>1. n \in Holding /\ Holding' = Holding \ {n} /\ permits' = permits + 1
    BY <1>4 DEF SendFails, ResultOk, ResultStopsDependents, ReportAfterCancel, EndWorker,
                Holding, EngineInv, EngineTypeOK
  <2>2. Cardinality(Holding') = Cardinality(Holding) - 1
    BY <1>1, <2>1, FS_RemoveElement
  <2>3. QED
    BY <1>1, <2>1, <2>2
<1>5. ASSUME NEW n \in Node,
             \/ WalkerStep(n) \/ SpawnWorker(n) \/ ReportRoot(n) \/ SendTask(n)
             \/ ResultStopsAll(n)
      PROVE  permits' = permits /\ Holding' = Holding
  <2>1. worker' = worker \/ worker[n] \in {"none", "root", "send", "result"}
    BY <1>5 DEF WalkerStep, engineVars, SpawnWorker, Receive, ReportRoot, SendTask,
                ResultStopsAll, EngineInv, EngineTypeOK, WorkerState, CallbackInv
  <2>2. QED
    BY <1>5, <2>1 DEF WalkerStep, engineVars, SpawnWorker, Receive, ReportRoot, SendTask,
                ResultStopsAll, Holding, EngineInv, EngineTypeOK, WorkerState, CallbackInv
<1>6. CASE WalkFinished \/ Drained \/ Visitor \/ UNCHANGED allVars
  BY <1>2, <1>6 DEF WalkFinished, Drained, Visitor, VisitorReceives, VisitorAnswers,
                    VisitorLeaves, allVars, engineVars, Holding
<1>7. QED
  BY <1>2, <1>3, <1>4, <1>5, <1>6 DEF EngineNext, Worker

\* No permit is lost or duplicated, whatever stops or fails.
THEOREM PermitsAreConserved == EngineSpec => []PermitsConserved
<1>1. EngineInit => PermitsConserved
  <2>1. EngineInit => Holding = {}
    BY DEF EngineInit, Holding
  <2>2. QED
    BY <2>1, FS_EmptySet, EngineAssumption DEF EngineInit, PermitsConserved
<1>2. EngineInv /\ PermitsConserved /\ [EngineNext]_allVars => PermitsConserved'
  BY PermitsNext DEF PermitsConserved
<1>3. QED
  BY <1>1, <1>2, EngineInvariant, PTL DEF EngineSpec

\* At most Concurrency tasks are with the visitor at any time.
THEOREM ConcurrencyIsRespected == EngineSpec => []ConcurrencyRespected
<1>1. EngineInv /\ PermitsConserved => ConcurrencyRespected
  <2> SUFFICES ASSUME EngineInv, PermitsConserved, ~Parallel
               PROVE  Cardinality(Running) <= Concurrency
    BY DEF ConcurrencyRespected
  <2>1. Cardinality(Running) <= Cardinality(Holding)
    BY RunningHolds, FS_Subset
  <2>2. Cardinality(Running) \in Nat /\ Cardinality(Holding) \in Nat
    BY RunningHolds, FS_CardinalityType
  <2>3. QED
    BY <2>1, <2>2, EngineAssumption DEF PermitsConserved, EngineInv, EngineTypeOK
<1>2. QED
  BY <1>1, EngineInvariant, PermitsAreConserved, PTL

\* A worker about to send leaves room for itself among the permit holders.
LEMMA RoomToSend ==
  ASSUME EngineInv, PermitsConserved, ~Parallel, NEW n \in Node, worker[n] = "send"
  PROVE  Cardinality(Running) < Concurrency
<1>1. n \in Holding /\ Running \subseteq Holding \ {n}
  BY RunningHolds DEF Holding
<1>2. /\ IsFiniteSet(Holding \ {n})
      /\ Cardinality(Holding \ {n}) = Cardinality(Holding) - 1
  BY <1>1, RunningHolds, FS_RemoveElement
<1>3. Cardinality(Running) <= Cardinality(Holding \ {n})
  BY <1>1, <1>2, FS_Subset
<1>4. Cardinality(Running) \in Nat /\ Cardinality(Holding) \in Nat
  BY RunningHolds, FS_CardinalityType
<1>5. QED
  BY <1>2, <1>3, <1>4, EngineAssumption DEF PermitsConserved, EngineInv, EngineTypeOK

\* With as many slots as permits, sending to the visitor never waits.
THEOREM SendsNeverWait == EngineSpec => []SendNeverWaits
<1>1. EngineInv /\ PermitsConserved => SendNeverWaits
  <2> SUFFICES ASSUME EngineInv, PermitsConserved, ~Parallel, Concurrency <= Capacity,
                      NEW n \in Node, worker[n] = "send"
               PROVE  Cardinality(Queued) < Capacity
    BY DEF SendNeverWaits
  <2>1. Cardinality(Queued) <= Cardinality(Running)
    BY RunningHolds, FS_Subset
  <2>2. Cardinality(Queued) \in Nat /\ Cardinality(Running) \in Nat
    BY RunningHolds, FS_CardinalityType
  <2>3. QED
    BY <2>1, <2>2, RoomToSend, EngineAssumption
<1>2. QED
  BY <1>1, EngineInvariant, PermitsAreConserved, PTL

-----------------------------------------------------------------------------
(* The order of tasks and the result of execute.                           *)

\* What EngineInv and WalkerInv say of a task that was sent.
LEMMA SentDependencies ==
  ASSUME EngineInv, NEW n \in Task, callback[n] # "none", NEW d \in Deps[n] \ RootNode
  PROVE  message[d] \in {"ok", "dropped", "all"}
<1>1. d \in Node /\ d \in Task
  BY GraphAssumption DEF Task
<1>2. callback[d] = "finished"
  BY <1>1 DEF EngineInv, WalkerInv, DepsInv, SignalInv, Task
<1>3. worker[d] = "ok"
  BY <1>1, <1>2 DEF EngineInv, EngineTypeOK, WorkerState, CallbackInv
<1>4. QED
  BY <1>1, <1>2, <1>3 DEF EngineInv, MessageInv

\* No task is with the visitor before its dependencies are done, or after one of
\* them stopped its dependents.
THEOREM TaskOrder == EngineSpec => []SentAfterDependencies
<1>1. EngineInv => SentAfterDependencies
  <2>1. ASSUME EngineInv, NEW n \in Task, message[n] # "none"
        PROVE  callback[n] # "none"
    BY <2>1 DEF EngineInv, EngineTypeOK, WorkerState, CallbackInv, MessageInv, Task
  <2>2. QED
    BY <2>1, SentDependencies DEF SentAfterDependencies
<1>2. QED
  BY <1>1, EngineInvariant, PTL

\* Once the walk is over no worker waits for anything, so nothing is running.
LEMMA IdleAfterWalk ==
  ASSUME EngineInv, engine # "walking"
  PROVE  /\ Running = {}
         /\ \A n \in Node : worker[n] \in {"none", "ok", "err"}
<1>1. \A n \in Node : callback[n] \notin {"queued", "held"}
  BY DEF EngineInv, LoopInv, WalkOver, WalkerInv, TaskInv
<1>2. \A n \in Node : worker[n] \in {"none", "ok", "err"}
  BY <1>1 DEF EngineInv, EngineTypeOK, WorkerState, CallbackInv
<1>3. QED
  BY <1>2, RunningHolds

\* execute returns only when the visitor holds none of its tasks.
THEOREM ReturnsLast == EngineSpec => []ReturnsAfterAnswers
<1>1. EngineInv => ReturnsAfterAnswers
  BY IdleAfterWalk DEF ReturnsAfterAnswers, Returned
<1>2. QED
  BY <1>1, EngineInvariant, PTL

\* The result of execute says whether a send failed, and Ok means that every
\* node the walker emitted was answered.
THEOREM ResultIsMeaningful == EngineSpec => []ErrorMeansVisitorLeft
<1>1. EngineInv => ErrorMeansVisitorLeft
  <2>1. ASSUME EngineInv, engine = "err"
        PROVE  ~visiting
    BY <2>1 DEF EngineInv, LoopInv, CallbackInv
  <2>2. ASSUME EngineInv, engine = "ok", NEW n \in Task, callback[n] # "none"
        PROVE  message[n] \in Verdict
    <3>1. callback[n] \notin {"queued", "held"} /\ n \in Node
      BY <2>2 DEF EngineInv, LoopInv, WalkOver, WalkerInv, TaskInv, Task
    <3>2. worker[n] = "ok"
      BY <2>2, <3>1 DEF EngineInv, LoopInv, CallbackInv
    <3>3. QED
      BY <2>2, <3>1, <3>2 DEF EngineInv, MessageInv, Verdict
  <2>3. QED
    BY <2>1, <2>2 DEF ErrorMeansVisitorLeft
<1>2. QED
  BY <1>1, EngineInvariant, PTL

\* The walker's theorem about reasons to skip holds under the engine.
LEMMA EngineSkipsHaveReasons == EngineSpec => []SkippedForAReason
BY EngineIsWalkerCaller, SkipsHaveReasons, PTL DEF IsWalkerCaller

\* A run that nothing stopped visits every task it can.
THEOREM RunsAreComplete == EngineSpec => []VisitedExactly
<1>1. EngineInv /\ SkippedForAReason => VisitedExactly
  <2> SUFFICES ASSUME EngineInv, SkippedForAReason, Returned, visiting,
                      \A n \in Node : message[n] # "all"
               PROVE  /\ engine = "ok"
                      /\ \A n \in Task : message[n] # "none" <=>
                           \A d \in Deps[n] \ RootNode : message[d] \in {"ok", "dropped"}
    BY DEF VisitedExactly
  <2>1. engine = "ok"
    BY DEF EngineInv, LoopInv, CallbackInv, Returned
  <2>2. ~cancelled /\ listening /\ WalkOver
    BY <2>1 DEF EngineInv, LoopInv
  <2>3. \A n \in Node : worker[n] \in {"none", "ok"} /\ callback[n] # "queued"
    BY <2>1, <2>2 DEF EngineInv, LoopInv, WalkOver, WalkerInv, TaskInv
  <2>4. ASSUME NEW n \in Task
        PROVE  message[n] # "none" <=> callback[n] # "none"
    BY <2>3 DEF EngineInv, CallbackInv, MessageInv, Task
  <2>5. ASSUME NEW n \in Task, callback[n] # "none", NEW d \in Deps[n] \ RootNode
        PROVE  message[d] \in {"ok", "dropped"}
    <3>1. d \in Node
      BY GraphAssumption DEF Task
    <3>2. QED
      BY <2>5, <3>1, SentDependencies
  <2>6. ASSUME NEW n \in Task, callback[n] = "none"
        PROVE  \E d \in Deps[n] \ RootNode : message[d] \notin {"ok", "dropped"}
    <3>1. PICK d \in Deps[n] : Abandoned(d)
      BY <2>2, <2>6 DEF SkippedForAReason, WalkOver, Task
    <3>2. d \in Node /\ callback[d] # "finished"
      BY <3>1, GraphAssumption DEF Abandoned, EngineInv, WalkerInv, SignalInv, Task
    <3>3. d \notin RootNode
      <4>1. CASE worker[d] = "none"
        <5>1. callback[d] = "none"
          BY <2>3, <3>2, <4>1 DEF EngineInv, CallbackInv
        <5>2. Deps[d] # {}
          BY <2>2, <3>2, <5>1 DEF SkippedForAReason, WalkOver
        <5>3. QED
          BY <5>2, EngineAssumption
      <4>2. CASE worker[d] = "ok"
        BY <3>2, <4>2 DEF EngineInv, MessageInv
      <4>3. QED
        BY <2>3, <3>2, <4>1, <4>2
    <3>4. message[d] \notin {"ok", "dropped"}
      BY <2>3, <3>2, <3>3 DEF EngineInv, MessageInv, Task
    <3>5. QED
      BY <3>1, <3>3, <3>4
  <2>7. QED
    BY <2>1, <2>4, <2>5, <2>6
<1>2. QED
  BY <1>1, EngineInvariant, EngineSkipsHaveReasons, PTL

-----------------------------------------------------------------------------
(* Refinement of TaskSchedule.                                             *)

\* The schedule counts as the engine does.
LEMMA SameCardinality == \A S : Schedule!Cardinality(S) = Cardinality(S)
BY DEF Cardinality, Schedule!Cardinality

\* The status a message stands for.
LEMMA Statuses ==
  /\ StatusOf("none") = "waiting"
  /\ StatusOf("queued") = "running" /\ StatusOf("held") = "running"
  /\ StatusOf("ok") = "succeeded" /\ StatusOf("dropped") = "succeeded"
  /\ StatusOf("dependents") = "failed" /\ StatusOf("all") = "halted"
BY DEF StatusOf

\* The tasks the abstract schedule calls active are those with the visitor.
LEMMA ActiveIsRunning ==
  ASSUME EngineInv
  PROVE  Schedule!Active = Running
<1>1. \A n \in Node : message[n] \in MessageState
  BY DEF EngineInv, EngineTypeOK
<1>2. \A n \in Task : TaskStatus(n) = "running" <=> message[n] \in {"queued", "held"}
  BY <1>1, Statuses DEF TaskStatus, Task, MessageState, Verdict
<1>3. \A n \in RootNode : message[n] = "none"
  BY EngineAssumption DEF EngineInv, MessageInv
<1>4. QED
  BY <1>2, <1>3 DEF Schedule!Active, Running, Task

\* Sending a task to the visitor starts it.
LEMMA SendStarts ==
  ASSUME EngineInv, PermitsConserved, NEW n \in Node, SendTask(n)
  PROVE  Schedule!Start(n)
<1>1. /\ n \in Task /\ message[n] = "none" /\ callback[n] = "held" /\ ~Returned
  <2>1. callback[n] = "held" /\ message[n] = "none"
    BY DEF SendTask, EngineInv, CallbackInv, MessageInv
  <2>2. n \notin RootNode
    BY DEF SendTask, EngineInv, MessageInv
  <2>3. ~Returned
    BY IdleAfterWalk DEF SendTask, Returned
  <2>4. QED
    BY <2>1, <2>2, <2>3 DEF Task
<1>2. \A d \in Deps[n] \ RootNode : d \in Task /\ TaskStatus(d) \in {"succeeded", "halted"}
  <2> SUFFICES ASSUME NEW d \in Deps[n] \ RootNode
               PROVE  d \in Task /\ TaskStatus(d) \in {"succeeded", "halted"}
    OBVIOUS
  <2>1. d \in Task
    BY GraphAssumption DEF Task
  <2>2. message[d] \in {"ok", "dropped", "all"}
    BY <1>1, SentDependencies
  <2>3. QED
    BY <2>1, <2>2, Statuses DEF TaskStatus
<1>3. Cardinality(Running) < IF Parallel THEN Cardinality(Node) ELSE Concurrency
  <2>1. CASE Parallel
    <3>1. n \notin Running /\ Running \subseteq Node
      BY <1>1 DEF Running
    <3>2. Cardinality(Running) <= Cardinality(Node) /\ Running # Node
      BY <3>1, RunningHolds, FS_Subset
    <3>3. Cardinality(Running) # Cardinality(Node)
      BY <3>1, <3>2, RunningHolds, FS_Subset
    <3>4. Cardinality(Running) \in Nat /\ Cardinality(Node) \in Nat
      BY RunningHolds, FS_CardinalityType
    <3>5. QED
      BY <2>1, <3>2, <3>3, <3>4
  <2>2. CASE ~Parallel
    BY <2>2, RoomToSend DEF SendTask
  <2>3. QED
    BY <2>1, <2>2
<1>4. [t \in Task |-> TaskStatus(t)]' = [[t \in Task |-> TaskStatus(t)] EXCEPT ![n] = "running"]
  <2>1. \A t \in Task : message'[t] = IF t = n THEN "queued" ELSE message[t]
    BY DEF SendTask, EngineInv, EngineTypeOK, Task
  <2>2. \A t \in Task : TaskStatus(t)' = IF t = n THEN "running" ELSE TaskStatus(t)
    BY <2>1, Statuses DEF TaskStatus
  <2>3. QED
    BY <1>1, <2>2
<1>5. Returned' = Returned /\ visiting /\ visiting' = visiting
  BY DEF SendTask, Returned
<1>6. QED
  <2>1. TaskStatus(n) = "waiting"
    BY <1>1, Statuses DEF TaskStatus
  <2>2. QED
    <3>1. [t \in Task |-> TaskStatus(t)][n] = "waiting"
      BY <1>1, <2>1
    <3>2. \A d \in [t \in Task |-> Deps[t] \ RootNode][n] :
            [t \in Task |-> TaskStatus(t)][d] \in {"succeeded", "halted"}
      BY <1>1, <1>2
    <3>3. Schedule!Cardinality(Schedule!Active) <
            IF Parallel THEN Cardinality(Node) ELSE Concurrency
      BY <1>3, ActiveIsRunning, SameCardinality
    <3>4. QED
      BY <1>1, <1>4, <1>5, <3>1, <3>2, <3>3 DEF Schedule!Start

\* Answers and drops of the visitor finish tasks; receiving one changes nothing.
LEMMA VisitorFinishes ==
  ASSUME EngineInv, Visitor
  PROVE  [Schedule!ScheduleNext]_Schedule!scheduleVars
<1>1. Returned' = Returned
  BY DEF Visitor, VisitorReceives, VisitorAnswers, VisitorLeaves, Returned
<1>2. ASSUME NEW n \in Node, VisitorReceives(n)
      PROVE  UNCHANGED <<[t \in Task |-> TaskStatus(t)], visiting>>
  <2>1. \A t \in Task : \/ message'[t] = message[t]
                        \/ message[t] = "queued" /\ message'[t] = "held"
    BY <1>2 DEF VisitorReceives, EngineInv, EngineTypeOK, Task
  <2>2. \A t \in Task : TaskStatus(t)' = TaskStatus(t)
    BY <2>1, Statuses DEF TaskStatus
  <2>3. QED
    BY <1>2, <2>2 DEF VisitorReceives
<1>3. ASSUME NEW n \in Node, NEW v \in Verdict, VisitorAnswers(n, v)
      PROVE  \E o \in Schedule!Outcome :
               Schedule!Finish({n}, o) /\ UNCHANGED <<Returned, ~visiting>>
  <2> DEFINE o == IF v \in {"ok", "dropped"} THEN "succeeded"
                  ELSE IF v = "all" THEN "halted" ELSE "failed"
  <2>1. n \in Running
    BY <1>3 DEF VisitorAnswers, Running
  <2>2. \A t \in Task : message'[t] = IF t = n THEN v ELSE message[t]
    BY <1>3 DEF VisitorAnswers, EngineInv, EngineTypeOK, Task
  <2>3. \A t \in Task : TaskStatus(t)' = IF t \in {n} THEN o ELSE TaskStatus(t)
    BY <2>2, Statuses DEF TaskStatus, Verdict
  <2>4. o \in Schedule!Outcome
    BY DEF Schedule!Outcome
  <2>5. [t \in Task |-> TaskStatus(t)]' =
          [t \in Task |-> IF t \in {n} THEN o ELSE [u \in Task |-> TaskStatus(u)][t]]
    BY <2>3
  <2> HIDE DEF o
  <2>6. Schedule!Finish({n}, o)
    BY <1>1, <2>1, <2>5, ActiveIsRunning DEF Schedule!Finish
  <2>7. UNCHANGED <<Returned, ~visiting>>
    BY <1>1, <1>3 DEF VisitorAnswers
  <2>8. QED
    BY <2>4, <2>6, <2>7
<1>4. CASE VisitorLeaves
  <2>1. \A t \in Task : message'[t] = IF message[t] = "queued" THEN "dropped" ELSE message[t]
    BY <1>4 DEF VisitorLeaves, Task
  <2>2. \A t \in Task : TaskStatus(t)' = IF t \in Queued THEN "succeeded" ELSE TaskStatus(t)
    BY <2>1, Statuses DEF TaskStatus, Queued, Task
  <2>3. [t \in Task |-> TaskStatus(t)]' =
          [t \in Task |-> IF t \in Queued THEN "succeeded" ELSE [u \in Task |-> TaskStatus(u)][t]]
    BY <2>2
  <2>4. Schedule!Finish(Queued, "succeeded")
    BY <1>1, <2>3, ActiveIsRunning, RunningHolds DEF Schedule!Finish
  <2>5. Queued \in SUBSET Task
    BY DEF EngineInv, MessageInv, Queued, Task
  <2>6. visiting /\ ~visiting'
    BY <1>4 DEF VisitorLeaves
  <2>7. Schedule!Leave(Queued)
    BY <1>1, <2>4, <2>6 DEF Schedule!Leave
  <2>8. QED
    BY <2>5, <2>7 DEF Schedule!ScheduleNext
<1>5. \A n \in Node : message[n] = "held" => {n} \in SUBSET Task
  BY DEF EngineInv, MessageInv, Task
<1>6. ASSUME NEW n \in Node, NEW v \in Verdict, VisitorAnswers(n, v)
      PROVE  Schedule!ScheduleNext
  <2>1. {n} \in SUBSET Task
    BY <1>5, <1>6 DEF VisitorAnswers
  <2>2. PICK o \in Schedule!Outcome :
          Schedule!Finish({n}, o) /\ UNCHANGED <<Returned, ~visiting>>
    BY <1>3, <1>6
  <2>3. QED
    BY <2>1, <2>2 DEF Schedule!ScheduleNext
<1>7. QED
  BY <1>1, <1>2, <1>4, <1>6 DEF Visitor, Schedule!scheduleVars

\* No status is halted: no message answered AllTasks.
LEMMA HaltedNobody ==
  ASSUME EngineInv, \A t \in Task : TaskStatus(t) # "halted"
  PROVE  \A n \in Node : message[n] # "all"
<1>1. \A n \in RootNode : message[n] = "none"
  BY EngineAssumption DEF EngineInv, MessageInv
<1>2. \A n \in Task : message[n] # "all"
  BY Statuses DEF TaskStatus
<1>3. QED
  BY <1>1, <1>2 DEF Task

\* A task that still waits when execute returns has a dependency that did not
\* succeed.
LEMMA BlockedByDependency ==
  ASSUME EngineInv, VisitedExactly', Returned', visiting, visiting' = visiting,
         message' = message, \A n \in Node : message[n] # "all",
         NEW t \in Task, TaskStatus(t) = "waiting"
  PROVE  \E d \in Deps[t] \ RootNode : d \in Task /\ TaskStatus(d) # "succeeded"
<1>1. \A n \in Task : message[n] \in MessageState
  BY DEF EngineInv, EngineTypeOK, Task
<1>2. message[t] = "none"
  BY <1>1, Statuses DEF TaskStatus, MessageState, Verdict
<1>3. ~ \A d \in Deps[t] \ RootNode : message[d] \in {"ok", "dropped"}
  BY <1>2 DEF VisitedExactly
<1>4. PICK d \in Deps[t] \ RootNode : message[d] \notin {"ok", "dropped"}
  BY <1>3
<1>5. d \in Task
  BY GraphAssumption DEF Task
<1>6. TaskStatus(d) # "succeeded"
  BY <1>1, <1>4, <1>5, Statuses DEF TaskStatus, MessageState, Verdict
<1>7. QED
  BY <1>4, <1>5, <1>6

\* Every step of the engine is a step of the schedule or leaves it alone.
LEMMA EngineStepIsScheduleStep ==
  ASSUME EngineInv, PermitsConserved, VisitedExactly', [EngineNext]_allVars
  PROVE  [Schedule!ScheduleNext]_Schedule!scheduleVars
<1>1. ASSUME message' = message, Returned' = Returned, visiting' = visiting
      PROVE  UNCHANGED Schedule!scheduleVars
  BY <1>1 DEF Schedule!scheduleVars, TaskStatus
<1>2. ASSUME NEW n \in Node, SendTask(n)
      PROVE  Schedule!ScheduleNext
  <2>1. n \in Task
    BY <1>2 DEF SendTask, EngineInv, MessageInv, Task
  <2>2. QED
    BY <1>2, <2>1, SendStarts DEF Schedule!ScheduleNext
<1>3. CASE Drained
  <2>1. /\ engine = "draining" /\ engine' \in {"ok", "err"}
        /\ message' = message /\ visiting' = visiting
    BY <1>3 DEF Drained
  <2>2. Returned' = TRUE /\ Running = {}
    BY <2>1, IdleAfterWalk DEF Returned
  <2>3. ASSUME visiting, \A t \in Task : TaskStatus(t) # "halted",
               NEW t \in Task, TaskStatus(t) = "waiting"
        PROVE  \E d \in Deps[t] \ RootNode : d \in Task /\ TaskStatus(d) # "succeeded"
    BY <2>1, <2>2, <2>3, HaltedNobody, BlockedByDependency
  <2>4. Schedule!Undisturbed => visiting /\ \A t \in Task : TaskStatus(t) # "halted"
    BY DEF Schedule!Undisturbed
  <2>5. UNCHANGED <<[t \in Task |-> TaskStatus(t)], visiting>>
    BY <2>1 DEF TaskStatus
  <2>6. Schedule!Finished
    BY <2>2, <2>3, <2>4, <2>5, ActiveIsRunning DEF Schedule!Finished
  <2>7. QED
    BY <2>6 DEF Schedule!ScheduleNext
<1>4. CASE WalkFinished
  BY <1>1, <1>4 DEF WalkFinished, Returned
<1>5. ASSUME NEW n \in Node, WalkerStep(n) \/ SpawnWorker(n)
      PROVE  message' = message /\ Returned' = Returned /\ visiting' = visiting
  BY <1>5 DEF WalkerStep, engineVars, SpawnWorker, Returned
<1>6. ASSUME NEW n \in Node, Worker(n), ~SendTask(n)
      PROVE  message' = message /\ Returned' = Returned /\ visiting' = visiting
  BY <1>6 DEF Worker, ReportRoot, AcquirePermit, SendFails, ResultOk,
              ResultStopsDependents, ResultStopsAll, ReportAfterCancel, EndWorker, Returned
<1>7. CASE UNCHANGED allVars
  BY <1>1, <1>7 DEF allVars, engineVars, Returned
<1>8. QED
  BY <1>1, <1>2, <1>3, <1>4, <1>5, <1>6, <1>7, VisitorFinishes DEF EngineNext

\* Engine::execute implements the abstract schedule, for every acyclic graph,
\* every concurrency and every behaviour of the visitor.
THEOREM EngineImplementsSchedule == EngineSpec => ImplementsSchedule
<1>1. EngineInit => Schedule!ScheduleInit
  BY Statuses DEF EngineInit, Schedule!ScheduleInit, TaskStatus, Returned, Task
<1>2. EngineInv /\ PermitsConserved /\ VisitedExactly' /\ [EngineNext]_allVars =>
        [Schedule!ScheduleNext]_Schedule!scheduleVars
  BY EngineStepIsScheduleStep
<1>3. QED
  BY <1>1, <1>2, EngineInvariant, PermitsAreConserved, RunsAreComplete, PTL
     DEF EngineSpec, Schedule!ScheduleSpec, ImplementsSchedule
=============================================================================
