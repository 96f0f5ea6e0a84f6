---------------------------- MODULE EngineExecute ----------------------------
(***************************************************************************)
(* Engine::execute of crates/turborepo-engine/src/execute.rs, the caller   *)
(* of the graph walker.                                                    *)
(*                                                                         *)
(* The main loop receives nodes from the walker and spawns one worker per  *)
(* node.  The worker of a task takes a permit of the concurrency           *)
(* semaphore, sends the task to the visitor, awaits the visitor's result,  *)
(* cancels the walk if the result stops all tasks, and reports to the      *)
(* walker.  When the walk is over the loop drains the workers.             *)
(*                                                                         *)
(* The visitor is the environment: it receives tasks, answers or drops     *)
(* each of them, and may drop its receiver (Visitor::visit does after an   *)
(* error of its own).                                                      *)
(*                                                                         *)
(* execute returns CyclicTaskGraph before it spawns anything when the      *)
(* graph has a cycle; the model starts after that check.                   *)
(***************************************************************************)
EXTENDS Walker

CONSTANTS RootNode,     \* the nodes whose weight is TaskNode::Root
          Concurrency,  \* permits of the semaphore
          Parallel,     \* ExecutionOptions::parallel: no permit is taken
          Capacity      \* capacity of the channel to the visitor

ASSUME EngineAssumption ==
  /\ RootNode \subseteq Node
  /\ \A r \in RootNode : Deps[r] = {}
  /\ Concurrency \in Nat \ {0}
  /\ Capacity \in Nat \ {0}
  /\ Parallel \in BOOLEAN

\* is_cyclic_directed returned false.
ASSUME AcyclicAssumption ==
  \A S \in SUBSET Node : S # {} => \E n \in S : Deps[n] \cap S = {}

VARIABLES
  engine,     \* "walking": the recv loop; "draining"; "ok", "err": returned
  worker,     \* where the spawned worker of each node is
  permits,    \* available permits of the semaphore
  message,    \* the message sent to the visitor: where it is, its result
  visiting    \* the visitor has not dropped its receiver

engineVars == <<engine, worker, permits, message, visiting>>
allVars    == <<walkerVars, engineVars>>

(***************************************************************************)
(* worker: "none" not spawned; "root" spawned for the root node; "acquire" *)
(*   awaiting a permit; "send" awaiting room in the visitor's channel;     *)
(*   "result" awaiting the callback; "report" after walker.cancel(),       *)
(*   before done.send(true); "ok", "err" returned.                         *)
(* message: "none"; "queued" in the channel; "held" by the visitor;        *)
(*   "ok", "all", "dependents": answered Ok(()), Err(AllTasks),            *)
(*   Err(DependentTasks); "dropped": the callback was dropped.             *)
(***************************************************************************)
EngineState  == {"walking", "draining", "ok", "err"}
WorkerState  == {"none", "root", "acquire", "send", "result", "report",
                 "ok", "err"}
Verdict      == {"ok", "all", "dependents", "dropped"}
MessageState == {"none", "queued", "held"} \cup Verdict

Task    == Node \ RootNode
Queued  == {n \in Node : message[n] = "queued"}
Running == {n \in Node : message[n] \in {"queued", "held"}}
Holding == {n \in Node : worker[n] \in {"send", "result", "report"}}

EngineTypeOK ==
  /\ WalkerTypeOK
  /\ engine \in EngineState
  /\ worker \in [Node -> WorkerState]
  /\ permits \in Nat
  /\ message \in [Node -> MessageState]
  /\ visiting \in BOOLEAN

EngineInit ==
  /\ WalkerInit
  /\ engine = "walking"
  /\ worker = [n \in Node |-> "none"]
  /\ permits = Concurrency
  /\ message = [n \in Node |-> "none"]
  /\ visiting = TRUE

-----------------------------------------------------------------------------
(* The walker's tasks run beside the engine.                               *)

WalkerStep(n) ==
  /\ NodeTask(n)
  /\ UNCHANGED engineVars

-----------------------------------------------------------------------------
(* The main loop.                                                          *)

\* nodes.recv() yields n; its worker is spawned.
SpawnWorker(n) ==
  /\ engine = "walking"
  /\ Receive(n)
  /\ worker' = [worker EXCEPT ![n] = IF n \in RootNode THEN "root"
                                     ELSE IF Parallel  THEN "send"
                                     ELSE "acquire"]
  /\ UNCHANGED <<engine, permits, message, visiting>>

\* Mutant: the loop also ends when the walk was cancelled.
WalkFinishedOnCancel ==
  /\ engine = "walking"
  /\ WalkOver \/ cancelled
  /\ engine' = "draining"
  /\ UNCHANGED <<walkerVars, worker, permits, message, visiting>>

\* nodes.recv() yields None.
WalkFinished ==
  /\ engine = "walking"
  /\ WalkOver
  /\ engine' = "draining"
  /\ UNCHANGED <<walkerVars, worker, permits, message, visiting>>

\* tasks.next() yields workers in the order they end; res?? returns the first
\* error, and Ok(()) needs all of them.
Drained ==
  /\ engine = "draining"
  /\ \/ /\ \E n \in Node : worker[n] = "err"
        /\ engine' = "err"
     \/ /\ \A n \in Node : worker[n] \in {"none", "ok"}
        /\ engine' = "ok"
  /\ UNCHANGED <<walkerVars, worker, permits, message, visiting>>

-----------------------------------------------------------------------------
(* The worker of a node.                                                   *)

\* The root node has nothing to do.
ReportRoot(n) ==
  /\ worker[n] = "root"
  /\ Answer(n, "finished")
  /\ worker' = [worker EXCEPT ![n] = "ok"]
  /\ UNCHANGED <<engine, permits, message, visiting>>

\* Mutant: the permit is dropped as soon as it is acquired (let _ = ...).
AcquirePermitDropped(n) ==
  /\ worker[n] = "acquire"
  /\ permits > 0
  /\ worker' = [worker EXCEPT ![n] = "send"]
  /\ UNCHANGED <<walkerVars, engine, permits, message, visiting>>

\* Mutant: the permit is not awaited.
AcquirePermitUnchecked(n) ==
  /\ worker[n] = "acquire"
  /\ permits' = permits - 1
  /\ worker' = [worker EXCEPT ![n] = "send"]
  /\ UNCHANGED <<walkerVars, engine, message, visiting>>

\* sema.acquire().await
AcquirePermit(n) ==
  /\ worker[n] = "acquire"
  /\ permits > 0
  /\ permits' = permits - 1
  /\ worker' = [worker EXCEPT ![n] = "send"]
  /\ UNCHANGED <<walkerVars, engine, message, visiting>>

\* The worker returns result, having told the walker done, or dropped it; its
\* permit is released.
EndWorker(n, done, result) ==
  /\ Answer(n, done)
  /\ worker' = [worker EXCEPT ![n] = result]
  /\ permits' = IF Parallel THEN permits ELSE permits + 1
  /\ UNCHANGED <<engine, message, visiting>>

\* visitor.send(message).await
SendTask(n) ==
  /\ worker[n] = "send"
  /\ visiting
  /\ Cardinality(Queued) < Capacity
  /\ message' = [message EXCEPT ![n] = "queued"]
  /\ worker' = [worker EXCEPT ![n] = "result"]
  /\ UNCHANGED <<walkerVars, engine, permits, visiting>>

\* Mutant: the early return forgets the permit.
SendFailsLeaks(n) ==
  /\ worker[n] = "send"
  /\ ~visiting
  /\ Answer(n, "dropped")
  /\ worker' = [worker EXCEPT ![n] = "err"]
  /\ UNCHANGED <<engine, permits, message, visiting>>

\* Mutant: the early return keeps the walker's callback alive.
SendFailsKeepsDone(n) ==
  /\ worker[n] = "send"
  /\ ~visiting
  /\ worker' = [worker EXCEPT ![n] = "err"]
  /\ permits' = IF Parallel THEN permits ELSE permits + 1
  /\ UNCHANGED <<walkerVars, engine, message, visiting>>

\* visitor.send(message).await? with the receiver gone: done is dropped.
SendFails(n) ==
  /\ worker[n] = "send"
  /\ ~visiting
  /\ EndWorker(n, "dropped", "err")

\* Mutant: a dropped callback is an error.
ResultOkStrict(n) ==
  /\ worker[n] = "result"
  /\ \/ message[n] = "ok" /\ EndWorker(n, "finished", "ok")
     \/ message[n] = "dropped" /\ EndWorker(n, "dropped", "err")

\* result.await: Ok(()), or the callback was dropped, which counts as Ok(()).
ResultOk(n) ==
  /\ worker[n] = "result"
  /\ message[n] \in {"ok", "dropped"}
  /\ EndWorker(n, "finished", "ok")

\* Mutant: the match arm tells the walker to go on.
ResultStopsNobody(n) ==
  /\ worker[n] = "result"
  /\ message[n] = "dependents"
  /\ EndWorker(n, "finished", "ok")

\* Mutant: the match guard cancels the walk for both kinds of stop.
ResultStopsEverybody(n) ==
  /\ worker[n] = "result"
  /\ message[n] = "dependents"
  /\ Cancel
  /\ worker' = [worker EXCEPT ![n] = "report"]
  /\ UNCHANGED <<engine, permits, message, visiting>>

\* result.await: Err(DependentTasks).
ResultStopsDependents(n) ==
  /\ worker[n] = "result"
  /\ message[n] = "dependents"
  /\ EndWorker(n, "stopped", "ok")

\* result.await: Err(AllTasks) calls walker.cancel() in the match guard ...
ResultStopsAll(n) ==
  /\ worker[n] = "result"
  /\ message[n] = "all"
  /\ Cancel
  /\ worker' = [worker EXCEPT ![n] = "report"]
  /\ UNCHANGED <<engine, permits, message, visiting>>

\* ... and then sends true to the walker.
ReportAfterCancel(n) ==
  /\ worker[n] = "report"
  /\ EndWorker(n, "finished", "ok")

Worker(n) ==
  \/ ReportRoot(n)
  \/ AcquirePermit(n)
  \/ SendTask(n)
  \/ SendFails(n)
  \/ ResultOk(n)
  \/ ResultStopsDependents(n)
  \/ ResultStopsAll(n)
  \/ ReportAfterCancel(n)

-----------------------------------------------------------------------------
(* The visitor.                                                            *)

VisitorReceives(n) ==
  /\ visiting
  /\ message[n] = "queued"
  /\ message' = [message EXCEPT ![n] = "held"]
  /\ UNCHANGED <<walkerVars, engine, worker, permits, visiting>>

VisitorAnswers(n, verdict) ==
  /\ message[n] = "held"
  /\ message' = [message EXCEPT ![n] = verdict]
  /\ UNCHANGED <<walkerVars, engine, worker, permits, visiting>>

\* drop(node_stream): the messages still in it lose their callbacks.
VisitorLeaves ==
  /\ visiting
  /\ visiting' = FALSE
  /\ message' = [n \in Node |-> IF message[n] = "queued" THEN "dropped"
                                                         ELSE message[n]]
  /\ UNCHANGED <<walkerVars, engine, worker, permits>>

Visitor ==
  \/ \E n \in Node : VisitorReceives(n)
  \/ \E n \in Node, v \in Verdict : VisitorAnswers(n, v)
  \/ VisitorLeaves

EngineNext ==
  \/ \E n \in Node : WalkerStep(n) \/ SpawnWorker(n) \/ Worker(n)
  \/ WalkFinished
  \/ Drained
  \/ Visitor

EngineSpec == EngineInit /\ [][EngineNext]_allVars

\* tokio polls every task that was woken.  The visitor reads until the end, as
\* execute asks of it (execute.rs:67), or drops its receiver, and answers what
\* it holds.
EngineFairness ==
  /\ \A n \in Node : /\ WF_allVars(WalkerStep(n))
                     /\ WF_allVars(SpawnWorker(n))
                     /\ WF_allVars(Worker(n))
                     /\ WF_allVars(VisitorReceives(n))
                     /\ WF_allVars(\E v \in Verdict : VisitorAnswers(n, v))
  /\ WF_allVars(WalkFinished)
  /\ WF_allVars(Drained)

FairEngineSpec == EngineSpec /\ EngineFairness

-----------------------------------------------------------------------------
(* Properties.                                                             *)

Returned == engine \in {"ok", "err"}

\* Every permit is either available or held by exactly one worker, so at most
\* Concurrency tasks are with the visitor, whatever fails or is cancelled.
PermitsConserved ==
  ~Parallel => permits + Cardinality(Holding) = Concurrency

ConcurrencyRespected ==
  ~Parallel => Cardinality(Running) <= Concurrency

\* Visitor::visit creates the channel with as many slots as there are permits
\* (visitor/mod.rs:698): a worker that holds a permit never waits for room.
SendNeverWaits ==
  ~Parallel /\ Concurrency <= Capacity =>
    \A n \in Node : worker[n] = "send" => Cardinality(Queued) < Capacity

\* A task reaches the visitor only after the visitor is done with all of its
\* dependencies, and none of them stopped its dependents.
SentAfterDependencies ==
  \A n \in Task : message[n] # "none" =>
    \A d \in Deps[n] \ RootNode : message[d] \in {"ok", "dropped", "all"}

\* execute does not return while the visitor still has one of its tasks.
ReturnsAfterAnswers == Returned => Running = {}

\* Without an AllTasks answer and while the visitor listens, a finished execute
\* returned Ok and visited exactly the tasks whose dependencies were all
\* visited without stopping them.
VisitedExactly ==
  Returned /\ visiting /\ (\A n \in Node : message[n] # "all") =>
    /\ engine = "ok"
    /\ \A n \in Task : message[n] # "none" <=>
         \A d \in Deps[n] \ RootNode : message[d] \in {"ok", "dropped"}

\* execute returns Err(Visitor) only if the visitor dropped its receiver, and
\* Ok only if every task it took a permit for was answered.
ErrorMeansVisitorLeft ==
  /\ engine = "err" => ~visiting
  /\ engine = "ok" => \A n \in Task : callback[n] # "none" => message[n] \in Verdict

\* The walker sees a caller that keeps its protocol.
IsWalkerCaller == WalkerSpec

\* The run as the visitor sees it implements TaskSchedule.
StatusOf(m) == CASE m = "none"               -> "waiting"
                 [] m \in {"queued", "held"} -> "running"
                 [] m \in {"ok", "dropped"}  -> "succeeded"
                 [] m = "dependents"         -> "failed"
                 [] m = "all"                -> "halted"

TaskStatus(n) == StatusOf(message[n])

Schedule == INSTANCE TaskSchedule WITH
              TaskDeps <- [n \in Task |-> Deps[n] \ RootNode],
              Limit    <- IF Parallel THEN Cardinality(Node) ELSE Concurrency,
              status   <- [n \in Task |-> TaskStatus(n)],
              over     <- Returned,
              left     <- ~visiting

ImplementsSchedule == Schedule!ScheduleSpec

\* execute returns, cancelled or not, with the visitor there or gone.
ExecuteReturns == <>Returned

\* The doc of execute (execute.rs:63-66): a stop result "will stop any further
\* execution of tasks ... it will stop scheduling new tasks".
NoTaskSentAfterStop ==
  [][\A n \in Node : cancelled => ~(message[n] = "none" /\ message'[n] = "queued")]_allVars

\* execute.rs:256 (execute_skips_dependents_after_all_tasks_stop): a dependent
\* of a task that answered AllTasks is not visited.
NoDependentAfterAllTasks ==
  \A n \in Task : message[n] # "none" =>
    \A d \in Deps[n] : message[d] # "all"
=============================================================================
