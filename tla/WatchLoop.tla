------------------------------ MODULE WatchLoop ------------------------------
(***************************************************************************)
(* `turbo watch`: WatchClient of crates/turborepo-lib/src/run/watch.rs,    *)
(* after its startup, with the task graph operations it uses               *)
(* (crates/turborepo-engine/src/lib.rs).                                   *)
(*                                                                         *)
(* One future merges the events of the package changes watcher into a set  *)
(* of pending changes and notifies the other, which takes them, stops what *)
(* they impact, builds a run and awaits it.  Persistent tasks are detached *)
(* from their run: they live on in its process manager, which a stopper    *)
(* keeps.  A signal, or the end of the events, drops both futures wherever *)
(* they wait, and the client shuts down what it still knows of.            *)
(*                                                                         *)
(* Runs are numbered.  TaskRun models the inside of one: here a task that  *)
(* is not persistent reads its sources and the outputs of its              *)
(* dependencies in one step, and a failing run leaves the rest undone.     *)
(* futureFlags.watchUsingTaskInputs is off, and there is no proxy.         *)
(***************************************************************************)
EXTENDS Naturals, FiniteSets, FiniteSetsExt

CONSTANTS Package, Task, PackageOf, TaskDeps,
          Persistent, Interruptible, Cacheable,  \* of the task definitions
          Rediscover,   \* PackageChangeEvent::Rediscover, ChangedPackages::All
          Optional,     \* the packages that join the workspace and leave it
          MaxChanges    \* bound: changes of the repository

ASSUME WatchAssumption ==
  /\ PackageOf \in [Task -> Package]
  /\ TaskDeps \in [Task -> SUBSET (Task \ Persistent)]
  /\ Interruptible \subseteq Persistent /\ Persistent \subseteq Task
  /\ Cacheable \subseteq Task \ Persistent
  /\ Rediscover \notin Package
  /\ Optional \subseteq Package
  /\ MaxChanges \in Nat

VARIABLES
  changes, relevant, unannounced,   \* the repository
  events, pending, permit,          \* the event future and its Notify
  client, changed, stoppers, awaiting,  \* the run future, the shutdown
  runs, active, todo, work,         \* the runs
  watched, background,              \* watched_packages, background_stoppers
  closed, dev,                      \* the process manager of each run
  lost                              \* the stoppers a dropped drain took along

repoVars  == <<changes, relevant, unannounced>>
eventVars == <<events, pending, permit>>
loopVars  == <<client, changed, stoppers, awaiting>>
runVars   == <<runs, active, todo, work>>
keptVars  == <<watched, background, lost>>
procVars  == <<closed, dev>>
watchVars == <<repoVars, eventVars, loopVars, runVars, keptVars, procVars>>

(***************************************************************************)
(* client: "waiting" for the Notify; "stopping" in stop_impacted_tasks,    *)
(*   "closing" in the drain of background_stoppers; "building" a run;      *)
(*   "running" awaiting it; "shutdown"; "exited".                          *)
(* awaiting: the run whose stopper is being awaited, 0 if none.            *)
(* work: the last thing done about a task: "fresh" it ran after the last   *)
(*   change of its package and after its dependencies did; "failed" its    *)
(*   run failed; "stale" neither.                                          *)
(* dev: the instance of a persistent task: "dispatched" its executor has   *)
(*   not spawned it; "asked" to end by stop_tasks, "closing" by a close;   *)
(*   "stopped" after stop_tasks, "gone" for another reason.                *)
(***************************************************************************)
Runs   == 1 .. MaxChanges + 1
Change == Package \cup {Rediscover}

WatchTypeOK ==
  /\ changes \in 0 .. MaxChanges
  /\ relevant \subseteq Package /\ watched \subseteq Package
  /\ unannounced \subseteq Change /\ events \subseteq Change
  /\ pending \subseteq Package \/ pending = {Rediscover}
  /\ changed \subseteq Package \/ changed = {Rediscover}
  /\ permit \in BOOLEAN
  /\ client \in {"waiting", "stopping", "closing", "building", "running",
                 "shutdown", "exited"}
  /\ background \cup stoppers \cup lost \subseteq Runs
  /\ runs \in 0 .. MaxChanges + 1 /\ active \in {0, runs} /\ awaiting \in 0 .. runs
  /\ todo \subseteq Task
  /\ work \in [Task -> {"stale", "fresh", "failed"}]
  /\ closed \in [Runs -> BOOLEAN]
  /\ dev \in [Runs -> [Persistent -> {"none", "dispatched", "running", "asked",
                                      "closing", "stopped", "gone"}]]

\* After the initial event, which is a Rediscover.
WatchInit ==
  /\ changes = 0 /\ relevant = Package /\ unannounced = {}
  /\ events = {} /\ pending = {Rediscover} /\ permit = TRUE
  /\ client = "waiting" /\ changed = {} /\ stoppers = {} /\ awaiting = 0
  /\ runs = 0 /\ active = 0 /\ todo = {} /\ work = [t \in Task |-> "stale"]
  /\ watched = relevant /\ background = {} /\ lost = {}
  /\ closed = [r \in Runs |-> FALSE]
  /\ dev = [r \in Runs |-> [t \in Persistent |-> "none"]]

Alive(r, t) == dev[r][t] \in {"running", "asked", "closing"}

-----------------------------------------------------------------------------
(* The task graph.                                                         *)

TasksOf(packages) == {t \in Task : PackageOf[t] \in packages}

\* What each task reaches over these dependencies: what is in every set of tasks
\* that contains it and what its members depend on.
ClosureThrough(dependencies) ==
  [t \in Task |-> {s \in Task :
     \A S \in SUBSET Task :
       t \in S /\ (\A u \in S : TaskDeps[u] \cap dependencies \subseteq S) => s \in S}]

DependencyClosure == ClosureThrough(Task)
CacheableClosure  == ClosureThrough(Cacheable)

\* transitive_closure(.., Incoming), and the reverse search of
\* watch_reachable_closure.
Dependents(tasks) == {t \in Task : DependencyClosure[t] \cap tasks # {}}

\* watch_reachable_closure: the dependents, and what they restore.
WatchReachable(tasks) == UNION {CacheableClosure[s] : s \in Dependents(tasks)}

\* Persistent tasks survive changes unless they are interruptible.
Restartable == Interruptible \cup (Task \ Persistent)

\* create_engine_for_subgraph, of the engine of a new run.
WatchScope(packages) ==
  WatchReachable(TasksOf(packages \cap relevant)) \cap TasksOf(relevant) \cap Restartable

\* tasks_impacted_by_packages, of the engine of the last full run.
Impacted(packages) == Dependents(TasksOf(packages \cap watched)) \cap TasksOf(watched)

-----------------------------------------------------------------------------
(* The repository and the watcher of package changes.                      *)

\* A change outdates the tasks of its packages and their dependents, unless they
\* are never restarted.
Outdate(packages, now) ==
  work' = [t \in Task |->
             IF t \in Dependents(TasksOf(packages)) \cap TasksOf(now) \cap Restartable
             THEN "stale" ELSE work[t]]

EditPackage(p) ==
  /\ changes < MaxChanges
  /\ p \in relevant
  /\ changes' = changes + 1
  /\ unannounced' = unannounced \cup {p}
  /\ Outdate({p}, relevant)
  /\ UNCHANGED <<relevant, eventVars, loopVars, runs, active, todo, keptVars, procVars>>

\* A package joins the workspace or leaves it.
EditWorkspace(p) ==
  /\ changes < MaxChanges
  /\ changes' = changes + 1
  /\ relevant' = IF p \in relevant THEN relevant \ {p} ELSE relevant \cup {p}
  /\ unannounced' = unannounced \cup {Rediscover}
  /\ Outdate({p}, relevant')
  /\ UNCHANGED <<eventVars, loopVars, runs, active, todo, keptVars, procVars>>

\* The event is sent on the broadcast channel.
Announce(c) ==
  /\ c \in unannounced
  /\ unannounced' = unannounced \ {c}
  /\ events' = events \cup {c}
  /\ UNCHANGED <<changes, relevant, pending, permit, loopVars, runVars, keptVars, procVars>>

-----------------------------------------------------------------------------
(* The event future.                                                       *)

Looping == client \notin {"shutdown", "exited"}

\* Mutant: a change replaces the pending ones.
HandleLastChange(c) == pending' = {c}

\* handle_change_event: All absorbs the others.
HandleChange(c) ==
  pending' = IF Rediscover \in {c} \cup pending THEN {Rediscover} ELSE pending \cup {c}

\* Mutant: the run future is not notified.
ReceiveSilently(c) ==
  /\ Looping
  /\ c \in events
  /\ events' = events \ {c}
  /\ HandleChange(c)
  /\ UNCHANGED <<permit, repoVars, loopVars, runVars, keptVars, procVars>>

Receive(c) ==
  /\ Looping
  /\ c \in events
  /\ events' = events \ {c}
  /\ HandleChange(c)
  /\ permit' = TRUE
  /\ UNCHANGED <<repoVars, loopVars, runVars, keptVars, procVars>>

\* The receiver lagged: the events that were overwritten count as Rediscover.
ReceiveLagged ==
  /\ Looping
  /\ \E missed \in (SUBSET events) \ {{}} : events' = events \ missed
  /\ HandleChange(Rediscover)
  /\ permit' = TRUE
  /\ UNCHANGED <<repoVars, loopVars, runVars, keptVars, procVars>>

-----------------------------------------------------------------------------
(* The run future.                                                         *)

\* notified().await returns; std::mem::take of what is pending.
TakeChanges ==
  /\ client = "waiting"
  /\ permit
  /\ permit' = FALSE
  /\ IF pending = {}
     THEN UNCHANGED <<pending, loopVars>>
     ELSE /\ changed' = pending
          /\ pending' = {}
          /\ client' = IF pending = {Rediscover} THEN "closing" ELSE "stopping"
          /\ stoppers' = background
          /\ awaiting' = 0
  /\ UNCHANGED <<events, repoVars, runVars, keptVars, procVars>>

Next(S) == CHOOSE r \in S : \A s \in S : r <= s

\* ProcessManager::stop_tasks takes the children out and stops them.
StopTasks(r, tasks) ==
  dev' = [dev EXCEPT ![r] = [t \in Persistent |->
            IF ~closed[r] /\ t \in tasks /\ dev[r][t] = "running" THEN "asked"
                                                                  ELSE dev[r][t]]]

\* ProcessManager::close refuses later spawns and stops all children.
CloseManager(r) ==
  /\ closed' = [closed EXCEPT ![r] = TRUE]
  /\ dev' = [dev EXCEPT ![r] = [t \in Persistent |->
               IF dev[r][t] = "running" THEN "closing" ELSE dev[r][t]]]

AwaitNext ==
  /\ awaiting = 0
  /\ stoppers # {}
  /\ awaiting' = Next(stoppers)
  /\ stoppers' = stoppers \ {Next(stoppers)}

\* stop_impacted_tasks: one stopper after the other; tasks that must not be
\* restarted are left alone.
StopImpacted ==
  /\ client = "stopping"
  /\ AwaitNext
  /\ StopTasks(awaiting', Impacted(changed) \cap Restartable)
  /\ UNCHANGED <<repoVars, eventVars, client, changed, runVars, keptVars, closed>>

\* Mutant: the background runs are told to stop, without waiting.
DrainUnawaited ==
  /\ client = "closing"
  /\ awaiting = 0
  /\ stoppers # {}
  /\ stoppers' = stoppers \ {Next(stoppers)}
  /\ CloseManager(Next(stoppers))
  /\ UNCHANGED <<repoVars, eventVars, client, changed, awaiting, runVars, keptVars>>

\* A rebuild of everything: stop() of every stopper that is drained.
Drain ==
  /\ client = "closing"
  /\ AwaitNext
  /\ CloseManager(awaiting')
  /\ UNCHANGED <<repoVars, eventVars, client, changed, runVars, keptVars>>

\* The stopper returns when the children it took, or found, have ended; the
\* shutdown joins the run as well.
StopReturns ==
  /\ awaiting # 0
  /\ \A t \in Persistent :
       dev[awaiting][t] # (IF client = "stopping" THEN "asked" ELSE "closing")
  /\ awaiting = active => todo = {}
  /\ awaiting' = 0
  /\ UNCHANGED <<repoVars, eventVars, client, changed, stoppers, runVars, keptVars, procVars>>

StoppersDone == stoppers = {} /\ awaiting = 0

\* The impacted packages that are watched are to be run.
ImpactedStopped ==
  /\ client = "stopping"
  /\ StoppersDone
  /\ changed' = {PackageOf[t] : t \in Impacted(changed)} \cap watched
  /\ client' = "building"
  /\ UNCHANGED <<repoVars, eventVars, stoppers, awaiting, runVars, keptVars, procVars>>

AllStopped ==
  /\ client = "closing"
  /\ StoppersDone
  /\ background' = {}
  /\ client' = "building"
  /\ UNCHANGED <<repoVars, eventVars, changed, stoppers, awaiting, runVars,
                 watched, lost, procVars>>

\* execute_run builds a run of the repository as it is now and spawns it.
BuildRun ==
  /\ client = "building"
  /\ client' = "running"
  /\ runs' = runs + 1
  /\ active' = runs'
  /\ IF changed = {Rediscover}
     THEN watched' = relevant /\ todo' = TasksOf(relevant)
     ELSE UNCHANGED watched /\ todo' = WatchScope(changed)
  /\ UNCHANGED <<repoVars, eventVars, changed, stoppers, awaiting, work,
                 background, lost, procVars>>

\* The run task has ended; its stopper is kept.
RunJoined ==
  /\ client = "running"
  /\ todo = {}
  /\ background' = background \cup {active}
  /\ active' = 0
  /\ client' = "waiting"
  /\ UNCHANGED <<repoVars, eventVars, changed, stoppers, awaiting, runs, todo, work,
                 watched, lost, procVars>>

RunFuture ==
  \/ TakeChanges
  \/ StopImpacted \/ ImpactedStopped
  \/ Drain \/ AllStopped
  \/ StopReturns
  \/ BuildRun
  \/ RunJoined

-----------------------------------------------------------------------------
(* The runs.                                                               *)

\* What t is after a run, given the outputs of its dependencies.
Done(t) ==
  LET inputs == {work[d] : d \in TaskDeps[t] \cap TasksOf(relevant)}
  IN  IF "stale" \in inputs THEN "stale" ELSE IF "failed" \in inputs THEN "failed" ELSE "fresh"

\* Mutant: a persistent task that has run before is taken to be running.
RunTaskOnce(t) ==
  /\ active # 0
  /\ ~closed[active]
  /\ t \in todo
  /\ TaskDeps[t] \cap todo = {}
  /\ todo' = todo \ {t}
  /\ work' = [work EXCEPT ![t] = Done(t)]
  /\ dev' = IF t \in Persistent /\ \A r \in Runs : dev[r][t] = "none"
            THEN [dev EXCEPT ![active][t] = "dispatched"] ELSE dev
  /\ UNCHANGED <<repoVars, eventVars, loopVars, runs, active, keptVars, closed>>

\* A task whose dependencies in the run are done; a persistent one is detached.
RunTask(t) ==
  /\ active # 0
  /\ ~closed[active]
  /\ t \in todo
  /\ TaskDeps[t] \cap todo = {}
  /\ todo' = todo \ {t}
  /\ work' = [work EXCEPT ![t] = Done(t)]
  /\ dev' = IF t \in Persistent THEN [dev EXCEPT ![active][t] = "dispatched"] ELSE dev
  /\ UNCHANGED <<repoVars, eventVars, loopVars, runs, active, keptVars, closed>>

\* A task fails, or the process manager was closed: the run ends, and with
\* --continue=never closes its process manager.
RunFails ==
  /\ active # 0
  /\ todo # {}
  /\ todo' = {}
  /\ work' = [t \in Task |-> IF t \in todo THEN "failed" ELSE work[t]]
  /\ CloseManager(active) \/ UNCHANGED procVars
  /\ UNCHANGED <<repoVars, eventVars, loopVars, runs, active, keptVars>>

Becomes(r, t, state) ==
  /\ dev' = [dev EXCEPT ![r][t] = state]
  /\ UNCHANGED <<repoVars, eventVars, loopVars, runVars, keptVars, closed>>

\* The detached executor of a persistent task gets to its spawn.
Spawn(r, t) ==
  /\ client # "exited"
  /\ dev[r][t] = "dispatched"
  /\ \/ Becomes(r, t, "gone")
     \/ ~closed[r] /\ Becomes(r, t, "running")

ProcessExits(r, t) == dev[r][t] = "running" /\ Becomes(r, t, "gone")

\* It ends because it was interrupted or killed.
ProcessStopped(r, t) ==
  \/ dev[r][t] = "asked" /\ Becomes(r, t, "stopped")
  \/ dev[r][t] = "closing" /\ Becomes(r, t, "gone")

-----------------------------------------------------------------------------
(* The end.                                                                *)

ActiveRun == IF active = 0 THEN {} ELSE {active}

ShutDown ==
  /\ client' = "shutdown"
  /\ awaiting' = 0
  /\ UNCHANGED <<repoVars, eventVars, changed, runVars, watched, procVars>>

\* Mutant: the shutdown forgets the active run.
InterruptedIdle ==
  /\ Looping
  /\ client \in {"stopping", "closing"} => awaiting # 0
  /\ ShutDown
  /\ stoppers' = IF client = "closing" THEN {} ELSE background
  /\ lost' = IF client = "closing" THEN background ELSE {}
  /\ background' = {}

\* A signal, or the end of the events: select! drops the futures where they
\* wait.  A drain that is dropped drops the stoppers it has not reached.
Interrupted ==
  /\ Looping
  /\ client \in {"stopping", "closing"} => awaiting # 0
  /\ ShutDown
  /\ stoppers' = IF client = "closing" THEN {} ELSE background \cup ActiveRun
  /\ lost' = IF client = "closing" THEN background ELSE {}
  /\ background' = {}

\* The build of a run fails: start returns the error.
BuildFails ==
  /\ client = "building"
  /\ ShutDown
  /\ stoppers' = background
  /\ background' = {}
  /\ UNCHANGED lost

\* shutdown: stop, or a graceful shutdown that can be forced, of each stopper.
ShutDownRun ==
  /\ client = "shutdown"
  /\ AwaitNext
  /\ CloseManager(awaiting')
  /\ UNCHANGED <<repoVars, eventVars, client, changed, runVars, keptVars>>

Exit ==
  /\ client = "shutdown"
  /\ StoppersDone
  /\ client' = "exited"
  /\ UNCHANGED <<repoVars, eventVars, changed, stoppers, awaiting, runVars, keptVars, procVars>>

WatchNext ==
  \/ \E p \in Package : EditPackage(p)
  \/ \E p \in Optional : EditWorkspace(p)
  \/ \E c \in Change : Announce(c) \/ Receive(c)
  \/ ReceiveLagged
  \/ RunFuture
  \/ \E t \in Task : RunTask(t)
  \/ RunFails
  \/ \E r \in Runs, t \in Persistent :
       Spawn(r, t) \/ ProcessExits(r, t) \/ ProcessStopped(r, t)
  \/ Interrupted \/ BuildFails \/ ShutDownRun \/ Exit

WatchSpec == WatchInit /\ [][WatchNext]_watchVars

\* tokio polls what was woken, the watcher announces a change, a run that is
\* given its turn ends, and so does a process that is stopped, at the latest
\* killed after its timeout.  Nobody has to edit, interrupt or fail.
WatchFairness ==
  /\ \A c \in Change : WF_watchVars(Announce(c)) /\ WF_watchVars(Receive(c))
  /\ WF_watchVars(RunFuture)
  /\ \A t \in Task : WF_watchVars(RunTask(t))
  /\ WF_watchVars(active # 0 /\ closed[active] /\ RunFails)
  /\ \A r \in Runs, t \in Persistent : WF_watchVars(ProcessStopped(r, t))

FairWatchSpec == WatchSpec /\ WatchFairness

-----------------------------------------------------------------------------
(* Properties.                                                             *)

Idle == client = "waiting" /\ ~permit /\ events = {} /\ unannounced = {}

\* When the loop waits and no event is on its way, no task of the repository is
\* stale: each was run, or failed, after the last change that concerns it,
\* however changes, lags and runs were interleaved.
IdleIsFresh ==
  Idle => \A t \in TasksOf(relevant) \cap Restartable : work[t] # "stale"

Instances(t) == {r \in Runs : dev[r][t] # "none"}

\* A persistent task that was stopped for a change has been started again by the
\* time the loop is idle, unless the run that was to do so failed.
StoppedIsRestarted ==
  Idle => \A t \in Interruptible \cap TasksOf(relevant) : work[t] = "fresh" =>
    /\ Instances(t) # {}
    /\ dev[Max(Instances(t))][t] \notin {"asked", "stopped"}

\* A persistent task that is not interruptible never runs twice at a time.
PersistentRunsOnce ==
  \A t \in Persistent \ Interruptible :
    Cardinality({r \in Runs : Alive(r, t)}) <= 1

\* When the client has exited no persistent task runs, but for those whose
\* stoppers a dropped drain lost, and those stop_tasks was still awaiting.
ExitLeavesNothing ==
  client = "exited" =>
    \A r \in Runs \ lost, t \in Persistent : dev[r][t] \notin {"running", "closing"}

\* Once the repository is left alone every task that a change concerns is run
\* (or fails), unless the client shuts down.
StaleIsRedone ==
  <>[](~Looping \/ \A t \in TasksOf(relevant) \cap Restartable : work[t] # "stale")

\* The loop stops impacted tasks first: "This prevents concurrent builds of the
\* same package" (watch.rs:539), and an interruptible task is restarted
\* (configuration.mdx:1113), so that none runs twice at a time.
InterruptibleRunsOnce ==
  \A t \in Interruptible : Cardinality({r \in Runs : Alive(r, t)}) <= 1
=============================================================================
