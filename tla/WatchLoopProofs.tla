--------------------------- MODULE WatchLoopProofs ---------------------------
(***************************************************************************)
(* Theorems about watch mode for any packages, tasks, dependencies and     *)
(* number of changes.                                                      *)
(*                                                                         *)
(* The loop is right because three things agree: a task that is out of     *)
(* date has its change on the way to a run, whose scope it is then in; a   *)
(* task that was stopped for a change is in that same scope; and a run is  *)
(* in the hands of the client until its manager was closed and awaited.    *)
(***************************************************************************)
EXTENDS WatchLoop, FiniteSetTheorems, WellFoundedInduction, TLAPS

-----------------------------------------------------------------------------
(* The inductive invariant.                                                *)

\* A whole rebuild is to come.
RediscoverComing ==
  \/ Rediscover \in unannounced \cup events \cup pending
  \/ client \in {"closing", "building"} /\ Rediscover \in changed

\* The change of a package is on its way, and t is concerned.
Heralded(t) ==
  \E p \in relevant \cap (unannounced \cup events \cup pending) : t \in Dependents(TasksOf({p}))

\* The run that is to be built, or that goes on, includes t.
Restarting(t) ==
  \/ client = "stopping" /\ t \in Impacted(changed)
  \/ client = "building" /\ t \in WatchScope(changed)
  \/ client = "running" /\ t \in todo

\* No run of r lives, nor will one.
Clean(r) == closed[r] /\ \A t \in Persistent : dev[r][t] \notin {"running", "closing"}

\* The latest instance of t is that of run r.
Latest(r, t) == dev[r][t] # "none" /\ \A s \in Runs : s > r => dev[s][t] = "none"

\* The instance of t in r runs, or may yet be started.
MayLive(r, t) ==
  \/ dev[r][t] \in {"running", "closing"}
  \/ dev[r][t] = "dispatched" /\ ~closed[r]

\* What the repository, the events and the loop are.
LoopType ==
  /\ changes \in 0 .. MaxChanges
  /\ relevant \subseteq Package /\ watched \subseteq Package
  /\ unannounced \subseteq Change /\ IsFiniteSet(unannounced)
  /\ events \subseteq Change /\ IsFiniteSet(events)
  /\ pending \subseteq Package \/ pending = {Rediscover}
  /\ changed \subseteq Package \/ changed = {Rediscover}
  /\ permit \in BOOLEAN
  /\ client \in {"waiting", "stopping", "closing", "building", "running",
                 "shutdown", "exited"}

\* What the runs are.
RunsType ==
  /\ runs \in Nat /\ active \in {0, runs} /\ awaiting \in 0 .. runs
  /\ background \cup stoppers \cup lost \subseteq 1 .. runs
  /\ todo \subseteq Task
  /\ work \in [Task -> {"stale", "fresh", "failed"}]
  /\ closed \in [Runs -> BOOLEAN]
  /\ dev \in [Runs -> [Persistent -> {"none", "dispatched", "running", "asked",
                                      "closing", "stopped", "gone"}]]

\* The changes that the loop holds together count as one, and so do those it took.
Held  == IF pending = {} THEN 0 ELSE 1
Taken == IF client \in {"stopping", "closing", "building"} THEN 1 ELSE 0

\* Every run but the first has a change of its own: there are runs enough.
CountInv ==
  runs + Cardinality(unannounced) + Cardinality(events) + Held + Taken <= changes + 1

\* What is pending will be taken, and the packages that are watched are those of
\* the workspace unless all is to be rebuilt.
EventInv ==
  /\ pending # {} => permit
  /\ Looping /\ ~RediscoverComing => watched = relevant
  /\ client = "closing" => changed = {Rediscover}
  /\ client = "stopping" => changed \subseteq Package

\* A task is stale only if a change that concerns it is on its way, or a run is
\* about to run it.
StaleInv ==
  Looping /\ ~RediscoverComing =>
    \A t \in TasksOf(relevant) \cap Restartable :
      work[t] = "stale" => Heralded(t) \/ Restarting(t)

\* A task that is fresh was started, and if it was stopped again then because it
\* will be restarted.
RestartInv ==
  \A t \in Interruptible : work[t] = "fresh" =>
    \E r \in Runs :
      /\ Latest(r, t)
      /\ Looping /\ ~RediscoverComing /\ t \in TasksOf(relevant) =>
           dev[r][t] \notin {"asked", "stopped"} \/ Restarting(t)

\* How the run in the hands of the client, the managers and the instances are tied.
PlaceInv ==
  /\ client = "running" => active # 0
  /\ active # 0 => client \in {"running", "shutdown", "exited"}
  /\ active = 0 => todo = {}
  /\ awaiting # 0 => client \in {"stopping", "closing", "shutdown"}
  /\ awaiting # 0 /\ client \in {"closing", "shutdown"} => closed[awaiting]
  /\ client = "exited" => stoppers = {} /\ awaiting = 0

\* Runs to come have no instances, and a closed manager has none that is not told to
\* stop.
InstanceInv ==
  \A r \in Runs : \A t \in Persistent :
    /\ r > runs => dev[r][t] = "none"
    /\ closed[r] => dev[r][t] # "running"
    /\ t \notin Interruptible => dev[r][t] \notin {"asked", "stopped"}

\* A run the client does not hold is clean, and so is one whose stop it awaited.
EndInv ==
  /\ Looping => \A r \in 1 .. runs : r \in background \cup {active} \/ Clean(r)
  /\ client = "closing" =>
       \A r \in background : r \in stoppers \cup {awaiting} \/ Clean(r)
  /\ client = "building" /\ Rediscover \in changed => \A r \in 1 .. runs : Clean(r)
  /\ ~Looping => \A r \in (1 .. runs) \ lost : r \in stoppers \cup {awaiting} \/ Clean(r)

\* One that must not be restarted is not there when it is to be started.
OnceInv ==
  \A t \in Persistent \ Interruptible :
    /\ \A r, s \in Runs : MayLive(r, t) /\ MayLive(s, t) => r = s
    /\ t \in todo => \A r \in Runs : ~MayLive(r, t)

\* The inductive invariant.
TypeInv  == LoopType /\ RunsType /\ CountInv
WatchInv == TypeInv /\ EventInv /\ StaleInv /\ RestartInv /\ PlaceInv /\ InstanceInv
              /\ EndInv /\ OnceInv

-----------------------------------------------------------------------------
(* Facts about the operators.                                              *)

\* The least member of a set of numbers is one of them.
LEMMA LeastIsMember ==
  ASSUME NEW S, S \subseteq Nat, S # {}
  PROVE  Next(S) \in S
<1> DEFINE T == {0 .. x : x \in S}
<1>1. T \subseteq FiniteSubsetsOf(Nat) /\ T # {}
  <2>1. \A x \in S : 0 .. x \subseteq Nat /\ IsFiniteSet(0 .. x)
    BY FS_Interval
  <2> QED
    BY <2>1 DEF FiniteSubsetsOf
<1>2. \E x \in T : \A y \in T : <<y, x>> \notin StrictSubsetOrdering(Nat)
  BY <1>1, FS_StrictSubsetOrderingWellFounded, WFMin
<1>3. PICK x \in S : \A y \in S : <<0 .. y, 0 .. x>> \notin StrictSubsetOrdering(Nat)
  BY <1>2
<1>4. ASSUME NEW y \in S PROVE x <= y
  <2>1. SUFFICES ASSUME y < x PROVE FALSE
    OBVIOUS
  <2>2. 0 .. y \subseteq 0 .. x /\ x \in 0 .. x /\ x \notin 0 .. y /\ 0 .. x \subseteq Nat
    BY <2>1
  <2> QED
    BY <1>3, <2>2 DEF StrictSubsetOrdering
<1> QED
  BY <1>4 DEF Next

\* A task reaches itself and whatever a task it depends on reaches.
LEMMA ClosureFacts ==
  /\ \A t \in Task : t \in DependencyClosure[t] /\ t \in CacheableClosure[t]
  /\ \A t \in Task : \A d \in TaskDeps[t] :
       d \in Task /\ DependencyClosure[d] \subseteq DependencyClosure[t]
<1>1. \A t \in Task : t \in DependencyClosure[t] /\ t \in CacheableClosure[t]
  BY DEF DependencyClosure, CacheableClosure, ClosureThrough
<1>2. ASSUME NEW t \in Task, NEW d \in TaskDeps[t]
      PROVE  d \in Task /\ DependencyClosure[d] \subseteq DependencyClosure[t]
  <2>1. d \in Task
    BY WatchAssumption DEF WatchAssumption
  <2>2. \A S \in SUBSET Task :
          t \in S /\ (\A u \in S : TaskDeps[u] \cap Task \subseteq S) => d \in S
    BY <2>1
  <2> QED
    BY <2>1, <2>2 DEF DependencyClosure, ClosureThrough
<1> QED
  BY <1>1, <1>2

\* Dependents grow with what they depend on, and contain it.
LEMMA DependentsFacts ==
  /\ \A X : \A t \in Task : \A d \in TaskDeps[t] : d \in Dependents(X) => t \in Dependents(X)
  /\ \A X, Y : X \subseteq Y => Dependents(X) \subseteq Dependents(Y)
  /\ \A X \in SUBSET Task : X \subseteq WatchReachable(X)
<1>1. \A X : \A t \in Task : \A d \in TaskDeps[t] : d \in Dependents(X) => t \in Dependents(X)
  BY ClosureFacts DEF Dependents
<1>2. \A X, Y : X \subseteq Y => Dependents(X) \subseteq Dependents(Y)
  BY DEF Dependents
<1>3. \A X \in SUBSET Task : X \subseteq WatchReachable(X)
  BY ClosureFacts DEF Dependents, WatchReachable
<1> QED
  BY <1>1, <1>2, <1>3

-----------------------------------------------------------------------------
(* Types, and the number of runs.                                          *)

\* The packages and what is announced.
LEMMA ChangeTypes ==
  /\ Package \subseteq Change /\ Rediscover \in Change /\ Rediscover \notin Package
  /\ Optional \subseteq Package /\ MaxChanges \in Nat
  /\ Interruptible \subseteq Persistent /\ Persistent \subseteq Task
  BY WatchAssumption DEF WatchAssumption, Change

\* What a close, a stop and the end of a process do to the instances.
LEMMA InstanceTypes ==
  ASSUME RunsType, NEW r \in Runs
  PROVE  /\ CloseManager(r) => closed' \in [Runs -> BOOLEAN]
         /\ \A X : StopTasks(r, X) \/ CloseManager(r) =>
              dev' \in [Runs -> [Persistent -> {"none", "dispatched", "running", "asked",
                                                "closing", "stopped", "gone"}]]
         /\ \A t \in Persistent : \A state \in {"dispatched", "running", "stopped", "gone"} :
              dev' = [dev EXCEPT ![r][t] = state] =>
                dev' \in [Runs -> [Persistent -> {"none", "dispatched", "running", "asked",
                                                  "closing", "stopped", "gone"}]]
<1>1. CloseManager(r) => closed' \in [Runs -> BOOLEAN]
  BY DEF RunsType, CloseManager
<1>2. ASSUME NEW X, StopTasks(r, X)
      PROVE  dev' \in [Runs -> [Persistent -> {"none", "dispatched", "running", "asked",
                                               "closing", "stopped", "gone"}]]
  BY <1>2 DEF RunsType, StopTasks
<1>3. ASSUME CloseManager(r)
      PROVE  dev' \in [Runs -> [Persistent -> {"none", "dispatched", "running", "asked",
                                               "closing", "stopped", "gone"}]]
  BY <1>3 DEF RunsType, CloseManager
<1>4. ASSUME NEW t \in Persistent, NEW state \in {"dispatched", "running", "stopped", "gone"},
             dev' = [dev EXCEPT ![r][t] = state]
      PROVE  dev' \in [Runs -> [Persistent -> {"none", "dispatched", "running", "asked",
                                               "closing", "stopped", "gone"}]]
  BY <1>4 DEF RunsType
<1> QED
  BY <1>1, <1>2, <1>3, <1>4

\* What awaits a stopper awaits one of those that are left.
LEMMA AwaitedIsKept ==
  ASSUME RunsType, AwaitNext
  PROVE  /\ awaiting' \in stoppers /\ awaiting' \in 1 .. runs
         /\ stoppers' = stoppers \ {awaiting'} /\ awaiting = 0
<1>1. stoppers \subseteq Nat /\ stoppers # {}
  BY DEF RunsType, AwaitNext
<1>2. Next(stoppers) \in stoppers
  BY <1>1, LeastIsMember
<1> QED
  BY <1>2 DEF RunsType, AwaitNext

\* Runs are numbers that fit.
LEMMA RunsFit ==
  ASSUME LoopType, RunsType, CountInv
  PROVE  /\ Cardinality(unannounced) \in Nat /\ Cardinality(events) \in Nat
         /\ runs + Taken <= MaxChanges + 1
         /\ 1 .. runs \subseteq Runs /\ Runs \subseteq Nat \ {0}
<1>1. Cardinality(unannounced) \in Nat /\ Cardinality(events) \in Nat
  BY FS_CardinalityType DEF LoopType
<1>2. runs + Taken <= MaxChanges + 1
  BY <1>1, ChangeTypes DEF LoopType, RunsType, CountInv, Held, Taken
<1>3. 1 .. runs \subseteq Runs /\ Runs \subseteq Nat \ {0}
  BY <1>2, ChangeTypes DEF RunsType, Runs, Taken
<1> QED
  BY <1>1, <1>2, <1>3

\* The repository and the event future.
LEMMA EventsKeepTypes ==
  ASSUME TypeInv,
         \/ \E p \in Package : EditPackage(p)
         \/ \E p \in Optional : EditWorkspace(p)
         \/ \E c \in Change : Announce(c) \/ Receive(c)
         \/ ReceiveLagged
  PROVE  TypeInv'
<1> USE DEF TypeInv
<1>1. /\ UNCHANGED <<loopVars, runs, active, todo, keptVars, procVars>>
      /\ Taken' = Taken /\ Taken \in {0, 1} /\ Held' \in {0, 1} /\ Held \in {0, 1}
  BY DEF EditPackage, EditWorkspace, Announce, Receive, ReceiveLagged, loopVars, runVars,
         Taken, Held
<1>2. /\ Cardinality(unannounced) \in Nat /\ Cardinality(events) \in Nat /\ runs \in Nat
      /\ IsFiniteSet(unannounced) /\ IsFiniteSet(events)
  BY RunsFit DEF LoopType, RunsType
<1>3. ASSUME NEW c \in Change, unannounced' = unannounced \cup {c}, changes' = changes + 1,
             changes < MaxChanges, UNCHANGED eventVars,
             relevant' \subseteq Package
      PROVE  LoopType' /\ CountInv'
  <2>1. /\ IsFiniteSet(unannounced') /\ Cardinality(unannounced') \in Nat
        /\ Cardinality(unannounced') <= Cardinality(unannounced) + 1
    <3>1. /\ IsFiniteSet(unannounced \cup {c})
          /\ Cardinality(unannounced \cup {c}) =
               IF c \in unannounced THEN Cardinality(unannounced) ELSE Cardinality(unannounced) + 1
      BY <1>2, FS_AddElement
    <3> QED
      BY <1>2, <1>3, <3>1
  <2>2. LoopType'
    BY <1>1, <1>3, <2>1, ChangeTypes DEF LoopType, loopVars, eventVars, keptVars
  <2>3. changes \in Nat /\ UNCHANGED <<events, runs>> /\ Held' = Held
    BY <1>1, <1>3, ChangeTypes DEF LoopType, Held, eventVars
  <2>4. CountInv'
    BY <1>1, <1>2, <1>3, <2>1, <2>3 DEF CountInv
  <2> QED
    BY <2>2, <2>4
<1>4. ASSUME NEW missed \in SUBSET events, missed # {}, events' = events \ missed,
             NEW c \in Change, HandleChange(c), permit' = TRUE, UNCHANGED repoVars
      PROVE  LoopType' /\ CountInv'
  <2>1. PICK m \in missed : TRUE
    BY <1>4
  <2>2. /\ IsFiniteSet(events \ {m}) /\ Cardinality(events \ {m}) = Cardinality(events) - 1
        /\ events' \subseteq events \ {m}
    BY <1>2, <1>4, <2>1, FS_RemoveElement
  <2>3. /\ IsFiniteSet(events') /\ Cardinality(events') \in Nat
        /\ Cardinality(events') <= Cardinality(events) - 1
    BY <2>2, FS_Subset, FS_CardinalityType
  <2>4. pending' \subseteq Package \/ pending' = {Rediscover}
    BY <1>4, ChangeTypes DEF LoopType, HandleChange, Change
  <2>5. LoopType'
    BY <1>1, <1>4, <2>3, <2>4 DEF LoopType, loopVars, repoVars, keptVars
  <2>6. changes \in Nat /\ UNCHANGED <<changes, unannounced, runs>>
    BY <1>1, <1>4, ChangeTypes DEF LoopType, repoVars
  <2>7. CountInv'
    BY <1>1, <1>2, <2>3, <2>6 DEF CountInv
  <2> QED
    BY <2>5, <2>7
<1>5. LoopType' /\ CountInv'
  <2>1. CASE \E p \in Package : EditPackage(p)
    BY <1>3, <2>1, ChangeTypes DEF EditPackage, LoopType
  <2>2. CASE \E p \in Optional : EditWorkspace(p)
    <3>1. PICK p \in Optional : EditWorkspace(p)
      BY <2>2
    <3>2. relevant' \subseteq Package
      BY <3>1, ChangeTypes DEF EditWorkspace, LoopType
    <3> QED
      BY <1>3, <3>1, <3>2, ChangeTypes DEF EditWorkspace
  <2>3. ASSUME NEW c \in Change, Announce(c) PROVE LoopType' /\ CountInv'
    <3>1. /\ IsFiniteSet(unannounced') /\ Cardinality(unannounced') = Cardinality(unannounced) - 1
          /\ IsFiniteSet(events') /\ Cardinality(events') \in Nat
          /\ Cardinality(events') <= Cardinality(events) + 1
      <4>1. c \in unannounced /\ unannounced' = unannounced \ {c} /\ events' = events \cup {c}
        BY <2>3 DEF Announce
      <4>2. IsFiniteSet(unannounced') /\ Cardinality(unannounced') = Cardinality(unannounced) - 1
        BY <1>2, <4>1, FS_RemoveElement
      <4>3. /\ IsFiniteSet(events')
            /\ Cardinality(events') = IF c \in events THEN Cardinality(events)
                                       ELSE Cardinality(events) + 1
        BY <1>2, <4>1, FS_AddElement
      <4>4. Cardinality(events') \in Nat /\ Cardinality(events') <= Cardinality(events) + 1
        BY <1>2, <4>3
      <4> QED
        BY <4>2, <4>3, <4>4
    <3>2. LoopType'
      BY <1>1, <2>3, <3>1 DEF Announce, LoopType, loopVars, keptVars
    <3>3. changes \in Nat /\ UNCHANGED <<changes, runs>> /\ Held' = Held
      BY <1>1, <2>3, ChangeTypes DEF Announce, LoopType, Held
    <3> QED
      BY <1>1, <1>2, <3>1, <3>2, <3>3 DEF CountInv
  <2>4. ASSUME NEW c \in Change, Receive(c) PROVE LoopType' /\ CountInv'
    BY <1>4, <2>4 DEF Receive
  <2>5. CASE ReceiveLagged
    <3>1. PICK missed \in (SUBSET events) \ {{}} : events' = events \ missed
      BY <2>5 DEF ReceiveLagged
    <3>2. HandleChange(Rediscover) /\ permit' = TRUE /\ UNCHANGED repoVars
      BY <2>5 DEF ReceiveLagged
    <3>3. missed \in SUBSET events /\ missed # {} /\ Rediscover \in Change
      BY ChangeTypes
    <3> QED
      BY <1>4, <3>1, <3>2, <3>3
  <2> QED
    BY <2>1, <2>2, <2>3, <2>4, <2>5
<1>6. work' \in [Task -> {"stale", "fresh", "failed"}]
  BY DEF EditPackage, EditWorkspace, Announce, Receive, ReceiveLagged, Outdate, runVars, RunsType
<1>7. RunsType'
  BY <1>1, <1>6 DEF RunsType, loopVars, keptVars, procVars
<1> QED
  BY <1>5, <1>7

\* The changes are taken, and a run is built for them.
LEMMA TurnsKeepTypes ==
  ASSUME TypeInv, PlaceInv, TakeChanges \/ ImpactedStopped \/ AllStopped \/ BuildRun \/ RunJoined
  PROVE  TypeInv'
<1> USE DEF TypeInv
<1>1. /\ UNCHANGED <<repoVars, events>> /\ Held \in {0, 1} /\ runs \in Nat /\ changes \in Nat
      /\ Cardinality(unannounced) \in Nat /\ Cardinality(events) \in Nat
      /\ runs + Taken <= MaxChanges + 1 /\ 1 .. runs \subseteq Runs /\ MaxChanges \in Nat
  BY RunsFit, ChangeTypes DEF TakeChanges, ImpactedStopped, AllStopped, BuildRun, RunJoined,
     eventVars, Held, RunsType, LoopType
<1>2. CASE TakeChanges
  <2>1. CASE pending = {}
    <3>1. LoopType'
      BY <1>2, <2>1 DEF TakeChanges, LoopType, loopVars, keptVars, repoVars
    <3>2. RunsType' /\ CountInv'
      BY <1>2, <2>1 DEF TakeChanges, RunsType, CountInv, Held, Taken, loopVars, keptVars,
         repoVars, procVars, runVars
    <3> QED
      BY <3>1, <3>2
  <2>2. CASE pending # {}
    <3>1. LoopType'
      BY <1>2, <2>2 DEF TakeChanges, LoopType, loopVars, keptVars, repoVars
    <3>2. RunsType'
      BY <1>2, <2>2 DEF TakeChanges, RunsType, keptVars, procVars, runVars
    <3>3. Held = 1 /\ Held' = 0 /\ Taken = 0 /\ Taken' = 1
          /\ UNCHANGED <<runs, unannounced, events, changes>>
      BY <1>2, <2>2 DEF TakeChanges, Held, Taken, repoVars, runVars
    <3> QED
      BY <1>1, <3>1, <3>2, <3>3 DEF CountInv
  <2> QED
    BY <2>1, <2>2
<1>3. CASE ImpactedStopped
  <2>1. LoopType'
    BY <1>3 DEF ImpactedStopped, LoopType, keptVars, repoVars, eventVars
  <2>2. RunsType' /\ CountInv'
    BY <1>3 DEF ImpactedStopped, RunsType, CountInv, Held, Taken, repoVars, eventVars,
       runVars, keptVars, procVars
  <2> QED
    BY <2>1, <2>2
<1>4. CASE AllStopped
  <2>1. LoopType'
    BY <1>4 DEF AllStopped, LoopType, repoVars, eventVars
  <2>2. RunsType' /\ CountInv'
    BY <1>4 DEF AllStopped, RunsType, CountInv, Held, Taken, repoVars, eventVars,
       runVars, procVars
  <2> QED
    BY <2>1, <2>2
<1>5. CASE BuildRun
  <2>1. LoopType'
    BY <1>5 DEF BuildRun, LoopType, repoVars, eventVars
  <2>2. todo' \subseteq Task
    BY <1>5 DEF BuildRun, TasksOf, WatchScope
  <2>3. /\ runs' = runs + 1 /\ Taken = 1 /\ Taken' = 0 /\ Held' = Held
        /\ UNCHANGED <<unannounced, events, changes, background, stoppers, lost, awaiting>>
        /\ active' = runs' /\ UNCHANGED <<work, closed, dev>>
    BY <1>5 DEF BuildRun, Taken, Held, repoVars, eventVars, procVars
  <2>4. RunsType'
    BY <1>1, <2>2, <2>3 DEF RunsType
  <2>5. CountInv'
    BY <1>1, <2>3 DEF CountInv
  <2> QED
    BY <2>1, <2>4, <2>5
<1>6. CASE RunJoined
  <2>1. LoopType'
    BY <1>6 DEF RunJoined, LoopType, repoVars, eventVars
  <2>2. CountInv'
    BY <1>6 DEF RunJoined, CountInv, Held, Taken, repoVars, eventVars
  <2> QED
    BY <1>6, <2>1, <2>2 DEF RunJoined, RunsType, procVars, PlaceInv
<1> QED
  BY <1>2, <1>3, <1>4, <1>5, <1>6

\* Stoppers are awaited.
LEMMA StoppersKeepTypes ==
  ASSUME TypeInv, StopImpacted \/ Drain \/ ShutDownRun \/ StopReturns
  PROVE  TypeInv'
<1> USE DEF TypeInv
<1>1. UNCHANGED <<repoVars, eventVars, client, changed, runVars, keptVars>>
  BY DEF StopImpacted, Drain, ShutDownRun, StopReturns
<1>2. LoopType' /\ CountInv'
  BY <1>1 DEF LoopType, CountInv, Held, Taken, repoVars, eventVars, runVars, keptVars
<1>3. 1 .. runs \subseteq Runs
  BY RunsFit
<1>4. CASE StopReturns
  <2>1. awaiting' = 0 /\ UNCHANGED <<stoppers, closed, dev>>
    BY <1>4 DEF StopReturns, procVars
  <2> QED
    BY <1>1, <1>2, <2>1 DEF RunsType, runVars, keptVars
<1>5. ASSUME AwaitNext,
             \/ StopTasks(awaiting', Impacted(changed) \cap Restartable) /\ UNCHANGED closed
             \/ CloseManager(awaiting')
      PROVE  RunsType'
  <2>1. awaiting' \in Runs /\ awaiting' \in 1 .. runs /\ stoppers' \subseteq stoppers
    BY <1>3, <1>5, AwaitedIsKept
  <2>2. /\ closed' \in [Runs -> BOOLEAN]
        /\ dev' \in [Runs -> [Persistent -> {"none", "dispatched", "running", "asked",
                                             "closing", "stopped", "gone"}]]
    <3> DEFINE r == awaiting'
               X == Impacted(changed) \cap Restartable
    <3>1. r \in Runs /\ ((StopTasks(r, X) /\ UNCHANGED closed) \/ CloseManager(r))
      BY <1>5, <2>1
    <3> HIDE DEF r, X
    <3> QED
      BY <3>1, InstanceTypes DEF RunsType
  <2> QED
    BY <1>1, <2>1, <2>2 DEF RunsType, runVars, keptVars
<1> QED
  BY <1>2, <1>4, <1>5 DEF StopImpacted, Drain, ShutDownRun

\* The tasks of a run, and their processes.
LEMMA TasksKeepTypes ==
  ASSUME TypeInv,
         \/ \E t \in Task : RunTask(t)
         \/ RunFails
         \/ \E r \in Runs, t \in Persistent :
              Spawn(r, t) \/ ProcessExits(r, t) \/ ProcessStopped(r, t)
  PROVE  TypeInv'
<1> USE DEF TypeInv
<1>1. /\ UNCHANGED <<repoVars, eventVars, loopVars, runs, active, keptVars>>
  BY DEF RunTask, RunFails, Spawn, ProcessExits, ProcessStopped, Becomes, runVars
<1>2. LoopType' /\ CountInv'
  BY <1>1 DEF LoopType, CountInv, Held, Taken, repoVars, eventVars, loopVars, keptVars
<1>3. 1 .. runs \subseteq Runs
  BY RunsFit
<1>4. ASSUME NEW t \in Task, RunTask(t) PROVE RunsType'
  <2>1. active \in Runs /\ todo' \subseteq Task /\ UNCHANGED closed
    BY <1>3, <1>4 DEF RunTask, RunsType
  <2>2. work' \in [Task -> {"stale", "fresh", "failed"}]
    <3>1. Done(t) \in {"stale", "fresh", "failed"}
      BY DEF Done
    <3> QED
      BY <1>4, <3>1 DEF RunTask, RunsType
  <2>3. dev' \in [Runs -> [Persistent -> {"none", "dispatched", "running", "asked",
                                          "closing", "stopped", "gone"}]]
    BY <1>4, <2>1, InstanceTypes DEF RunTask, RunsType
  <2>4. UNCHANGED <<runs, active, awaiting, background, stoppers, lost>>
    BY <1>1 DEF loopVars, keptVars
  <2> QED
    BY <2>1, <2>2, <2>3, <2>4 DEF RunsType
<1>5. CASE RunFails
  <2>1. active \in Runs /\ todo' \subseteq Task
    BY <1>3, <1>5 DEF RunFails, RunsType
  <2>2. work' \in [Task -> {"stale", "fresh", "failed"}]
    BY <1>5 DEF RunFails, RunsType
  <2>3. /\ closed' \in [Runs -> BOOLEAN]
        /\ dev' \in [Runs -> [Persistent -> {"none", "dispatched", "running", "asked",
                                             "closing", "stopped", "gone"}]]
    BY <1>5, <2>1, InstanceTypes DEF RunFails, RunsType, procVars
  <2> QED
    BY <1>1, <1>2, <2>1, <2>2, <2>3 DEF RunsType, loopVars, keptVars
<1>6. ASSUME NEW r \in Runs, NEW t \in Persistent,
             Spawn(r, t) \/ ProcessExits(r, t) \/ ProcessStopped(r, t)
      PROVE  RunsType'
  <2>1. /\ UNCHANGED <<runVars, closed>>
        /\ \E state \in {"dispatched", "running", "stopped", "gone"} :
             dev' = [dev EXCEPT ![r][t] = state]
    BY <1>6 DEF Spawn, ProcessExits, ProcessStopped, Becomes
  <2>2. dev' \in [Runs -> [Persistent -> {"none", "dispatched", "running", "asked",
                                          "closing", "stopped", "gone"}]]
    BY <2>1, InstanceTypes
  <2> QED
    BY <1>1, <2>1, <2>2 DEF RunsType, runVars, loopVars, keptVars
<1> QED
  BY <1>2, <1>4, <1>5, <1>6

\* The end of the client.
LEMMA EndKeepsTypes ==
  ASSUME TypeInv, Interrupted \/ BuildFails \/ Exit
  PROVE  TypeInv'
<1> USE DEF TypeInv
<1>1. UNCHANGED <<repoVars, eventVars, changed, runVars, watched, procVars>>
      /\ client' \in {"shutdown", "exited"}
  BY DEF Interrupted, BuildFails, Exit, ShutDown, keptVars
<1>2. LoopType'
  BY <1>1 DEF LoopType, repoVars, eventVars
<1>3. RunsType'
  BY DEF Interrupted, BuildFails, Exit, ShutDown, ActiveRun, RunsType, runVars, keptVars, procVars
<1>4. /\ Held' = Held /\ Taken' = 0 /\ Taken \in {0, 1}
      /\ UNCHANGED <<runs, unannounced, events, changes>>
  BY <1>1 DEF Held, Taken, eventVars, repoVars, runVars
<1>5. CountInv'
  BY <1>4, RunsFit DEF CountInv, RunsType, LoopType, Held
<1> QED
  BY <1>2, <1>3, <1>5

-----------------------------------------------------------------------------
(* The instances of persistent tasks.                                      *)

\* What may become of them in a step.
InstanceMoves ==
  \A r \in Runs : (closed[r] => closed'[r]) /\ \A t \in Persistent :
    /\ closed'[r] /\ ~closed[r] => dev'[r][t] # "running"
    /\ dev'[r][t] # dev[r][t] =>
         \/ dev[r][t] # "none" /\ dev'[r][t] = "gone"
         \/ dev[r][t] = "dispatched" /\ dev'[r][t] = "running" /\ ~closed[r] /\ ~closed'[r]
         \/ dev[r][t] = "running" /\ dev'[r][t] = "closing" /\ closed'[r]
         \/ /\ dev[r][t] = "running" /\ dev'[r][t] = "asked"
            /\ client = "stopping" /\ t \in Impacted(changed) /\ t \in Restartable
         \/ dev[r][t] = "asked" /\ dev'[r][t] = "stopped"
         \/ dev'[r][t] = "dispatched" /\ r = active /\ ~closed[r] /\ t \in todo \ todo'

\* A manager closes.
LEMMA CloseMoves ==
  ASSUME RunsType, NEW r \in Runs, CloseManager(r)
  PROVE  InstanceMoves /\ closed'[r]
<1>1. /\ closed'[r] /\ \A s \in Runs : s # r => closed'[s] = closed[s]
      /\ \A s \in Runs : \A t \in Persistent :
           dev'[s][t] = IF s = r /\ dev[s][t] = "running" THEN "closing" ELSE dev[s][t]
  BY DEF CloseManager, RunsType
<1> QED
  BY <1>1 DEF InstanceMoves

\* stop_tasks takes children out.
LEMMA StopMoves ==
  ASSUME RunsType, NEW r \in Runs, client = "stopping", UNCHANGED closed,
         StopTasks(r, Impacted(changed) \cap Restartable)
  PROVE  InstanceMoves
<1>1. \A s \in Runs : \A t \in Persistent :
        /\ closed'[s] = closed[s]
        /\ dev'[s][t] # dev[s][t] =>
             /\ dev'[s][t] = "asked" /\ dev[s][t] = "running"
             /\ t \in Impacted(changed) \cap Restartable
  BY DEF StopTasks, RunsType
<1> QED
  BY <1>1 DEF InstanceMoves

\* A step that leaves the managers and the instances alone.
LEMMA NoMoves ==
  ASSUME RunsType, UNCHANGED procVars
  PROVE  InstanceMoves
  BY DEF InstanceMoves, procVars

\* Every step moves the instances that way.
LEMMA StepMoves ==
  ASSUME TypeInv, WatchNext
  PROVE  InstanceMoves
<1> USE DEF TypeInv
<1>1. RunsType /\ 1 .. runs \subseteq Runs
  BY RunsFit
<1>2. CASE UNCHANGED procVars
  BY <1>1, <1>2, NoMoves
<1>3. CASE StopImpacted
  <2> DEFINE r == awaiting'
  <2>1. r \in Runs
    BY <1>1, <1>3, AwaitedIsKept DEF StopImpacted
  <2>2. client = "stopping" /\ UNCHANGED closed
        /\ StopTasks(r, Impacted(changed) \cap Restartable)
    BY <1>3 DEF StopImpacted
  <2> HIDE DEF r
  <2> QED
    BY <1>1, <2>1, <2>2, StopMoves
<1>4. CASE Drain \/ ShutDownRun
  <2> DEFINE r == awaiting'
  <2>1. r \in Runs /\ CloseManager(r)
    BY <1>1, <1>4, AwaitedIsKept DEF Drain, ShutDownRun
  <2> HIDE DEF r
  <2> QED
    BY <1>1, <2>1, CloseMoves
<1>5. ASSUME NEW t \in Task, RunTask(t) PROVE InstanceMoves
  <2>1. active \in Runs /\ ~closed[active] /\ UNCHANGED closed /\ t \in todo \ todo'
    BY <1>1, <1>5 DEF RunTask, RunsType
  <2>2. \A s \in Runs : \A u \in Persistent : dev'[s][u] # dev[s][u] =>
          s = active /\ u = t /\ dev'[s][u] = "dispatched"
    BY <1>1, <1>5 DEF RunTask, RunsType
  <2> QED
    BY <1>1, <2>1, <2>2 DEF InstanceMoves
<1>6. CASE RunFails
  <2>1. active \in Runs
    BY <1>1, <1>6 DEF RunFails, RunsType
  <2> QED
    BY <1>1, <1>2, <1>6, <2>1, CloseMoves DEF RunFails
<1>7. ASSUME NEW r \in Runs, NEW t \in Persistent,
             Spawn(r, t) \/ ProcessExits(r, t) \/ ProcessStopped(r, t)
      PROVE  InstanceMoves
  <2>1. UNCHANGED closed
    BY <1>7 DEF Spawn, ProcessExits, ProcessStopped, Becomes
  <2>2. \A state : Becomes(r, t, state) =>
          \A s \in Runs : \A u \in Persistent : dev'[s][u] # dev[s][u] =>
            s = r /\ u = t /\ dev'[s][u] = state
    BY <1>1 DEF Becomes, RunsType
  <2> QED
    BY <1>1, <1>7, <2>1, <2>2 DEF Spawn, ProcessExits, ProcessStopped, InstanceMoves
<1>8. ASSUME \/ \E p \in Package : EditPackage(p)
             \/ \E p \in Optional : EditWorkspace(p)
             \/ \E c \in Change : Announce(c) \/ Receive(c)
             \/ ReceiveLagged \/ TakeChanges \/ ImpactedStopped \/ AllStopped \/ StopReturns
             \/ BuildRun \/ RunJoined \/ Interrupted \/ BuildFails \/ Exit
      PROVE  UNCHANGED procVars
  BY <1>8 DEF EditPackage, EditWorkspace, Announce, Receive, ReceiveLagged, TakeChanges,
     ImpactedStopped, AllStopped, StopReturns, BuildRun, RunJoined, Interrupted, ShutDown,
     BuildFails, Exit
<1> QED
  BY <1>2, <1>3, <1>4, <1>5, <1>6, <1>7, <1>8 DEF WatchNext, RunFuture

\* A run that is clean stays so.
LEMMA CleanStays ==
  ASSUME InstanceMoves, NEW r \in Runs, Clean(r)
  PROVE  Clean(r)'
<1>1. closed[r] /\ closed'[r]
  BY DEF InstanceMoves, Clean
<1>2. \A t \in Persistent : dev'[r][t] \notin {"running", "closing"}
  BY <1>1 DEF InstanceMoves, Clean
<1> QED
  BY <1>1, <1>2 DEF Clean

\* The numbers of runs, and what is left to do, in a step.
LEMMA RunsGrow ==
  ASSUME TypeInv, WatchNext
  PROVE  /\ runs' = runs \/ (BuildRun /\ runs' = runs + 1)
         /\ todo' \subseteq todo \/ BuildRun
<1>1. CASE BuildRun
  BY <1>1 DEF BuildRun
<1>2. CASE RunFails \/ RunJoined \/ \E t \in Task : RunTask(t)
  BY <1>2 DEF RunFails, RunJoined, RunTask
<1>3. ASSUME \/ \E p \in Package : EditPackage(p)
             \/ \E p \in Optional : EditWorkspace(p)
             \/ \E c \in Change : Announce(c) \/ Receive(c)
             \/ ReceiveLagged \/ TakeChanges \/ ImpactedStopped \/ AllStopped \/ StopReturns
             \/ StopImpacted \/ Drain \/ ShutDownRun \/ Interrupted \/ BuildFails \/ Exit
             \/ \E r \in Runs, t \in Persistent :
                  Spawn(r, t) \/ ProcessExits(r, t) \/ ProcessStopped(r, t)
      PROVE  UNCHANGED <<runs, todo>>
  BY <1>3 DEF EditPackage, EditWorkspace, Announce, Receive, ReceiveLagged, TakeChanges,
     ImpactedStopped, AllStopped, StopReturns, StopImpacted, Drain, ShutDownRun,
     Interrupted, ShutDown, BuildFails, Exit, Spawn, ProcessExits, ProcessStopped, Becomes, runVars
<1> QED
  BY <1>1, <1>2, <1>3 DEF WatchNext, RunFuture

\* Instances keep to their runs and managers.
LEMMA InstancesStep ==
  ASSUME TypeInv, InstanceInv, WatchNext
  PROVE  InstanceInv'
<1> SUFFICES ASSUME NEW r \in Runs, NEW t \in Persistent
             PROVE  /\ r > runs' => dev'[r][t] = "none"
                    /\ closed'[r] => dev'[r][t] # "running"
                    /\ t \notin Interruptible => dev'[r][t] \notin {"asked", "stopped"}
  BY DEF InstanceInv
<1>1. InstanceMoves
  BY StepMoves
<1>2. /\ r > runs => dev[r][t] = "none"
      /\ closed[r] => dev[r][t] # "running"
      /\ t \notin Interruptible => dev[r][t] \notin {"asked", "stopped"}
  BY DEF InstanceInv
<1>3. ASSUME r > runs' PROVE dev'[r][t] = "none"
  <2>1. r > runs /\ r # active
    BY <1>3, RunsGrow, RunsFit DEF TypeInv, RunsType
  <2> QED
    BY <1>1, <1>2, <2>1 DEF InstanceMoves
<1>4. closed'[r] => dev'[r][t] # "running"
  BY <1>1, <1>2 DEF InstanceMoves
<1>5. t \notin Interruptible => dev'[r][t] \notin {"asked", "stopped"}
  BY <1>1, <1>2 DEF InstanceMoves, Restartable
<1> QED
  BY <1>3, <1>4, <1>5

-----------------------------------------------------------------------------
(* What the client holds.                                                  *)

\* The places agree.
LEMMA PlacesStep ==
  ASSUME TypeInv, PlaceInv, WatchNext
  PROVE  PlaceInv'
<1> USE DEF TypeInv
<1>1. RunsType /\ 1 .. runs \subseteq Runs /\ Runs \subseteq Nat \ {0}
  BY RunsFit
<1>2. ASSUME UNCHANGED <<client, active, awaiting, stoppers, closed, todo>>
      PROVE  PlaceInv'
  BY <1>2 DEF PlaceInv
<1>3. ASSUME \/ \E p \in Package : EditPackage(p)
             \/ \E p \in Optional : EditWorkspace(p)
             \/ \E c \in Change : Announce(c) \/ Receive(c)
             \/ ReceiveLagged
             \/ \E r \in Runs, t \in Persistent :
                  Spawn(r, t) \/ ProcessExits(r, t) \/ ProcessStopped(r, t)
      PROVE  UNCHANGED <<client, active, awaiting, stoppers, closed, todo>>
  BY <1>3 DEF EditPackage, EditWorkspace, Announce, Receive, ReceiveLagged, Spawn,
     ProcessExits, ProcessStopped, Becomes, loopVars, runVars, procVars
<1>4. CASE TakeChanges
  BY <1>4 DEF TakeChanges, PlaceInv, loopVars, runVars, procVars
<1>5. CASE StopImpacted
  BY <1>5 DEF StopImpacted, AwaitNext, PlaceInv, runVars
<1>6. CASE Drain \/ ShutDownRun
  <2> DEFINE r == awaiting'
  <2>1. r \in Runs /\ CloseManager(r)
    BY <1>1, <1>6, AwaitedIsKept DEF Drain, ShutDownRun
  <2> HIDE DEF r
  <2>2. closed'[r]
    BY <1>1, <2>1, CloseMoves
  <2> QED
    BY <1>6, <2>2 DEF Drain, ShutDownRun, PlaceInv, runVars, r
<1>7. CASE StopReturns
  BY <1>7 DEF StopReturns, PlaceInv, runVars, procVars
<1>8. CASE ImpactedStopped \/ AllStopped
  BY <1>8 DEF ImpactedStopped, AllStopped, StoppersDone, PlaceInv, runVars, procVars
<1>9. CASE BuildRun
  BY <1>1, <1>9 DEF BuildRun, PlaceInv, RunsType, procVars
<1>10. CASE RunJoined
  BY <1>10 DEF RunJoined, PlaceInv, procVars
<1>11. ASSUME NEW t \in Task, RunTask(t) PROVE PlaceInv'
  BY <1>11 DEF RunTask, PlaceInv, loopVars
<1>12. CASE RunFails
  <2>1. active \in Runs
    BY <1>1, <1>12 DEF RunFails, RunsType
  <2>2. \A r \in Runs : closed[r] => closed'[r]
    BY <1>1, <1>12, <2>1 DEF RunFails, CloseManager, RunsType, procVars
  <2>3. awaiting # 0 => awaiting \in Runs
    BY <1>1 DEF RunsType
  <2> QED
    BY <1>12, <2>2, <2>3 DEF RunFails, PlaceInv, loopVars
<1>13. CASE Interrupted \/ BuildFails \/ Exit
  BY <1>13 DEF Interrupted, BuildFails, Exit, ShutDown, StoppersDone, Looping, PlaceInv,
     runVars, procVars
<1> QED
  BY <1>2, <1>3, <1>4, <1>5, <1>6, <1>7, <1>8, <1>9, <1>10, <1>11, <1>12, <1>13
  DEF WatchNext, RunFuture

\* An awaited stop leaves its run clean.
LEMMA AwaitedIsClean ==
  ASSUME TypeInv, PlaceInv, InstanceInv, StopReturns, client \in {"closing", "shutdown"}
  PROVE  Clean(awaiting)
<1>1. awaiting \in Runs /\ closed[awaiting]
  BY RunsFit DEF TypeInv, RunsType, PlaceInv, StopReturns
<1> QED
  BY <1>1 DEF InstanceInv, StopReturns, Clean

\* Whatever the client does, it holds the runs that are not clean.
LEMMA EndsStep ==
  ASSUME TypeInv, EventInv, PlaceInv, InstanceInv, EndInv, WatchNext
  PROVE  EndInv'
<1> USE DEF TypeInv
<1>1. /\ RunsType /\ LoopType /\ 1 .. runs \subseteq Runs /\ Rediscover \notin Package
      /\ runs \in Nat /\ background \subseteq 1 .. runs
  BY RunsFit, ChangeTypes DEF RunsType
<1>2. \A r \in Runs : Clean(r) => Clean(r)'
  BY StepMoves, CleanStays
<1>3. ASSUME UNCHANGED <<client, changed, active, awaiting, stoppers, background, lost, runs>>
      PROVE  EndInv'
  BY <1>1, <1>2, <1>3 DEF EndInv, Looping
<1>4. ASSUME \/ \E p \in Package : EditPackage(p)
             \/ \E p \in Optional : EditWorkspace(p)
             \/ \E c \in Change : Announce(c) \/ Receive(c)
             \/ ReceiveLagged
             \/ \E t \in Task : RunTask(t)
             \/ RunFails
             \/ \E r \in Runs, t \in Persistent :
                  Spawn(r, t) \/ ProcessExits(r, t) \/ ProcessStopped(r, t)
      PROVE  UNCHANGED <<client, changed, active, awaiting, stoppers, background, lost, runs>>
  BY <1>4 DEF EditPackage, EditWorkspace, Announce, Receive, ReceiveLagged, RunTask, RunFails,
     Spawn, ProcessExits, ProcessStopped, Becomes, loopVars, runVars, keptVars
<1>5. CASE TakeChanges
  BY <1>1, <1>2, <1>5 DEF TakeChanges, EndInv, Looping, loopVars, runVars, keptVars
<1>6. CASE StopImpacted
  BY <1>1, <1>2, <1>6 DEF StopImpacted, EndInv, Looping, runVars, keptVars
<1>7. CASE Drain \/ ShutDownRun
  <2>1. stoppers' = stoppers \ {awaiting'} /\ awaiting = 0
    BY <1>1, <1>7, AwaitedIsKept DEF Drain, ShutDownRun
  <2>2. UNCHANGED <<client, changed, active, background, lost, runs>> /\ 0 \notin 1 .. runs
    BY <1>7 DEF Drain, ShutDownRun, runVars, keptVars
  <2>3. background \subseteq 1 .. runs
    BY <1>1 DEF RunsType
  <2> QED
    BY <1>1, <1>2, <2>1, <2>2, <2>3 DEF EndInv, Looping
<1>8. CASE StopReturns
  <2>1. /\ UNCHANGED <<client, changed, active, background, stoppers, lost, runs>>
        /\ background \subseteq 1 .. runs
    BY <1>1, <1>8 DEF StopReturns, runVars, keptVars, RunsType
  <2>2. client \in {"closing", "shutdown"} => Clean(awaiting)
    BY <1>8, AwaitedIsClean
  <2>3. client \in {"stopping", "closing", "shutdown"}
    BY <1>8 DEF StopReturns, PlaceInv
  <2> QED
    BY <1>1, <1>2, <2>1, <2>2, <2>3 DEF EndInv, Looping
<1>9. CASE ImpactedStopped
  <2>1. Rediscover \notin changed'
    BY <1>1, <1>9 DEF ImpactedStopped, LoopType
  <2> QED
    BY <1>1, <1>2, <1>9, <2>1 DEF ImpactedStopped, EndInv, Looping, runVars, keptVars
<1>10. CASE AllStopped
  <2>1. \A r \in 1 .. runs : Clean(r)
    BY <1>10 DEF AllStopped, StoppersDone, EndInv, PlaceInv, Looping
  <2>2. UNCHANGED runs /\ client' = "building"
    BY <1>10 DEF AllStopped, runVars
  <2> QED
    BY <1>1, <1>2, <2>1, <2>2 DEF EndInv, Looping
<1>11. CASE BuildRun
  <2>1. /\ runs' = runs + 1 /\ active' = runs' /\ client' = "running" /\ client = "building"
        /\ UNCHANGED background /\ active = 0
    BY <1>11 DEF BuildRun, PlaceInv
  <2>2. \A r \in 1 .. runs' : r \in 1 .. runs \/ r = runs'
    BY <1>1, <2>1
  <2> QED
    BY <1>1, <1>2, <2>1, <2>2 DEF EndInv, Looping
<1>12. CASE RunJoined
  BY <1>1, <1>2, <1>12 DEF RunJoined, EndInv, Looping
<1>13. CASE Interrupted
  <2>1. Looping /\ client' = "shutdown" /\ UNCHANGED runs
    BY <1>13 DEF Interrupted, ShutDown, runVars
  <2>2. \A r \in (1 .. runs) \ lost' : r \in stoppers' \/ Clean(r)
    <3>1. CASE client = "closing"
      BY <1>1, <1>13, <3>1 DEF Interrupted, EndInv, PlaceInv, RunsType
    <3>2. CASE client # "closing"
      BY <1>1, <1>13, <3>2 DEF Interrupted, ActiveRun, EndInv
    <3> QED
      BY <3>1, <3>2
  <2> QED
    BY <1>1, <1>2, <2>1, <2>2 DEF EndInv, Looping
<1>14. CASE BuildFails
  <2>1. /\ client = "building" /\ client' = "shutdown" /\ UNCHANGED runs
        /\ stoppers' = background /\ active = 0
    BY <1>14 DEF BuildFails, ShutDown, runVars, PlaceInv
  <2> QED
    BY <1>1, <1>2, <2>1 DEF EndInv, Looping
<1>15. CASE Exit
  BY <1>1, <1>2, <1>15 DEF Exit, EndInv, Looping, runVars, keptVars
<1> QED
  BY <1>3, <1>4, <1>5, <1>6, <1>7, <1>8, <1>9, <1>10, <1>11, <1>12, <1>13, <1>14, <1>15
  DEF WatchNext, RunFuture

\* A task that is not to be restarted is started only when no instance of it is left.
LEMMA OnceStep ==
  ASSUME TypeInv, EventInv, InstanceInv, EndInv, OnceInv, WatchNext
  PROVE  OnceInv'
<1> SUFFICES ASSUME NEW t \in Persistent \ Interruptible
             PROVE  /\ \A r, s \in Runs : MayLive(r, t)' /\ MayLive(s, t)' => r = s
                    /\ t \in todo' => \A r \in Runs : ~MayLive(r, t)'
  BY DEF OnceInv
<1>1. InstanceMoves
  BY StepMoves
<1>2. t \notin Restartable
  BY WatchAssumption DEF Restartable, WatchAssumption
<1>3. ASSUME NEW r \in Runs, MayLive(r, t)'
      PROVE  MayLive(r, t) \/ (r = active /\ t \in todo \ todo')
  BY <1>1, <1>2, <1>3 DEF InstanceMoves, InstanceInv, MayLive
<1>4. /\ \A r, s \in Runs : MayLive(r, t) /\ MayLive(s, t) => r = s
      /\ t \in todo => \A r \in Runs : ~MayLive(r, t)
  BY DEF OnceInv
<1>5. \A r, s \in Runs : MayLive(r, t)' /\ MayLive(s, t)' => r = s
  BY <1>3, <1>4
<1>6. ASSUME t \in todo', NEW r \in Runs PROVE ~MayLive(r, t)'
  <2>1. CASE t \in todo
    BY <1>3, <1>4, <1>6, <2>1
  <2>2. CASE t \notin todo
    <3>1. BuildRun /\ changed = {Rediscover}
      BY <1>2, <1>6, <2>2, RunsGrow DEF BuildRun, WatchScope
    <3>2. ~MayLive(r, t)
      <4>1. CASE r > runs
        BY <4>1 DEF InstanceInv, MayLive
      <4>2. CASE ~(r > runs)
        <5>1. r \in 1 .. runs
          BY <4>2, RunsFit DEF TypeInv, RunsType, Runs
        <5> QED
          BY <3>1, <5>1 DEF BuildRun, EndInv, Clean, MayLive
      <4> QED
        BY <4>1, <4>2
    <3> QED
      BY <1>3, <2>2, <3>2
  <2> QED
    BY <2>1, <2>2
<1> QED
  BY <1>5, <1>6

-----------------------------------------------------------------------------
(* The way of a change.                                                    *)

\* The steps by what they leave alone.
LEMMA LoopFrames ==
  ASSUME WatchNext
  PROVE  \/ \E p \in Package : EditPackage(p)
         \/ \E p \in Optional : EditWorkspace(p)
         \/ \E c \in Change : Announce(c) \/ Receive(c)
         \/ ReceiveLagged
         \/ TakeChanges \/ ImpactedStopped \/ BuildRun \/ RunJoined
         \/ \E t \in Task : RunTask(t)
         \/ RunFails
         \/ UNCHANGED <<repoVars, eventVars, client, changed, runVars, watched>>
         \/ AllStopped
         \/ ~Looping' /\ UNCHANGED <<permit, pending, work, todo>> /\ client' # "closing"
              /\ client' # "stopping"
<1>1. ASSUME StopImpacted \/ Drain \/ ShutDownRun \/ StopReturns
      PROVE  UNCHANGED <<repoVars, eventVars, client, changed, runVars, watched>>
  BY <1>1 DEF StopImpacted, Drain, ShutDownRun, StopReturns, keptVars
<1>2. ASSUME NEW r \in Runs, NEW t \in Persistent,
             Spawn(r, t) \/ ProcessExits(r, t) \/ ProcessStopped(r, t)
      PROVE  UNCHANGED <<repoVars, eventVars, client, changed, runVars, watched>>
  BY <1>2 DEF Spawn, ProcessExits, ProcessStopped, Becomes, loopVars, keptVars
<1>3. ASSUME Interrupted \/ BuildFails \/ Exit
      PROVE  ~Looping' /\ UNCHANGED <<permit, pending, work, todo>> /\ client' # "closing"
               /\ client' # "stopping"
  BY <1>3 DEF Interrupted, BuildFails, Exit, ShutDown, Looping, eventVars, runVars
<1> QED
  BY <1>1, <1>2, <1>3 DEF WatchNext, RunFuture

\* Without a rebuild to come there was none before, or it has been built.
LEMMA QuietBefore ==
  ASSUME TypeInv, EventInv, WatchNext, Looping', ~RediscoverComing'
  PROVE  /\ Looping /\ UNCHANGED relevant
         /\ ~RediscoverComing \/ (BuildRun /\ changed = {Rediscover})
<1> USE DEF RediscoverComing
<1>1. /\ Rediscover \notin Package
      /\ pending \subseteq Package \/ pending = {Rediscover}
      /\ changed \subseteq Package \/ changed = {Rediscover}
  BY ChangeTypes DEF TypeInv, LoopType
<1>2. CASE \E p \in Package : EditPackage(p)
  BY <1>2 DEF EditPackage, eventVars, loopVars, Looping
<1>3. CASE \E p \in Optional : EditWorkspace(p)
  BY <1>3 DEF EditWorkspace
<1>4. ASSUME NEW c \in Change, Announce(c)
      PROVE  Looping /\ UNCHANGED relevant /\ ~RediscoverComing
  BY <1>4 DEF Announce, loopVars, Looping
<1>5. ASSUME NEW c \in Change, Receive(c)
      PROVE  Looping /\ UNCHANGED relevant /\ ~RediscoverComing
  BY <1>5 DEF Receive, HandleChange, repoVars, loopVars, Looping
<1>6. CASE ReceiveLagged
  BY <1>6 DEF ReceiveLagged, HandleChange
<1>7. CASE TakeChanges
  BY <1>1, <1>7 DEF TakeChanges, repoVars, loopVars, Looping
<1>8. CASE ImpactedStopped
  BY <1>8 DEF ImpactedStopped, repoVars, eventVars, Looping
<1>9. CASE BuildRun
  BY <1>1, <1>9 DEF BuildRun, repoVars, eventVars, Looping
<1>10. CASE RunJoined
  BY <1>10 DEF RunJoined, repoVars, eventVars, Looping
<1>11. CASE RunFails \/ \E t \in Task : RunTask(t)
  BY <1>11 DEF RunFails, RunTask, repoVars, eventVars, loopVars, Looping
<1>12. CASE UNCHANGED <<repoVars, eventVars, client, changed, runVars, watched>>
  BY <1>12 DEF repoVars, eventVars, Looping
<1>13. CASE AllStopped
  BY <1>13 DEF AllStopped, repoVars, eventVars, Looping
<1> QED
  BY <1>2, <1>3, <1>4, <1>5, <1>6, <1>7, <1>8, <1>9, <1>10, <1>11, <1>12, <1>13, LoopFrames

\* The packages that are watched.
LEMMA EventsStep ==
  ASSUME TypeInv, EventInv, WatchNext
  PROVE  EventInv'
<1>1. Looping' /\ ~RediscoverComing' => watched' = relevant'
  <2> SUFFICES ASSUME Looping', ~RediscoverComing' PROVE watched' = relevant'
    OBVIOUS
  <2>1. Looping /\ UNCHANGED relevant
    BY QuietBefore
  <2>2. CASE BuildRun /\ changed = {Rediscover}
    BY <2>1, <2>2 DEF BuildRun
  <2>3. CASE ~RediscoverComing
    <3>1. watched = relevant
      BY <2>1, <2>3 DEF EventInv
    <3>2. UNCHANGED watched \/ (BuildRun /\ changed = {Rediscover})
      BY LoopFrames, <2>1 DEF EditPackage, EditWorkspace, Announce, Receive, ReceiveLagged,
         TakeChanges, ImpactedStopped, BuildRun, RunJoined, RunTask, RunFails, AllStopped, keptVars
    <3> QED
      BY <2>1, <2>2, <3>1, <3>2
  <2> QED
    BY <2>2, <2>3, QuietBefore
<1>2. pending' # {} => permit'
  BY LoopFrames DEF EventInv, EditPackage, EditWorkspace, Announce, Receive, ReceiveLagged,
     TakeChanges, ImpactedStopped, BuildRun, RunJoined, RunTask, RunFails, AllStopped, eventVars
<1>3. /\ client' = "closing" => changed' = {Rediscover}
      /\ client' = "stopping" => changed' \subseteq Package
  <2>1. CASE TakeChanges
    BY <2>1 DEF TakeChanges, EventInv, TypeInv, LoopType, loopVars
  <2>2. CASE ~TakeChanges
    BY <2>2, LoopFrames DEF EventInv, EditPackage, EditWorkspace, Announce, Receive,
       ReceiveLagged, ImpactedStopped, BuildRun, RunJoined, RunTask, RunFails, AllStopped, loopVars
  <2> QED
    BY <2>1, <2>2
<1> QED
  BY <1>1, <1>2, <1>3 DEF EventInv

\* A task that a change concerns is among those to be stopped, and in the scope of
\* the run that follows.
LEMMA ConcernedAreScoped ==
  ASSUME TypeInv, NEW C \in SUBSET Package,
         NEW t \in TasksOf(relevant) \cap Restartable, watched = relevant
  PROVE  /\ \A p \in C \cap relevant : t \in Dependents(TasksOf({p})) => t \in Impacted(C)
         /\ t \in Impacted(C) =>
              t \in WatchScope({PackageOf[u] : u \in Impacted(C)} \cap watched)
<1>1. t \in Task /\ PackageOf[t] \in relevant
  BY DEF TasksOf
<1>2. ASSUME NEW p \in C \cap relevant, t \in Dependents(TasksOf({p})) PROVE t \in Impacted(C)
  <2>1. TasksOf({p}) \subseteq TasksOf(C \cap watched)
    BY DEF TasksOf
  <2> QED
    BY <1>1, <1>2, <2>1, DependentsFacts DEF Impacted
<1>3. ASSUME t \in Impacted(C)
      PROVE  t \in WatchScope({PackageOf[u] : u \in Impacted(C)} \cap watched)
  <2> DEFINE D == {PackageOf[u] : u \in Impacted(C)} \cap watched
  <2>1. t \in TasksOf(D \cap relevant)
    BY <1>1, <1>3 DEF TasksOf
  <2>2. TasksOf(D \cap relevant) \in SUBSET Task
    BY DEF TasksOf
  <2> HIDE DEF D
  <2>3. t \in WatchReachable(TasksOf(D \cap relevant))
    BY <2>1, <2>2, DependentsFacts
  <2>4. t \in WatchScope(D)
    BY <2>3 DEF WatchScope
  <2> QED
    BY <2>4 DEF D
<1> QED
  BY <1>2, <1>3

\* What is to be restarted remains so until it is done.
LEMMA RestartingStays ==
  ASSUME TypeInv, EventInv, PlaceInv, WatchNext, Looping', Looping, ~RediscoverComing,
         ~RediscoverComing', NEW t \in TasksOf(relevant) \cap Restartable, Restarting(t)
  PROVE  Restarting(t)' \/ t \in todo \ todo'
<1> USE DEF Restarting
<1>1. watched = relevant /\ UNCHANGED relevant
  BY QuietBefore DEF EventInv
<1>2. ASSUME UNCHANGED <<client, changed, watched>>, todo' = todo \/ client # "running"
      PROVE  Restarting(t)'
  BY <1>1, <1>2 DEF Impacted, WatchScope
<1>3. ASSUME \/ \E p \in Package : EditPackage(p)
             \/ \E p \in Optional : EditWorkspace(p)
             \/ \E c \in Change : Announce(c) \/ Receive(c)
             \/ ReceiveLagged
             \/ UNCHANGED <<repoVars, eventVars, client, changed, runVars, watched>>
      PROVE  UNCHANGED <<client, changed, watched, todo>>
  BY <1>3 DEF EditPackage, EditWorkspace, Announce, Receive, ReceiveLagged, loopVars, runVars,
     keptVars
<1>4. CASE TakeChanges
  BY <1>4 DEF TakeChanges
<1>5. CASE ImpactedStopped
  <2> DEFINE D == {PackageOf[u] : u \in Impacted(changed)} \cap watched
  <2>1. /\ client = "stopping" /\ client' = "building" /\ changed' = D
        /\ changed \in SUBSET Package /\ t \in Impacted(changed)
    BY <1>5 DEF ImpactedStopped, EventInv
  <2>2. t \in WatchScope(D)
    BY <1>1, <2>1, ConcernedAreScoped
  <2> HIDE DEF D
  <2> QED
    BY <1>1, <2>1, <2>2 DEF WatchScope
<1>6. CASE BuildRun
  <2>1. client = "building" /\ client' = "running" /\ changed # {Rediscover}
    BY <1>6 DEF BuildRun, RediscoverComing
  <2> QED
    BY <1>6, <2>1 DEF BuildRun
<1>7. CASE RunJoined
  BY <1>7 DEF RunJoined
<1>8. CASE RunFails \/ \E u \in Task : RunTask(u)
  BY <1>2, <1>8 DEF RunFails, RunTask, loopVars, keptVars
<1>9. CASE AllStopped
  BY <1>9 DEF AllStopped
<1> QED
  BY <1>2, <1>3, <1>4, <1>5, <1>6, <1>7, <1>8, <1>9, LoopFrames

\* A change that is on its way arrives.
LEMMA HeraldedStays ==
  ASSUME TypeInv, EventInv, WatchNext, Looping', Looping, ~RediscoverComing,
         ~RediscoverComing', NEW t \in TasksOf(relevant) \cap Restartable, Heralded(t)
  PROVE  Heralded(t)' \/ Restarting(t)'
<1>1. watched = relevant /\ UNCHANGED relevant
  BY QuietBefore DEF EventInv
<1>2. PICK p \in relevant \cap (unannounced \cup events \cup pending) :
        t \in Dependents(TasksOf({p}))
  BY DEF Heralded
<1>3. p \in unannounced' \cup events' \cup pending' => Heralded(t)'
  BY <1>1, <1>2 DEF Heralded
<1>4. CASE TakeChanges
  <2>1. CASE pending = {} \/ p \notin pending
    BY <1>2, <1>3, <1>4, <2>1 DEF TakeChanges, repoVars
  <2>2. CASE p \in pending
    <3>1. pending # {} /\ pending # {Rediscover} /\ pending \in SUBSET Package
      BY <2>2 DEF RediscoverComing, TypeInv, LoopType
    <3>2. changed' = pending /\ client' = "stopping" /\ UNCHANGED <<relevant, watched>>
      BY <1>4, <3>1 DEF TakeChanges, repoVars, keptVars
    <3>3. t \in Impacted(pending)
      BY <1>1, <1>2, <2>2, <3>1, ConcernedAreScoped
    <3> QED
      BY <3>2, <3>3 DEF Restarting, Impacted
  <2> QED
    BY <2>1, <2>2
<1>5. ASSUME NEW c \in Change, Receive(c) PROVE Heralded(t)'
  <2>1. pending' = pending \cup {c} /\ events' = events \ {c} /\ UNCHANGED unannounced
    BY <1>5 DEF Receive, HandleChange, RediscoverComing, repoVars
  <2> QED
    BY <1>2, <1>3, <2>1
<1>6. CASE ReceiveLagged
  BY <1>6 DEF ReceiveLagged, HandleChange, RediscoverComing
<1>7. ASSUME \/ \E q \in Package : EditPackage(q)
             \/ \E q \in Optional : EditWorkspace(q)
             \/ \E c \in Change : Announce(c)
             \/ ImpactedStopped \/ BuildRun \/ RunJoined \/ AllStopped \/ RunFails
             \/ \E u \in Task : RunTask(u)
             \/ UNCHANGED <<repoVars, eventVars, client, changed, runVars, watched>>
      PROVE  Heralded(t)'
  BY <1>2, <1>3, <1>7 DEF EditPackage, EditWorkspace, Announce, ImpactedStopped, BuildRun,
     RunJoined, AllStopped, RunFails, RunTask, repoVars, eventVars
<1> QED
  BY <1>4, <1>5, <1>6, <1>7, LoopFrames

\* A task is left stale by its run only if what it depends on waits for a change,
\* which concerns it, too.
LEMMA StaleInputs ==
  ASSUME TypeInv, PlaceInv, StaleInv, Looping, ~RediscoverComing,
         NEW t \in Task, RunTask(t), Done(t) = "stale"
  PROVE  Heralded(t)
<1>1. PICK d \in TaskDeps[t] \cap TasksOf(relevant) : work[d] = "stale"
  BY DEF Done
<1>2. d \in TasksOf(relevant) \cap Restartable /\ d \notin todo /\ client = "running"
  BY <1>1, WatchAssumption DEF WatchAssumption, Restartable, RunTask, PlaceInv, Looping
<1>3. Heralded(d)
  BY <1>1, <1>2 DEF StaleInv, Restarting
<1> QED
  BY <1>1, <1>3, DependentsFacts DEF Heralded

\* What the work on a task can become.
LEMMA WorkSteps ==
  ASSUME TypeInv, WatchNext, Looping', ~RediscoverComing', NEW t \in Task, work'[t] # work[t]
  PROVE  \/ /\ \E p \in Package : EditPackage(p) /\ t \in Dependents(TasksOf({p}))
            /\ work'[t] = "stale"
         \/ RunTask(t) /\ work'[t] = Done(t)
         \/ work'[t] = "failed"
<1>1. work \in [Task -> {"stale", "fresh", "failed"}]
  BY DEF TypeInv, RunsType
<1>2. ASSUME NEW p \in Package, EditPackage(p)
      PROVE  t \in Dependents(TasksOf({p})) /\ work'[t] = "stale"
  BY <1>2 DEF EditPackage, Outdate
<1>3. ASSUME NEW p \in Optional, EditWorkspace(p) PROVE FALSE
  BY <1>3 DEF EditWorkspace, RediscoverComing
<1>4. ASSUME NEW u \in Task, RunTask(u) PROVE u = t /\ work'[t] = Done(t)
  BY <1>1, <1>4 DEF RunTask
<1>5. CASE RunFails
  BY <1>5 DEF RunFails
<1>6. ASSUME UNCHANGED work PROVE FALSE
  BY <1>6
<1>7. ASSUME \/ \E c \in Change : Announce(c) \/ Receive(c)
             \/ ReceiveLagged \/ TakeChanges \/ ImpactedStopped \/ BuildRun \/ RunJoined
             \/ UNCHANGED <<repoVars, eventVars, client, changed, runVars, watched>>
             \/ AllStopped
      PROVE  UNCHANGED work
  BY <1>7 DEF Announce, Receive, ReceiveLagged, TakeChanges, ImpactedStopped, BuildRun,
     RunJoined, AllStopped, runVars
<1> QED
  BY <1>2, <1>3, <1>4, <1>5, <1>6, <1>7, LoopFrames

\* Only its run makes a task fresh.
LEMMA FreshSteps ==
  ASSUME TypeInv, WatchNext, NEW t \in Task, work'[t] = "fresh", ~RunTask(t)
  PROVE  work[t] = "fresh"
<1>1. work \in [Task -> {"stale", "fresh", "failed"}]
  BY DEF TypeInv, RunsType
<1>2. ASSUME \/ \E p \in Package : EditPackage(p)
             \/ \E p \in Optional : EditWorkspace(p)
      PROVE  work[t] = "fresh"
  BY <1>2 DEF EditPackage, EditWorkspace, Outdate
<1>3. CASE RunFails
  BY <1>3 DEF RunFails
<1>4. ASSUME NEW u \in Task, RunTask(u) PROVE work[t] = "fresh"
  BY <1>1, <1>4 DEF RunTask
<1>5. ASSUME \/ \E c \in Change : Announce(c) \/ Receive(c)
             \/ ReceiveLagged \/ TakeChanges \/ ImpactedStopped \/ BuildRun \/ RunJoined
             \/ UNCHANGED <<repoVars, eventVars, client, changed, runVars, watched>>
             \/ AllStopped
      PROVE  UNCHANGED work
  BY <1>5 DEF Announce, Receive, ReceiveLagged, TakeChanges, ImpactedStopped, BuildRun,
     RunJoined, AllStopped, runVars
<1> QED
  BY <1>2, <1>3, <1>4, <1>5, LoopFrames

\* What is to be done is done by the run of the task, or by its failure.
LEMMA TodoSteps ==
  ASSUME TypeInv, PlaceInv, WatchNext, NEW t \in todo \ todo'
  PROVE  RunTask(t) \/ work'[t] = "failed"
<1>1. t \in Task
  BY DEF TypeInv, RunsType
<1>2. CASE RunFails
  BY <1>1, <1>2 DEF RunFails
<1>3. ASSUME NEW u \in Task, RunTask(u) PROVE u = t
  BY <1>3 DEF RunTask
<1>4. ASSUME \/ \E p \in Package : EditPackage(p)
             \/ \E p \in Optional : EditWorkspace(p)
             \/ \E c \in Change : Announce(c) \/ Receive(c)
             \/ ReceiveLagged \/ TakeChanges \/ ImpactedStopped \/ RunJoined
             \/ UNCHANGED <<repoVars, eventVars, client, changed, runVars, watched>>
             \/ AllStopped
      PROVE  UNCHANGED todo
  BY <1>4 DEF EditPackage, EditWorkspace, Announce, Receive, ReceiveLagged, TakeChanges,
     ImpactedStopped, RunJoined, AllStopped, runVars
<1>5. CASE BuildRun
  BY <1>5 DEF BuildRun, PlaceInv
<1> QED
  BY <1>2, <1>3, <1>4, <1>5, LoopFrames

\* A whole rebuild runs every task of the workspace.
LEMMA RebuildRestarts ==
  ASSUME BuildRun, changed = {Rediscover}, UNCHANGED relevant, NEW t \in TasksOf(relevant)
  PROVE  Restarting(t)'
  BY DEF BuildRun, Restarting

\* No change is forgotten.
LEMMA StaleStep ==
  ASSUME TypeInv, EventInv, PlaceInv, StaleInv, WatchNext
  PROVE  StaleInv'
<1> SUFFICES ASSUME Looping', ~RediscoverComing',
                    NEW t \in TasksOf(relevant') \cap Restartable, work'[t] = "stale"
             PROVE  Heralded(t)' \/ Restarting(t)'
  BY DEF StaleInv, TasksOf
<1>1. /\ Looping /\ UNCHANGED relevant
      /\ ~RediscoverComing \/ (BuildRun /\ changed = {Rediscover})
  BY QuietBefore
<1>2. t \in TasksOf(relevant) \cap Restartable /\ t \in Task
  BY <1>1 DEF TasksOf
<1>3. CASE BuildRun /\ changed = {Rediscover}
  BY <1>1, <1>2, <1>3, RebuildRestarts
<1>4. CASE ~RediscoverComing
  <2>1. ASSUME RunTask(t) PROVE Heralded(t)' \/ Restarting(t)'
    <3>1. Done(t) = "stale"
      BY <1>2, <2>1 DEF RunTask, TypeInv, RunsType
    <3>2. Heralded(t)
      BY <1>1, <1>2, <1>4, <2>1, <3>1, StaleInputs
    <3> QED
      BY <1>1, <1>2, <1>4, <3>2, HeraldedStays
  <2>2. CASE work[t] = "stale"
    <3>1. Heralded(t) \/ Restarting(t)
      BY <1>1, <1>2, <1>4, <2>2 DEF StaleInv
    <3>2. CASE Heralded(t)
      BY <1>1, <1>2, <1>4, <3>2, HeraldedStays
    <3>3. CASE Restarting(t)
      <4>1. Restarting(t)' \/ t \in todo \ todo'
        BY <1>1, <1>2, <1>4, <3>3, RestartingStays
      <4> QED
        BY <2>1, <4>1, TodoSteps
    <3> QED
      BY <3>1, <3>2, <3>3
  <2>3. CASE work[t] # "stale"
    <3>1. CASE \E p \in Package : EditPackage(p) /\ t \in Dependents(TasksOf({p}))
      <4>1. PICK p \in Package : EditPackage(p) /\ t \in Dependents(TasksOf({p}))
        BY <3>1
      <4>2. p \in relevant' /\ p \in unannounced'
        BY <4>1 DEF EditPackage
      <4> QED
        BY <4>1, <4>2 DEF Heralded
    <3> QED
      BY <1>2, <2>1, <2>3, <3>1, WorkSteps
  <2> QED
    BY <2>2, <2>3
<1> QED
  BY <1>1, <1>3, <1>4

\* What was stopped for a change is not forgotten.
LEMMA RestartStep ==
  ASSUME TypeInv, EventInv, PlaceInv, InstanceInv, RestartInv, WatchNext
  PROVE  RestartInv'
<1> SUFFICES ASSUME NEW t \in Interruptible, work'[t] = "fresh"
             PROVE  \E r \in Runs :
                      /\ Latest(r, t)'
                      /\ Looping' /\ ~RediscoverComing' /\ t \in TasksOf(relevant') =>
                           dev'[r][t] \notin {"asked", "stopped"} \/ Restarting(t)'
  BY DEF RestartInv, TasksOf
<1>1. t \in Task /\ t \in Persistent /\ t \in Restartable
  BY ChangeTypes DEF Restartable
<1>2. /\ RunsType /\ 1 .. runs \subseteq Runs /\ Runs \subseteq Nat /\ InstanceMoves
  BY RunsFit, StepMoves DEF TypeInv
<1>3. CASE RunTask(t)
  <2>1. PICK r \in Runs : r = active /\ r = runs
    BY <1>2, <1>3 DEF RunTask, RunsType
  <2>2. dev'[r][t] = "dispatched" /\ \A s \in Runs : s # r => dev'[s][t] = dev[s][t]
    BY <1>1, <1>2, <1>3, <2>1 DEF RunTask, RunsType
  <2>3. \A s \in Runs : s > r => dev'[s][t] = "none"
    BY <1>1, <1>2, <2>1, <2>2 DEF InstanceInv
  <2> QED
    BY <2>2, <2>3 DEF Latest
<1>4. CASE ~RunTask(t)
  <2>1. work[t] = "fresh"
    BY <1>1, <1>4, FreshSteps
  <2>2. PICK r \in Runs :
          /\ Latest(r, t)
          /\ Looping /\ ~RediscoverComing /\ t \in TasksOf(relevant) =>
               dev[r][t] \notin {"asked", "stopped"} \/ Restarting(t)
    BY <2>1 DEF RestartInv
  <2>3. t \notin todo \ todo'
    BY <1>4, TodoSteps
  <2>4. Latest(r, t)'
    BY <1>1, <1>2, <2>2, <2>3 DEF Latest, InstanceMoves
  <2>5. ASSUME Looping', ~RediscoverComing', t \in TasksOf(relevant')
        PROVE  dev'[r][t] \notin {"asked", "stopped"} \/ Restarting(t)'
    <3>1. /\ Looping /\ UNCHANGED relevant
          /\ ~RediscoverComing \/ (BuildRun /\ changed = {Rediscover})
      BY <2>5, QuietBefore
    <3>2. t \in TasksOf(relevant) \cap Restartable
      BY <1>1, <2>5, <3>1
    <3>3. CASE BuildRun /\ changed = {Rediscover}
      BY <3>1, <3>2, <3>3, RebuildRestarts
    <3>4. CASE ~RediscoverComing
      <4>1. Restarting(t) => Restarting(t)'
        BY <2>3, <2>5, <3>1, <3>2, <3>4, RestartingStays
      <4>2. CASE dev[r][t] \notin {"asked", "stopped"}
        <5>1. \/ dev'[r][t] \notin {"asked", "stopped"}
              \/ client = "stopping" /\ t \in Impacted(changed)
          BY <1>1, <1>2, <4>2 DEF InstanceMoves
        <5> QED
          BY <4>1, <5>1 DEF Restarting
      <4> QED
        BY <2>2, <3>1, <3>2, <3>4, <4>1, <4>2
    <3> QED
      BY <3>1, <3>3, <3>4
  <2> QED
    BY <2>4, <2>5
<1> QED
  BY <1>3, <1>4

-----------------------------------------------------------------------------
(* The theorems.                                                           *)

\* The invariant holds initially.
LEMMA WatchInvInit == WatchInit => WatchInv
<1> SUFFICES ASSUME WatchInit PROVE WatchInv
  OBVIOUS
<1> USE DEF WatchInit
<1>1. LoopType
  BY ChangeTypes, FS_EmptySet DEF LoopType
<1>2. RunsType
  BY DEF RunsType
<1>3. CountInv
  BY FS_EmptySet DEF CountInv, Held, Taken
<1>4. EventInv
  BY DEF EventInv
<1>5. RediscoverComing
  BY DEF RediscoverComing
<1>6. RestartInv /\ StaleInv
  BY <1>5, ChangeTypes DEF RestartInv, StaleInv
<1>7. PlaceInv /\ InstanceInv /\ EndInv /\ OnceInv
  BY DEF PlaceInv, InstanceInv, EndInv, OnceInv, MayLive, Looping
<1> QED
  BY <1>1, <1>2, <1>3, <1>4, <1>6, <1>7 DEF WatchInv, TypeInv

\* Every step keeps the invariant.
LEMMA WatchInvNext == WatchInv /\ [WatchNext]_watchVars => WatchInv'
<1>1. ASSUME WatchInv, WatchNext PROVE WatchInv'
  <2> USE <1>1 DEF WatchInv
  <2>1. TypeInv'
    BY EventsKeepTypes, TurnsKeepTypes, StoppersKeepTypes, TasksKeepTypes, EndKeepsTypes
    DEF WatchNext, RunFuture
  <2>2. EventInv' /\ StaleInv' /\ RestartInv'
    BY EventsStep, StaleStep, RestartStep
  <2>3. PlaceInv' /\ InstanceInv' /\ EndInv' /\ OnceInv'
    BY PlacesStep, InstancesStep, EndsStep, OnceStep
  <2> QED
    BY <2>1, <2>2, <2>3
<1>2. ASSUME WatchInv, UNCHANGED watchVars PROVE WatchInv'
  <2> USE <1>2 DEF WatchInv, watchVars, repoVars, eventVars, loopVars, runVars, keptVars, procVars
  <2>1. TypeInv'
    BY DEF TypeInv, LoopType, RunsType, CountInv, Held, Taken
  <2>2. Looping' = Looping /\ RediscoverComing' = RediscoverComing
    BY DEF Looping, RediscoverComing
  <2>3. EventInv' /\ PlaceInv'
    BY <2>2 DEF EventInv, PlaceInv
  <2>4. \A t \in Task : Restarting(t)' = Restarting(t) /\ Heralded(t)' = Heralded(t)
    BY DEF Restarting, Heralded, Impacted, WatchScope
  <2>5. StaleInv' /\ RestartInv'
    BY <2>2, <2>4, ChangeTypes DEF StaleInv, RestartInv, Latest, TasksOf
  <2>6. InstanceInv' /\ EndInv' /\ OnceInv'
    BY <2>2 DEF InstanceInv, EndInv, OnceInv, MayLive, Clean
  <2> QED
    BY <2>1, <2>3, <2>5, <2>6
<1> QED
  BY <1>1, <1>2

\* The inductive invariant of watch mode.
THEOREM WatchInvariant == WatchSpec => []WatchInv
  BY WatchInvInit, WatchInvNext, PTL DEF WatchSpec

\* Type correctness; in particular there are never more runs than changes allow.
THEOREM WatchTypeCorrect == WatchSpec => []WatchTypeOK
<1>1. WatchInv => WatchTypeOK
  <2> SUFFICES ASSUME WatchInv PROVE WatchTypeOK
    OBVIOUS
  <2> USE DEF WatchInv, TypeInv
  <2>1. runs + Taken <= MaxChanges + 1 /\ 1 .. runs \subseteq Runs
    BY RunsFit
  <2>2. runs \in 0 .. MaxChanges + 1
    BY <2>1, ChangeTypes DEF RunsType, Taken
  <2> QED
    BY <2>1, <2>2 DEF LoopType, RunsType, WatchTypeOK
<1> QED
  BY <1>1, WatchInvariant, PTL

\* When the loop is idle no task is out of date.
THEOREM IdleLoopIsFresh == WatchSpec => []IdleIsFresh
<1>1. WatchInv => IdleIsFresh
  BY DEF WatchInv, EventInv, StaleInv, Idle, Looping, RediscoverComing, Heralded, Restarting,
     IdleIsFresh
<1> QED
  BY <1>1, WatchInvariant, PTL

\* When the loop is idle what was stopped for a change runs again, or has ended by
\* itself.
THEOREM StoppedTasksRestart == WatchSpec => []StoppedIsRestarted
<1>1. WatchInv => StoppedIsRestarted
  <2> SUFFICES ASSUME WatchInv, Idle, NEW t \in Interruptible \cap TasksOf(relevant),
                      work[t] = "fresh"
               PROVE  /\ Instances(t) # {}
                      /\ dev[Max(Instances(t))][t] \notin {"asked", "stopped"}
    BY DEF StoppedIsRestarted
  <2>1. ~Restarting(t) /\ Looping /\ ~RediscoverComing
    BY DEF Idle, Looping, RediscoverComing, Restarting, WatchInv, EventInv
  <2>2. PICK r \in Runs : Latest(r, t) /\ dev[r][t] \notin {"asked", "stopped"}
    BY <2>1 DEF WatchInv, RestartInv
  <2>3. r \in Instances(t) /\ \A s \in Instances(t) : s \in Nat /\ r >= s
    BY <2>2, RunsFit DEF Latest, Instances, WatchInv, TypeInv
  <2>4. Max(Instances(t)) = r
    BY <2>3 DEF Max
  <2> QED
    BY <2>2, <2>3, <2>4
<1> QED
  BY <1>1, WatchInvariant, PTL

\* A persistent task that is not interruptible never runs twice at a time.
THEOREM PersistentTasksRunOnce == WatchSpec => []PersistentRunsOnce
<1>1. WatchInv => PersistentRunsOnce
  <2> SUFFICES ASSUME WatchInv, NEW t \in Persistent \ Interruptible
               PROVE  Cardinality({r \in Runs : Alive(r, t)}) <= 1
    BY DEF PersistentRunsOnce
  <2> DEFINE S == {r \in Runs : Alive(r, t)}
  <2>1. \A r \in S : MayLive(r, t)
    BY DEF WatchInv, InstanceInv, Alive, MayLive
  <2>2. \A r, s \in S : r = s
    BY <2>1 DEF WatchInv, OnceInv
  <2>3. S = {} \/ \E r : S = {r}
    BY <2>2
  <2> HIDE DEF S
  <2>4. S = {} => Cardinality(S) <= 1
    <3>1. Cardinality({}) = 0
      BY FS_EmptySet
    <3> QED
      BY <3>1
  <2>5. (\E r : S = {r}) => Cardinality(S) <= 1
    <3>1. \A r : Cardinality({r}) = 1
      BY FS_Singleton
    <3> QED
      BY <3>1
  <2>6. Cardinality(S) <= 1
    BY <2>3, <2>4, <2>5
  <2> QED
    BY <2>6 DEF S
<1> QED
  BY <1>1, WatchInvariant, PTL

\* When the client has exited no task runs but those a dropped drain lost.
THEOREM ExitLeavesNothingBehind == WatchSpec => []ExitLeavesNothing
<1>1. WatchInv => ExitLeavesNothing
  <2> SUFFICES ASSUME WatchInv, client = "exited", NEW r \in Runs \ lost, NEW t \in Persistent
               PROVE  dev[r][t] \notin {"running", "closing"}
    BY DEF ExitLeavesNothing
  <2>1. CASE r \in 1 .. runs
    BY <2>1, RunsFit DEF WatchInv, PlaceInv, EndInv, Looping, Clean
  <2>2. CASE r \notin 1 .. runs
    BY <2>2 DEF WatchInv, TypeInv, RunsType, Runs, InstanceInv
  <2> QED
    BY <2>1, <2>2
<1> QED
  BY <1>1, WatchInvariant, PTL
=============================================================================
