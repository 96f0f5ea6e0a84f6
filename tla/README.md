# Verification of the task runner under `src/crates`

The repository is the Gaming Guide HUD: a small desktop scaffold
(`src/apps/desktop`, window placement) on top of a fork of Turborepo. The program
with logic of its own is the task runner in `src/crates` (Rust, tokio): it builds
a graph of tasks, walks it, runs the tasks as child processes, caches what they
produce, and does so once (`run`), again on every file change (`watch`), or with
the help of a daemon. This directory holds TLA+ models of its concurrent core,
TLC runs on small instances, and TLAPS proofs for all instances.

Paths below are relative to `src/crates`.

## 1. Inventory

How the parts interact in one run:

```
 signals ──alerts──> run ──close(mode)──> process manager ──> child actors ──> processes
   ^                  │  └─start_shutdown─> async cache ─────> uploads
   │ Ctrl-C           v                          ^
   └── TUI        visitor <──tasks── engine      │ put
                      │               │          │
                      └─> executors ──┴─answers  │
                            └──────outputs───────┘
                                  engine <──nodes/callbacks──> walker
```

| Component | State it keeps | Operations | What is hard | What makes it correct |
|---|---|---|---|---|
| Graph walker, `turborepo-graph-utils/src/walker.rs` | per node: a tokio task, a broadcast channel, a oneshot; one cancel watch | `new`, `walk`, `cancel`, `wait` | a cancel races with the last answer inside one poll; dropped callbacks; dropped receiver | order of nodes; skips have a cause; the walk ends |
| Engine, `turborepo-engine/src/execute.rs` | workers, a semaphore, the visitor's channel | `execute` | early returns holding a permit; stop of all tasks racing with workers; visitor leaves | bounded concurrency, order, result, termination |
| Visitor and executor, `turborepo-lib/src/task_graph/visitor`, `turborepo-task-executor/src/exec.rs` | task futures, errors, tracker | dispatch, execute, answer, save outputs | dispatch errors; restart vs. shutdown; outputs saved after dependents started | the exit code is the truth; nothing outlives the run; a halt ends it |
| Process manager and children, `turborepo-process` | map of children, `is_closing`; per child: an actor, a command slot, an exit watch, `closing` | `spawn`, `stop`, `shutdown`, `kill_all`, `wait`, `stop_tasks` | overlapping closes, processes that ignore signals, descendants | nothing runs after a close; exits mean what they say |
| Write-behind cache, `turborepo-cache/src/async_cache.rs` | request channel, worker loop, writers | `put`, `wait`, `start_shutdown`, `shutdown` | full channel, no permit, shutdown drops queued requests | accepted writes are written, or a shutdown explains it |
| Cache back ends, `turborepo-cache/src/multiplexer.rs` | a flag that turns the remote cache off | `put`, `fetch`, `exists` | the flag changes during calls | a refused remote write does not fail a local one |
| Signal handler, `turborepo-signals/src/lib.rs` | reason, count, subscribers, close slot | `subscribe`, `close`, `done`, `started`, `signal_started`, `notify_signal` | subscription and wake-up races | cleanup before done; no lost wake-up |
| Run and command, `turborepo-lib/src/run/mod.rs`, `commands/run.rs` | handles of all of the above | graceful and forced shutdown | timeout, second signal and end of run race | the command ends, children gone, cache flushed; forced only on request |
| Watch mode, `turborepo-lib/src/run/watch.rs` | `pending_changes`, active runs | merge changes, stop impacted tasks, rerun | change while stopping; lagged events | no change lost, no overlap of a task with itself |
| Debouncer, `turborepo-filewatch/src/debouncer.rs` | a serial under a mutex, a stored notification, a timer | `bump`, `debounce` | bump, notification and timer in any order | a bump that was accepted is waited out; the wait ends |
| Package watcher, `turborepo-filewatch/src/package_watcher.rs` | list of workspaces, the filter's globs, a pending discovery with its version | handle events, errors, lost events, results of discoveries | changes while a discovery reads; results that are stale; a filter that is | discoveries do not overlap; what is published is current |
| Cookies, `turborepo-filewatch/src/cookies.rs` | serial, last cookie seen, requests held | cookie request, `get`, `get_immediate`, `CookieWatcher` | cookie event against the change it covers; dropped events | an answer reflects every change before the request |
| Hash watcher, `turborepo-filewatch/src/hash_watcher.rs` | a table of specs with versions, computations, a dynamic scope, queries held | changes, discoveries, queries, updates | a change during a computation; a spec that is new to the scope | hashes in the table and in answers are current; queries are answered |
| Glob watcher, `turborepo-filewatch/src/globwatcher.rs` | registrations pending and active, statuses of globs, requests held for a cookie | register, query, cancel, file events, lost events | a registration against changes, timeouts and its own replacement | a glob reported unchanged is unchanged |
| Daemon, `turborepo-daemon`, `turborepo-pidlock` | pid file, socket, idle timer | start, connect, kill, bump | stale pid file, two starters, a kill of a daemon that was replaced meanwhile | one daemon; kills hit who they are meant for; connects end |
| Analytics, telemetry (not modelled) | buffered events | track, flush, close | timer against close | buffered events are sent |
| Log grouping, `turborepo-log/src/grouping.rs` (not modelled) | buffers per task | stream, finish | a task ends while another streams | bytes of a task stay together |
| Graph construction, hashing, scope, configuration, package graph, SCM, globs, UI, proxies, auth, TypeScript tools | data | sequential functions, I/O | — | not state machines; see section 7 |

`PROJECT.json` lists every component with its status, and under `hazards` each
place in this code where something goes wrong that a test would hardly reach.

## 2. Modules

| Module | What it models | Composition |
|---|---|---|
| `Walker` | walker.rs, every node task; the caller is the environment | |
| `TaskSchedule` | abstract: what the engine promises about order and concurrency | |
| `EngineExecute` | `Engine::execute` and its workers; the visitor is the environment | EXTENDS `Walker`; implements `TaskSchedule` |
| `ChildProcess` | child.rs, state.rs, shutdown.rs, handle.rs: one actor per child, and its process | |
| `ProcessContract` | abstract: what the process manager promises those who run processes with it | |
| `ProcessManager` | lib.rs of the process crate: overlapping closes and stop_tasks | EXTENDS `ChildProcess`; implements `ProcessContract` |
| `AsyncCache` | the cache's worker loop, its writers and its callers | |
| `SignalHandler` | the signal worker, subscribers, closers, waiters | |
| `Debouncer` | debouncer.rs | |
| `PackageWatcher` | package_watcher.rs, with its subscription (lib.rs) and its readers' cookies (cookies.rs); the file system is the environment | |
| `TaskRun` | visitor, executors and the end of a run; the cache by what it promises | EXTENDS `TaskSchedule`, which `EngineExecute` implements; its processes are those of `ProcessContract` |
| `RunShutdown` | the run command, its two shutdown handlers, processes and cache | EXTENDS `SignalHandler`; its process keeps `ProcessContract` |
| `WatchLoop` | watch.rs with the graph operations it uses; the inside of a run as `TaskRun` shows it | |
| `HashWatcher` | hash_watcher.rs; the file system, the package watcher and the clients are the environment | |
| `GlobWatcher` | globwatcher.rs with `CookieWatcher` (cookies.rs); the callers with their timeouts | |
| `Daemon` | pid lock, socket, life of a daemon, connector, stop and clean; several daemons and clients | |
| `EngineExecuteProofs` | theorems on the walker and the engine | EXTENDS `EngineExecute` |
| `GlobWatcherProofs`, `TaskRunProofs`, `WatchLoopProofs` | theorems | EXTEND their model |
| `ProcessCacheProofs` | theorems on what the end of a run waits for, its processes and its cache writes | EXTENDS `ProcessManager`, `AsyncCache` |
| `RunShutdownProofs` | theorems on the signal handler and the run | EXTENDS `RunShutdown` |
| `HashWatcherProofs` | theorems on the hash watcher and the debouncer | EXTENDS both models |
| `DaemonProofs` | theorems on the daemons and the package watcher they host | EXTENDS both models |
| `MC*` | constants of the TLC instances | EXTEND the model |

Operators whose comment starts with "Mutant:" are not used by any specification:
each is a plausible bug of the definition below it, and shows that a property
can tell it from the code.

### Walker

One tokio task per node: `task[n]`. The first poll of its `biased` `select!` is
two actions, because other threads run between the polls of its two branches:
`PollCancel` reads the watch channel, then `PollDepsPending`, `PollDepsSkip` or
`PollDepsEmit` reads the dependencies' broadcasts. `callback[n]` is the
`(node, oneshot)` message: queued, held by the caller, then what it said.
`signal[n]` is what the broadcast channel of n delivers (one message at most,
then closed, so a late subscriber reads the same). The results of `join_all` are
read in edge order, which the model leaves open. The node channel has room for
every node (walker.rs:54), so a send fails only when the receiver is gone.

### EngineExecute

`engine` is the main loop, `worker[n]` the spawned worker of a node, `permits`
the semaphore, `message[n]` the message to the visitor and then its answer.
`SpawnWorker` is `nodes.recv()`, `EndWorker` sends or drops the walker's callback
and releases the permit, in one step: nobody can see the order of the two. A
match guard calls `walker.cancel()`, and only then is the callback sent:
`ResultStopsAll` and `ReportAfterCancel`. The cycle check at the top of `execute`
is the assumption `AcyclicAssumption`. The visitor's channel has `Capacity`
slots; `Visitor::visit` makes it as large as the concurrency.

`TaskSchedule` has a status per task and `over`; the refinement mapping reads
both from `message` and `engine`.

### ChildProcess and ProcessManager

`code[c]` is the operating-system process, `orphans[c]` the kinds of descendants
that outlive it in its process group, `actor[c]` the tokio task that owns it,
with the same split of a `biased` poll as in the walker; `queue[c]` is the command
channel with its one slot, `exit[c]` the watch channel. A graceful shutdown sends
SIGINT and waits for the process (`graceful`), then, on a pseudo-terminal
(`Pty`), for the descendants it noted before the signal (`descendants`), then for
the process group (`group`); in all three waits a kill is obeyed, a second
shutdown is received and dropped, and the deadline, if any, kills. Descendants
are told apart only by whether the shutdown noted them: "captured" or "other".
A process may exit on its own, exit with or without descendants, or ignore SIGINT
for ever. `CleanUp` is the SIGKILL to the group by who piped the outputs of a
child that succeeded. A system call that fails is reported as `failed`; the
process is taken to be gone.

The manager's mutex makes `Spawn`, `BeginClose` and `BeginStopTasks` atomic;
everything else of a call happens in its futures `closer[k][c]`, outside the
mutex. `close` clears the map at its end (`Return`), `stop_tasks` removes its
children from the map at its beginning.

`ProcessContract` is what a caller sees of all this: per process whether it runs, which of
close and stop_tasks reached it, and how it ended, which after a stop tells the one from
the other (`Child::closing`). `SeenProcess` is the refinement mapping: a process has ended
when its exit is published, and is "stopping" when a stop_tasks took it, "closing" when it
carries the flag of a close. `ImplementsContract` is a property of the run `process`.

### AsyncCache

`accepted` is the channel's history and `received` the position of the worker
loop in it; what lies between is in the channel, `Workers` slots at most. A call
that sends waits for a slot (`sending`). `loop` follows the worker: it awaits a
permit for a write, or the writers for a flush; a shutdown, or the last handle
going away, ends it, drops the channel with what is in it, signals that the
shutdown began, awaits the writers, signals that it is complete. `put` returns Ok
when its request is accepted.

### SignalHandler

`worker` follows the task: select, store the reason, `notify_waiters`, drain the
subscribers under the mutex, wait for the guards. The steps between are
observable: a subscriber, a closer or a waiter may act at each of them.
`waiter[o]` separates the creation of the `Notified` future, the check of the
reason, and the await, because the correctness of `started` rests on their order.

### Debouncer

`debounce` is where the task is: between the branch that `select!` took and the
lock of the mutex (`notified`, `timeout`) other threads may bump. `open` says that
the serial is still `Some`. `covered` is history: the deadline was set after the
last accepted bump. Time is left out: the deadline may pass at any moment after
it was set, which is every duration of the timeout.

### PackageWatcher

The disk is `manifest`, the set of workspaces the root files declare (or
`Invalid`), and `files`, which of the interesting files exist in which workspace.
A change appends an event to `raw`; `RouteEvent` applies the filter as it is at
that moment and sends to the watcher's channel `events`, which drops its oldest
event when it is full and remembers that it did (`lagged`). The watcher's task is
`HandleFileEvent`, `HandleLag` and `HandleDiscoveryResult`; `pending`, `version` and
`rerun` are its `State`, `data` the published list. A discovery is a record in
`tasks`: its debounce, the search for package.json files, the search for
turbo.json files and the read of the globs are separate steps, since the disk may
change between them. The debounce itself is the first of them, its window open
to bumps until it closes at any time; that nothing is lost when it closes is what
`Debouncer` checks. A reader writes a cookie, waits for its event to be handled,
waits for a list, and borrows it in a step of its own.

`unseen` and `changed` are history: the workspaces with an event the filter
dropped since the last discovery started to read, and for a reader what changed
since it asked. They delimit what `PublishedIsCurrent` and `AnswersAreFresh` can
promise; the finding `NoWorkspaceMissed` is the promise without the first.

### TaskRun

The engine is its abstract schedule: `status[t]` says what it did about a task,
`EngineStep` is a step of `TaskSchedule`. `visitor` follows `Visitor::visit` and the
end of `execute_visitor`: the receive loop, the join of the engine and then of the
tasks, `processes.stop()`, the exit code. `exec[t]` follows one `TaskExecutor`,
`outcome[t]` is what `execute_inner` returned, `process[t]` its process as
`ProcessContract` has it, whose operators the actions use (`Contract!Spawn`,
`Contract!Close`): after a close its executor reports a shutdown, after `stop_tasks` a
restart. The callback (`Report`), the save and
the stop of the manager are separate steps in the order of the code, so that
dependents and an interrupt get between them. A spawn or a restore may fail, piping
the outputs may fail while the process lives, a dispatch may fail at any task, a
signal may close the manager at any moment. In a watch run a persistent task is
detached and not joined.

### RunShutdown

`command` is `wait_for_run_cleanup_on_signal`, `run` the run future, `handler[h]` the
two shutdown handlers that subscribe while the run is built; signals, subscribers and
waiters are those of `SignalHandler`, whose constants it instantiates with the two
handlers, one closer and one waiter. The tasks are one process, whose end ends the
run (`HaltEndsRun` of `TaskRun`); it tells a process with a deadline from one without, which
`ProcessContract` does not, and `SeenProcess` maps it there. The cache is an upload and the promise of
`AsyncCache` that a shutdown waits for it. `interactive` is whether the timeout of a
forced shutdown exists. A handler is `patient` while nothing can force it: when it
was alerted by a close and not by a signal.

### WatchLoop

`start` runs two futures under one `select!`: `Receive` is the event future, which
merges a change into `pending` and notifies (`permit`); `client` follows the run
future, with each await of a stopper (`awaiting`) a step that may be interrupted.
Runs are numbered; the active one runs its `todo` in the order of the graph,
`closed[r]` is its process manager, `dev[r][t]` its instance of a persistent task,
`background` the stoppers kept for those. `work[t]` is history: whether the last run of t saw
the last change that concerns it. The graph searches of the engine are closures: a task
reaches what is in every set that holds it and what its members depend on. Signals and a failing build drop the futures wherever they
await (`Interrupted`, `BuildFails`), and the shutdown stops what the client still
knows of; `lost` is what a dropped drain took along.

### HashWatcher

A file event passes from `sending` to `channel` if it is in the scope when it is sent.
The subscriber's `select!` is biased: discovery, events, updates, queries, which the
guards of its actions repeat. An entry of `hashes` is pending with the version of the
job it waits for; a change of a pending entry bumps the job's debounce or, after it,
sets `rerun`. `PrepareInputs` and `InputsPrepared` are the two halves of a query for inputs the
scope does not have yet: the loop awaits a flush of the watcher between them. A job reads the files
in one step. Only what a job reads and when matters after it was sent.

### GlobWatcher

A call of `watch_globs` adds its registration to `pending`, writes a cookie, sends its
request, waits, may time out and then waits until the tracker has processed its cancellation. The
tracker's loop is biased: control, requests, file events. `held` is
`pending_requests` of `CookieWatcher`, `ready` what a cookie released;
`HandleQuery` and `CommitRegistration` are the two steps of a registration, between
which the caller may set `cancelled`. The registration's include set shrinks as its
globs change; `statuses` is the inverse index. `dirty` and `asked` are history: the
globs that changed since a registration was confirmed, and that set when a query's cookie was
written. `MaxWrites` and `MaxLosses` bound changes and losses.

### Daemon

`pidfile` is created (`create_new`) and written in two steps, as in pidlock; a process
that read a dead pid removes the file in a later step, when it may be another's. A
daemon goes from `starting` over the lock and the bind to `serving`, may be told to
close, and releases. A client follows `connect`: find the owner or start a daemon,
wait for the pid file and the socket, connect, handshake, and on a version that does
not match or a dead server stop or kill it and try again, `RetryMax` times. Time is
left out: every wait and every request may time out, the request to stop also when the
server received it (`RequestShutdown`), and may fail in any other way. What follows
depends on which it is: a stop without an answer is a `kill_dead_server` and then the
wait, a wait for the pid file's end that fails is a `kill_dead_server` and the next turn
(`WaitFails`), an error of the watcher before is the next turn, a timeout of a wait ends
connect. `kill_dead_server` kills the owner of the pid file if it is the one that was
found; another owner is an error, or none if it started after the processes were
listed. A daemon may end before it asks for the lock (`SetupFails`), and when the bind
fails it drops the lock. A `Cleaner` removes the files afterwards. Any daemon may crash
at any step, `MaxCrashes` times; a write of the pid file that fails is such a crash.
`died` and `snatched` are history.

## 3. Runs

| Run | Instance | What it shows |
|---|---|---|
| `engine` | root node, `lib`, `util`, `docs`, and `web` that needs `lib` and `util`; 2 permits, 2 slots; any answer; visitor may leave | room in the channel, completeness, refinement of `TaskSchedule` (and with it order and concurrency), termination; it contains the walker |
| `task_run` | `lib`, `app` that needs it, persistent `dev`; `lib` and `dev` in one serial group; every continue mode, and a watch run; 2 permits | the exit code, nothing left behind, no save behind a failure, a halt ends the run |
| `process` | 1 child on a pseudo-terminal, 3 overlapping calls of any kind | what a returned call and a published exit guarantee; bounded calls return; refinement of `ProcessContract` |
| `cache` | 3 writes, 1 flush, 2 shutdowns, 2 workers | which writes are written, lost, waited for; every call returns |
| `run_shutdown` | both handlers, 3 signals, with and without a terminal | what is left when the command exits, what forces, that force ends it |
| `package_watcher` | 2 workspaces, one always declared, invalid root files, 2 changes or errors, 2 slots, 1 reader | published lists and answers are current, the reader is answered |
| `watch` | a library and an application that joins and leaves; two builds, an interruptible server, a database; 2 changes, 1 signal | nothing is stale or stopped when idle, nothing that must survive is started twice, nothing is left at exit |
| `hash_watcher` | 1 package, default and extended inputs, 2 changes, 1 loss or rediscovery, 1 query | current hashes, current answers, answers at all |
| `glob_watcher` | 2 registrations of one hash, 2 globs that overlap, 1 exclusion, 1 query, 1 change, 1 loss | unchanged means unchanged, requests are answered |
| `daemon` | an old daemon and 2 of the new version, a run and a restart, 1 crash, 2 tries | one owner, files of the living kept; who is killed was found or started by the killer, whose server had gone or had another version; connects end |
| `run_signal` | as `run_shutdown` | finding: a signal while the run is built starts no clean-up |
| `watch_restart` | as `watch`, with a server that does not depend on the library | finding: the server runs twice |

The type invariant of each module is a definition of it; the theorems of section 4
have it where there is a proof, and the configurations of section 8 check others.

Why the bounds are enough. In `engine`, three tasks are ready at once and two
permits exist, so that a worker waits for a permit while others are answered,
fail to send, or stop the run; `web` sees its two dependencies end differently;
one level of dependents suffices, since order is inductive over edges (and is
proved). In `task_run` a task has a dependent, a neighbour that runs beside it and
waits for the same lock, and one that never ends by itself; more tasks repeat these
relations. In `process`, three calls fill the slot of a child's commands with a
command behind the one that is obeyed; a second child, for a stop_tasks that takes one
and leaves the other, is what the theorems are for. In `cache`, six
requests on two workers and two slots fill the channel and the semaphore at the
same time, and two shutdowns race. In `run_shutdown` the second signal forces, the
third is the first that comes after it; both handlers are there. In
`package_watcher` two changes put one before and one during a discovery, or one
in each of two, and with a cookie they overflow two slots. The
channel of the program has 1024. In `watch`, two changes let one fall into the
stopping or building for the other, and make three runs with the first. In
`hash_watcher` a second change falls into the computation for the first; inputs
that cover an ignored file make the scope matter. In `glob_watcher` the second
registration of a hash replaces, races with and outlives the first; one change at
any moment is enough for a wrong "unchanged". In `daemon`, two clients compete, each
may start a daemon of its own beside the old one, and one of the three dies.
`MaxSignals`, `MaxBumps`, `MaxChanges`, `MaxUpsets`, `MaxWrites`, `MaxLosses` and
`MaxCrashes` bound signals, bumps, changes, upsets, losses and crashes; they are the
only bounds on counters. Symmetry is not used.

Deadlock checking is off everywhere: walks, runs, closes and shutdowns end, and
then nothing is left to do. What must not hang is stated as liveness.

### Fairness

Weak fairness on the steps of every tokio task: the runtime polls a task that
was woken and fires timers that are due. In addition:

- Walker, engine: the caller goes on receiving and answers what it holds; nobody
  has to cancel or leave. `execute` demands that of its visitor (execute.rs:67).
- Process manager: no fairness for processes: none has to exit by itself or on
  SIGINT. Nobody has to call anything.
- Cache: an upload ends (`http.rs` retries a bounded number of times); strong
  fairness of a send, because tokio's channel serves waiting senders in order.
- Signals: an alerted subscriber drops its guard in the end; a subscriber that
  was not alerted need not. In `RunShutdown` the subscribers are the handlers and
  there is no such assumption: a handler waits for processes and uploads that need
  not end, until it is forced.
- Task run: a process that was told to stop ends, at the latest killed after its
  timeout (which is what `BoundedCallsReturn` checks of the manager); no process has
  to end by itself, no cache has to hit, nobody has to interrupt.
- Run shutdown: a process ends for certain only if it was interrupted with a
  deadline, or killed. Fairness of `Forced` without a terminal is the timer.
- Watch: the watcher announces a change, a run whose manager was closed fails, a
  stopped process ends. Nobody has to edit, interrupt or fail.
- Hash watcher, glob watcher: what was seen is sent; a computation that was started ends
  (a panic in it would leave its entry pending, and is not modelled). No caller has
  to give up, none has to ask.
- Daemon: a daemon that starts or releases goes on, and a client does; no daemon has
  to be closed or to crash, every wait of a client has a timeout, and the wait for the
  end of a server need not fail in any other way (`WaitFails` has no fairness).
- Debouncer: the timer fires, and a branch of `select!` that is ready is taken.
- Package watcher: nobody has to change a file, ask, or give up. That a list is
  published after the last change rests on the number of cookies being finite
  as well: the event of a cookie, too, makes the running discovery stale
  (package_watcher.rs:598), and a caller that asks again and again can put the list
  off again and again.

### Findings

Places where the code and its documentation, comments or tests disagree.
The first two are runs; for the others a configuration is kept beside them, which shows
the disagreement in the same way (section 8).

- `FirstSignalStartsCleanup`: README.md:24 of turborepo-signals says "The first signal
  starts cleanup". While the run is still being built its handlers have not
  subscribed; the signal handler then refuses them (run/mod.rs:829, 935), they
  return, and the tasks are started and run to their end: the run future is kept
  alive (commands/run.rs:29), and later signals force nothing.
- `InterruptibleRunsOnce`: watch.rs:539-541 stops impacted tasks first, which "prevents
  concurrent builds of the same package". What is started again is every task of an
  impacted package, impacted or not: an interruptible task that was not stopped runs
  twice.
- `NoTaskSentAfterStop`: execute.rs:63-66 promises that a stop "will stop
  scheduling new tasks". A worker that already holds its node, waiting for a
  permit or for room, never looks at the cancel and sends its task.
- `NoDependentAfterAllTasks`: the test at execute.rs:256 asserts that no dependent
  of the task that stopped all tasks is visited. The cancel can arrive between
  the two polls of the dependent's task, with the answer right behind it.
- `StopReturns`: lib.rs:254-256 of the process crate says that two closes with
  different strategies both reach the children. A stop behind `shutdown(None)`
  is received and dropped, its deadline with it; it waits as long as the process
  ignores SIGINT. `kill_all` does get through (`BoundedCallsReturn`).
- `NoChildAfterClose`: lib.rs:244 promises that all children have exited. Children
  a concurrent `stop_tasks` has taken from the map are not waited for.
  `ReturnedMeansExited` is what does hold.
- `KilledTreeIsGone`: shutdown.rs:31 says that a graceful shutdown escalates to a
  kill, which is one of the process group (handle.rs:1090). While the noted
  descendants of a child on a pseudo-terminal are waited for, it only reaches
  those.
- `NoWorkspaceMissed`: package_watcher.rs:299-302 says events "keep the package data
  up to date". The filter has the globs of the last discovery until the next is
  handled, and drops what changes meanwhile where those do not look.
- `ErrorIsCurrent`: package_watcher.rs:56-58 takes an error for a change half made.
  When a workspace had both turbo.json and turbo.jsonc, the rest of the change is
  filtered away or ignored, and the error stays.
- `SomeRefIsSome`: optional_watch.rs:14 says a `SomeRef` is known to be Some.
  `get_inner` borrows a second time after its wait, and the watcher may have
  reset the value; the deref is then `unreachable!`.
- `ReadersAnsweredDespiteLag`, with a full channel: package_watcher.rs:161 says a blocking
  reader is told "unavailable" if its dependencies never resolve. A cookie that
  was dropped is never registered, and the wait has no timeout.
- `SerialGroupRunsAlone`: exec.rs:392-399 says that the guard of a serial group "is held
  until the process exits". It is held until `execute_inner` returns: when piping the
  outputs fails, the process runs on and the next of the group starts beside it.
- `AcquiredMeansInFile`: the doc of pidlock says a lock is acquired when the file
  exists with the pid of the process that locks. After a crash two processes may both
  read the dead pid; the slower one removes the file of the faster, which goes on
  without it. `OwnersExclude` and `LiveFilesAreKept` are what does hold: it takes a
  daemon that died or a clean.

Behaviour that is worth knowing, though no document denies it:

- Under `--continue=never` a dependent of a failed task may be started, and saved,
  before the stop: the dependents are told to stop after the callback, the manager
  after the save.
- After a dispatch error the visitor joins all tasks it started before anybody stops
  the manager. With a persistent task among them the run does not return until it is
  interrupted.
- A signal during the drain of the background stoppers of watch mode loses those not
  reached yet; their persistent tasks outlive the client (`ExitLeavesNothing`
  excludes them by name). A task that is spawned late, after `stop_tasks` of its run,
  survives it.
- What changes between a task's registration of its globs and the return of
  `watch_globs` can be missed: the cookie's event may overtake its request, and a loss
  of events spares registrations that are pending.
- A daemon that dies between creating its pid file and writing it makes every later
  connect fail with an invalid pid file, until somebody cleans.
- `kill_live_server` whose wait times out ends the connect; `kill_dead_server` may kill the healthy
  daemon a client had just started when it reached the old one's socket.
- A request to stop that is not answered within a second is followed by a SIGKILL, though
  the server still serves, or is about to release its files. So `KillsAreAimed` does not
  say that the killed daemon had stopped, nor that it is the server that was asked.

## 4. Proofs

Every theorem is about the specification that TLC runs, for every value of the
constants that satisfies the named assumptions: a finite graph
(`GraphAssumption`), acyclic with roots that depend on nothing
(`AcyclicAssumption`, `EngineAssumption`), a positive concurrency and capacity;
a task for every child (`ManagerAssumption`), pseudo-terminals for some of them
(`PtyAssumption`); any number of bumps (`BumpAssumption`, a hypothesis of each theorem); root files that declare
workspaces or are invalid, a channel with a slot, and marks for "no globs", "no
list" and "failed" that are not mistaken for values (`WatcherAssumption`); calls of the
cache of one kind each (`CacheAssumption`); for the globs the types of what is
registered and asked (`GlobAssumption`); one daemon at most when the clients start, and
clients that are not daemons (`DaemonAssumption`); a run's graph in which every set of tasks has one that
depends on none of them (`TaskRunAcyclic`, the check for cycles that the engine makes); two different
handlers of the run (`RunShutdownAssumption`), which subscribe separately; for watch mode
that no task depends on a persistent one (`WatchAssumption`), which the engine validates; layouts and inputs of the
hash watcher (`HashWatcherAssumption`). `Child`, `Call`, `Workspace`, `Reader`,
the calls of the cache, globs, paths, registrations, daemons and clients may be infinite.

**The walker** (in `EngineExecuteProofs`). `WalkerInv` ties the three views of a node together: where its
task is fixes what its message and its broadcast can be (`TaskInv`); a broadcast
"continue" is an answer "finished" and nothing else (`SignalInv`); a node that
was sent had "continue" from every dependency (`DepsInv`). None of the
properties is inductive alone: order needs `SignalInv` to get from the
broadcasts it checks to the answers it speaks of. From it: `EmissionOrder`,
`FinalOutcomes`, `SkipsHaveReasons`, and from the last one `WalksAreComplete`.

**EngineExecuteProofs.** First, every step of the engine is a step of the
walker's caller (`EngineIsWalkerCaller`), so that the walker's theorems hold of
the walker inside the engine. `EngineInv` adds where each worker, its callback
and its message are relative to one another, and what the main loop knows.
`PermitsAreConserved` counts permits, a second invariant by induction over the
cardinality of the holders; `ConcurrencyIsRespected` and `SendsNeverWait` follow,
since what the visitor has is held by holders. `TaskOrder`, `ReturnsLast`,
`ResultIsMeaningful` follow from `EngineInv`; `RunsAreComplete` needs
`SkippedForAReason` of the walker besides. `EngineImplementsSchedule` maps
the initial state and every step, with the invariants and the count.

**The process manager** (in `ProcessCacheProofs`). `ManagerInv` says of a child that it publishes its exit
exactly when its actor returns, after the process, and that it shuts down only
when told to (`ChildInv`); that the map holds every running child no stop_tasks
took, and that a closing child is never taken (`MapInv`); and of a call that its
futures cover every child whose exit is not published and that was not taken (`CallInv`). From it:
`CallsAreComplete`, `ClosingFlagIsRight`, `StoppedTreesAreGone`, `ExitsAreFinal`.

`ManagerKeepsContract` shows that the manager implements `ProcessContract`, with one lemma
per kind of step. A step of a child's actor is a process that exits, one that is stopped, or
nothing the caller sees (`ChildStepKeepsContract`); that it is not stopped unasked is
`ChildInv`, that the flag then names who asked is `MapInv`. A close turns every child that runs into a
"closing" one, and leaves those a stop_tasks has taken, because a child that is not taken is in the
map until its exit is published: that is what `Unpublished` adds to `MapInv` and `CallInv`,
since a process may be over before its exit is known. `ReturnsKeepContract` adds that a
call returns only when the contract says so. `RunKeepsContract` and
`ShutdownKeepsContract` show the other side, that `TaskRun` and `RunShutdown` ask for nothing the
contract refuses, so that callers and manager meet in it as engine and run do in
`TaskSchedule`.

**The write-behind cache** (in `ProcessCacheProofs`). `ChannelInv` says that the channel takes a request once and that
what the loop has not received waits there; `LoopInv` and `ShutdownInv` where the
loop is, that it left at the first shutdown it received or, without senders, behind
the last request; `WriterInv` that a write it received is in its hands, with a writer,
or over. A flush covers a write because none is then in the other places
(`FlushCovers`); a write the channel drops lies behind the shutdown at which the loop
left (`LostOnlyBehind`), which both promises need: `ShutdownCovers` follows from it,
since the first shutdown has none before it.

**GlobWatcherProofs.** `HashInv` says that a hash is active with a registration of its own;
without it neither a commit nor an invalidation would keep the two indexes in step
(`StatusesStayTracked`). `CallInv` follows a registration through its request: one whose
caller gave up is marked before its cancel is sent, and the tracker is never about to
commit a marked one when it handles a cancel (`GivenUpStayGone`). `ChangeInv` is about changes.
A glob that changed since its registration was confirmed, and that the tracker still takes to be
unchanged, has its event in the two streams, or events were lost (`DirtyInv`); if a query was made
after the change, that event is ahead of every cookie that would let the query go, and none such was
handled (`AskedInv`). The cookies in the streams come in the order of their serials
(`SerialInv`), so that a request that is ready has all its changes behind it; the lemmas
`AheadAppend`, `AheadMove` and `AheadTake` carry an event through the streams. A registration
is committed once, before it is confirmed, so that a change is never counted for one
that is still to come (`ConfirmedInv`). `ReportedGlobsAreUnchanged` follows at the step
that answers a query.

**DaemonProofs.** `OwnerInv` says that a daemon that created the pid file finds it as it
left it, unless somebody was seen to remove it; it is inductive because every removal by
another than the owner is such a theft (`OwnersExcludeEachOther`). `OrderlyInv` says that
without a death or a clean the file is always that of a daemon that lives, so that
nobody finds it stale and no one removes it but its owner (`LiveFilesStay`).
`PeerInv` says what a client knows of the server it is connected to until it kills: one
that it asks to stop, or waits for, was refused for its version, whatever became of the
request; one that it looks to kill was refused, or was found gone, and then never serves
again (`ServedGoesOn`). `KillsHitTheirTarget` follows at the step that kills.

**The package watcher** (in `DaemonProofs`). `WatcherInv` has a conjunct for each part of
the state. All but `DiscoveryInv` are types; `DiscoveryInv` adds that every discovery has
the current version, that there is one exactly while the watcher is pending, that a list
or an error is there when it is not, and that what a discovery has found while it still
reads is a list. `DiscoveriesDoNotOverlap` follows. `KnowledgeInv` is about what the list
shows. It is stated for a set W of workspaces, that of a reader or of one workspace: the
list, or the discovery that will replace it, *knows* W if what it took from the disk so far
is as it is, or an event of W, of the root or an error is still in the channels, or events
were lost (`FreshInv`). A reader whose cookie was handled has the stronger form without the
channels (`CookieInv`), and what gets it from the one to the other is `OrderInv`: nothing
that was changed before a cookie was written lies behind it in `raw` and `events`. That is
shown by lemmas on two sequences of which the first takes, drops or passes on the head
(`OrderedTake`, `OrderedSkip`, `OrderedMove`). `PublishedListIsCurrent` and
`ReadersGetFreshLists` follow.

**TaskRunProofs.** `TaskRunInv` follows one task from its start to its answer: where its
executor is fixes its outcome (`ExecInv`), the outcome what the engine was told
(`ReportInv`) and what became of the process (`ProcessInv`), and a task that was started
found its dependencies done (`DependencyInv`). `VisitInv` and `CloseInv` say what the
visitor knows when the engine and the tasks are joined, and that only a failure or an
interrupt closes the manager: with them the exit code is the truth (`ExitCodeIsTheTruth`)
and nothing outlives the run (`NothingIsLeftBehind`). That an undisturbed run reaches every
task needs `TaskRunAcyclic`: a set of tasks that were not started has one with its
dependencies outside. `SavesInOrder` reads the order off `DependencyInv`. `RunFollowsSchedule`
shows that every step is one `TaskSchedule` allows; `EngineImplementsSchedule` shows that of
the engine, so that the two detailed models meet in the abstract one.

**RunShutdownProofs.** `SignalInv` is the invariant of the handler by itself: what the
worker has done so far (`Told`, `Woken`) bounds what a subscriber and a waiter can know. A
waiter that found no reason checked before the worker stored one, so that its `Notified`
exists when the worker notifies (`NoWakeUpIsLost`). `RunIsSignalCaller` shows that the run with its
handlers takes only steps the handler's specification allows, so that all of these hold of
the run (`RunLosesNoWakeUp`). `RunInv` adds what each handler knows of processes and uploads
(`HandlerInv`, `CleanInv`) and what the command waits for (`CommandInv`); `ExitIsClean` and
`ForcedOnRequest` follow. That a forced shutdown finds no process that was not told to end
(`CleanInv`) is what `ShutdownKeepsContract` needs.

**HashWatcherProofs.** `HashInv` is `TableIsCurrent` with what makes it inductive. The scope
of the subscription covers what the table tracks (`ScopeInv`), so that no event of it is
dropped; versions identify jobs, and a pending entry has its job (`JobsInv`); and the update
such a job has sent, unless a rerun will replace it, is of the present files or an event is
on its way (`UpdatesAreCurrent`). `QueriesGetCurrentHashes` follows from it for the entries that
answer at once and for those that wait. For the debouncer, `DebouncerInv` says that
the deadline covers every accepted bump exactly when the task has seen the last serial
(`covered <=> seen = serial`), and that the wait is over only when it has;
`DebounceIsQuiet` follows for any number of bumps.

**WatchLoopProofs.** `WatchInv` follows a change from the repository to the run that is
made for it. A task is stale only while all is to be rebuilt (`RediscoverComing`), a change
that concerns it is on its way (`Heralded`), or a run that includes it is to be built or goes on
(`Restarting`); that is `StaleInv`. `RestartInv` says the same of an interruptible task
whose latest instance was told to stop: both sets of tasks come from the same packages,
which is why what is stopped is restarted. They need that the watched packages are the workspace's
(`EventInv`) and that the scope of a run contains what its changes stopped (`ConcernedAreScoped`),
for which a task must be in its own closure and closures must be transitive.
`IdleLoopIsFresh` and `StoppedTasksRestart` follow, since an idle loop has nothing on its way. For the other two,
`InstanceInv` and `EndInv` say that a run is in the client's hands, active or in the background,
until its manager is closed and its stopper awaited, and has no instance alive afterwards;
`OnceInv`, that a persistent task is in the scope of a run only when no earlier instance of it
lives or may yet be spawned (`PersistentTasksRunOnce`). `ExitLeavesNothingBehind` is `EndInv` at the
exit. `CountInv` counts: every run but the first has used up a change, so that the numbers of the
runs never reach the bound of the model and no step is blocked by it.

Many theorems have no property of a run beside them: the type invariants, what
another property or a refinement covers there (`FinalOutcomes`, `TaskOrder`,
`EngineIsWalkerCaller`, `ConcurrencyIsRespected`, `PermitsAreConserved`, `ReturnsLast`,
`ResultIsMeaningful`, `ExitsAreFinal`, `ReturnsKeepContract`), and what the configurations of section 8 check
(`MCWalker`, `MCDebouncer`, `MCSignalHandler`). `GivenUpIsGone` is in no run: as an
invariant of `MCGlobWatcher.cfg` it passes, too.

Left to TLC: liveness (`ExecuteReturns`, `HaltEndsRun`, `BoundedCallsReturn`, `CallsReturn`,
`ForceEndsCommand`, `ReadersAnswered`, `StaleIsRedone`, `QueriesAreAnswered`,
`RequestsAreAnswered`, `ClientsReturn`, `StoppedIsReleased`), which needs ENABLED. Every invariant and action property of a run
has its theorem.
No module declares a recursive operator.

## 5. Abstractions

- An engine's task is its node; what it runs and what it returns are the
  visitor's answer. The root node is answered at once and never visited.
- Handles of a child are not counted. An actor whose last handle is dropped shuts
  its process down with the child's own style (state.rs:52); the map, or the
  futures of a call, hold a handle until the exit is known, so that this happens
  only when the future of a `stop_tasks` is abandoned, which is not modelled.
- The time of deadlines is left out: a deadline may pass at any time. Whether a
  child's shutdown has one is kept.
- Child processes on Unix. On Windows a graceful shutdown is a kill.
- A shutdown future of the cache that its caller abandons is not modelled.
- A send of the signal channel is atomic; a signal source that ends delivers
  what it had first.

- File events are delivered in the order of the changes, a cookie's after those
  before it; this is what the cookies rely on (cookies.rs:3). A rescan request of
  the backend is an error. Contents of files are left out: of a package.json and a
  turbo.json the list says only that they exist.
- In `TaskRun` the outputs, hashes and commands of tasks are left out; whether a task
  hits the cache, has a command or fails is open. An exit that is not known, which the
  contract of the process manager counts with those other than success, is a failure of the
  pipe.
- In `RunShutdown` cache writes are on and there is no proxy; in `WatchLoop` the
  future flag `watchUsingTaskInputs` is off, and a task that is not persistent is done
  in one step.
- The contents of files are numbers that count changes, and stand for their hashes;
  a computation reads them at one moment.
- The routing index and the physical watches of globs are what they select.
- The daemon's idle timeout is a close at any time; the requests it serves are left
  out. The second connect of a restart, after its stop or its clean, is not modelled.
- A handler of the package watcher reads the disk in one step. The two `stat` calls
  of handle_workspace_changes can straddle a change, whose own event then follows.
- The globs match the declared workspaces and nothing else; a workspace that is not
  declared but in the list is found by its path.

## 6. Plan

The plan was to model the core first (walker, engine, processes, cache, signals), then
the watchers (debouncer, packages), then what composes them (`TaskRun`,
`RunShutdown`, `WatchLoop`), then the other watchers and the daemon (`HashWatcher`,
`GlobWatcher`, `Daemon`). These exist. What is left, should the models be extended:

1. An abstract specification of `AsyncCache`, as `ProcessContract` is one of
   `ProcessManager`, with the refinement that justifies the promises `TaskRun` and
   `RunShutdown` take; so far they are the property `ShutdownCoversWrites`.
2. The watcher that turns file events into changes of packages
   (package_changes_watcher.rs), between `PackageWatcher`, `HashWatcher` and `WatchLoop`.

## 7. Not modelled

Cache back ends (uploads and archives are I/O, the flag that turns the remote cache
off is only ever cleared); analytics and telemetry (one task over one channel, its failures
dropped by design); log grouping (buffers under one mutex); the run summary
(counts the events of one channel); construction of the task graph,
hashing, scopes, configuration, package graph and lockfiles (sequential functions
over large data, well covered by unit tests); source control, globs and paths
(file-system I/O); the terminal interface (rendering), except its in-process
signal; proxies, language server, query and boundaries; authentication, the API
client and the updater (network I/O); the desktop application (a scaffold); the
TypeScript packages (generators). Most of the lines of `src/crates` are in these.

## 8. Running

```
tlc -workers 2 -config MCEngineExecute.cfg MCEngineExecute
tlapm EngineExecuteProofs.tla
```

The runs `run_signal` and `watch_restart` end in a counterexample,
which is their result. So do these configurations, which are not among the runs:

| Configuration | Module | What is violated |
|---|---|---|
| `MCEngineStop.cfg` | `MCEngineExecute` | `NoTaskSentAfterStop` |
| `MCEngineDependents.cfg` | `MCEngineExecute` | `NoDependentAfterAllTasks` |
| `MCProcessClose.cfg` | `MCProcessManager` | `NoChildAfterClose` and `KilledTreeIsGone`, both with `-continue` |
| `MCWatcherError.cfg` | `MCPackageWatcher` | `ErrorIsCurrent` |
| `MCProcessStop.cfg` | `MCProcessManager` | `StopReturns` |
| `MCWatcherLag.cfg` | `MCPackageWatcher` | `ReadersAnsweredDespiteLag`, with a channel of one slot |
| `MCWatcherScope.cfg` | `MCPackageWatcher` | `NoWorkspaceMissed` |
| `MCWatcherBorrow.cfg` | `MCPackageWatcher` | `SomeRefIsSome` |
| `MCTaskSerial.cfg` | `MCTaskRun` | `SerialGroupRunsAlone` |
| `MCDaemonOwner.cfg` | `MCDaemon` | `AcquiredMeansInFile` |

These pass, on instances or with properties that the runs do not have:

| Configuration | Module | What it checks |
|---|---|---|
| `MCWalker.cfg` | `MCWalker` | the walker alone on five nodes, with its caller open: `EmittedAfterDependencies`, `SkippedForAReason`, `CompleteWalk`, `WalkEnds` |
| `MCSignalHandler.cfg` | `SignalHandler` | two subscribers, two closers, a waiter of each kind: `DoneMeansCleanedUp`, `AlertedKnowTheReason`, `FirstSignalCounted`, `NoLostWakeUp`, `CloseAndStartedReturn` |
| `MCDebouncer.cfg` | `Debouncer` | `QuietBeforeClose`, `DebounceReturns` |
