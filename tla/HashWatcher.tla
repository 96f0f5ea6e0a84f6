----------------------------- MODULE HashWatcher -----------------------------
(***************************************************************************)
(* The hash watcher of crates/turborepo-filewatch/src/hash_watcher.rs.     *)
(*                                                                         *)
(* One task owns a table from specs (a package and its inputs) to hashes.  *)
(* A change of a file, or a package that is new, starts a job that waits   *)
(* for quiet, reads the files and sends what it found back to the task;    *)
(* meanwhile the entry is pending and holds the queries for it.            *)
(*                                                                         *)
(* The contents a spec covers are a number that counts its changes, and    *)
(* stand for their hash; a job reads them at one moment.  File events pass *)
(* the subscription's scope when they are sent.  A debouncer is what       *)
(* Debouncer promises: a bump is accepted until its wait is over.          *)
(***************************************************************************)
EXTENDS Integers, FiniteSets

CONSTANTS Package, Input, DefaultInput, File,
          Covers,      \* the files that each input covers
          Client,      \* the queries GetHash, one each
          Error, None,
          MaxChanges,  \* bound: file changes
          MaxUpsets    \* bound: new package lists and losses of events

Spec == [package : Package, input : Input]

ASSUME HashWatcherAssumption ==
  /\ DefaultInput \in Input
  /\ Covers \in [Input -> SUBSET File]
  /\ {Error, None} \cap Int = {} /\ Error # None
  /\ {MaxChanges, MaxUpsets} \subseteq Nat

VARIABLES
  content,     \* what the files of each spec contain
  sending,     \* the changes <<package, file>> the watcher has not sent yet
  channel,     \* the file events in the subscription's channel
  lossy,       \* events were lost: the next recv is an error or Lagged
  discovery,   \* the watched discovery data; Error stands for a failed one
  discovered,  \* package_data: the data the task borrowed last
  requested,   \* the SetPackagePaths in the query channel, or None
  graph,       \* graph_package_paths
  scope,       \* the specs of the dynamic scope
  hashes,      \* the table
  stamp,       \* the last version given to a job of each spec
  jobs,        \* the hash computations
  preparing,   \* the client whose spec is being prepared, or None
  clients,     \* the queries
  changes, upsets

fileVars     == <<content, sending, channel, lossy>>
layoutVars   == <<discovery, discovered, requested, graph>>
tableVars    == <<hashes, stamp, jobs, clients>>
boundVars    == <<changes, upsets>>
hashVars     == <<fileVars, layoutVars, scope, tableVars, preparing, boundVars>>

(***************************************************************************)
(* hashes: "none" the spec is not tracked; "hashes" with their value;      *)
(*   "pending" a job of that version; "unavailable".                       *)
(* jobs: "debounce"; "ready" its wait is over, it waits for an SCM permit  *)
(*   or a thread; "sent" the files were read, its update is in the channel *)
(*   (until the update is handled it matters only when they were read).    *)
(* clients: "idle"; "queued" in the query channel; "held" in an entry;     *)
(*   "answered".                                                           *)
(***************************************************************************)
Content == 0 .. MaxChanges
Layout  == SUBSET Package

Entry == [state : {"none", "hashes", "pending", "unavailable"},
          value : Content, version : Nat, rerun : BOOLEAN, txs : SUBSET Client]
Job   == [spec : Spec, version : Nat, phase : {"debounce", "ready", "sent"},
          value : Content \cup {Error}]

HashTypeOK ==
  /\ content \in [Spec -> Content]
  /\ sending \subseteq Package \X File /\ channel \subseteq Package \X File
  /\ lossy \in BOOLEAN
  /\ discovery \in Layout \cup {Error, None} /\ discovered \in Layout \cup {Error, None}
  /\ requested \in Layout \cup {None} /\ graph \in Layout
  /\ scope \subseteq Spec
  /\ \A s \in Spec : hashes[s] \in Entry
  /\ \A j \in jobs : j \in Job
  /\ \A s \in Spec : stamp[s] \in Nat
  /\ preparing \in Client \cup {None}
  /\ \A c \in Client : clients[c] \in [phase : {"idle", "queued", "held", "answered"},
                                       spec : Spec, answer : Content \cup {Error}]

Untracked == [state |-> "none", value |-> 0, version |-> 0, rerun |-> FALSE, txs |-> {}]

Pending(version, txs) ==
  [Untracked EXCEPT !.state = "pending", !.version = version, !.txs = txs]

\* The task has subscribed and applied the package data it borrowed: none.
HashInit ==
  /\ content = [s \in Spec |-> 0]
  /\ sending = {} /\ channel = {} /\ lossy = FALSE
  /\ discovery \in {None, Package} /\ discovered = None /\ requested = None /\ graph = {}
  /\ scope = {}
  /\ hashes = [s \in Spec |-> Untracked]
  /\ stamp = [s \in Spec |-> 0]
  /\ jobs = {}
  /\ preparing = None
  /\ clients \in [Client -> {[phase |-> "idle", spec |-> s, answer |-> Error] : s \in Spec}]
  /\ changes = 0 /\ upsets = 0

Tracked == {s \in Spec : hashes[s].state # "none"}

Defaults(packages) == {s \in Spec : s.package \in packages /\ s.input = DefaultInput}

\* The specs whose hashes a file is part of.
Covering(e) == {s \in Spec : s.package = e[1] /\ e[2] \in Covers[s.input]}

\* get_changed_specs: default inputs are concerned by every change.
Concerned(e) == Covering(e) \cup Defaults({e[1]})

-----------------------------------------------------------------------------
(* The files, the discovery and the clients.                               *)

Change(p, f) ==
  /\ changes < MaxChanges
  /\ changes' = changes + 1
  /\ content' = [s \in Spec |-> IF s \in Covering(<<p, f>>) THEN content[s] + 1
                                                           ELSE content[s]]
  /\ sending' = sending \cup {<<p, f>>}
  /\ UNCHANGED <<channel, lossy, layoutVars, scope, tableVars, preparing, upsets>>

\* The watcher sends an event; the scope drops it if no input covers it.
Send(e) ==
  /\ e \in sending
  /\ sending' = sending \ {e}
  /\ channel' = IF Covering(e) \cap scope # {} THEN channel \cup {e} ELSE channel
  /\ UNCHANGED <<content, lossy, layoutVars, scope, tableVars, preparing, boundVars>>

\* The channel overflows, or the watcher reports an error.
Lose ==
  /\ upsets < MaxUpsets
  /\ upsets' = upsets + 1
  /\ lossy' = TRUE
  /\ \E lost \in SUBSET channel : channel' = channel \ lost
  /\ UNCHANGED <<content, sending, layoutVars, scope, tableVars, preparing, changes>>

Discover ==
  /\ upsets < MaxUpsets
  /\ upsets' = upsets + 1
  /\ discovery' \in (Layout \cup {Error}) \ {discovery}
  /\ UNCHANGED <<fileVars, discovered, requested, graph, scope, tableVars, preparing,
                 changes>>

\* set_package_paths, after the repository graph was built.
RequestPaths ==
  /\ upsets < MaxUpsets
  /\ requested = None
  /\ upsets' = upsets + 1
  /\ requested' \in Layout
  /\ UNCHANGED <<fileVars, discovery, discovered, graph, scope, tableVars, preparing,
                 changes>>

\* get_file_hashes
Ask(c) ==
  /\ clients[c].phase = "idle"
  /\ clients' = [clients EXCEPT ![c].phase = "queued"]
  /\ UNCHANGED <<fileVars, layoutVars, scope, hashes, stamp, jobs, preparing, boundVars>>

Answer(answered, answer) ==
  clients' = [c \in Client |->
    IF c \in answered THEN [clients[c] EXCEPT !.phase = "answered", !.answer = answer]
                      ELSE clients[c]]

-----------------------------------------------------------------------------
(* The table.                                                              *)

\* queue_package_hash: a job of a new version for each of the specs.
NewJobs(specs) ==
  {[spec |-> s, version |-> stamp[s] + 1, phase |-> "debounce", value |-> Error] :
     s \in specs}

Stamp(specs) == stamp' = [s \in Spec |-> IF s \in specs THEN stamp[s] + 1 ELSE stamp[s]]

\* The specs in dropped are forgotten, their queries are answered with an error;
\* those in queued are hashed.
Retrack(dropped, queued) ==
  /\ hashes' = [s \in Spec |-> IF s \in queued  THEN Pending(stamp[s] + 1, {})
                          ELSE IF s \in dropped THEN Untracked ELSE hashes[s]]
  /\ jobs' = jobs \cup NewJobs(queued)
  /\ Stamp(queued)
  /\ Answer(UNION {hashes[s].txs : s \in dropped}, Error)

\* The packages of the discovery, if it succeeded, and of the graph.
Known(data, paths) == paths \cup (IF data \in {Error, None} THEN {} ELSE data)

\* handle_package_data_update
UpdatePackages(data, paths) ==
  LET gone == {s \in Tracked : s.package \notin Known(data, paths)}
  IN  Retrack(gone, Defaults(Known(data, paths)) \ Tracked)

\* The scope follows the table.
ReplaceScope == scope' = {s \in Spec : hashes'[s].state # "none"}

\* flush_and_rehash: everything is dropped, the scope is kept.
Flush == Retrack(Tracked, Defaults(Known(discovered, graph)))

-----------------------------------------------------------------------------
(* The select! loop, biased from top to bottom.                            *)

DiscoveryReady == discovery # discovered
EventReady     == lossy \/ channel # {}
UpdateReady    == \E j \in jobs : j.phase = "sent"

HandleDiscovery ==
  /\ preparing = None
  /\ DiscoveryReady
  /\ discovered' = discovery
  /\ UpdatePackages(discovery, graph)
  /\ ReplaceScope
  /\ UNCHANGED <<fileVars, discovery, requested, graph, preparing, boundVars>>

HandleLoss ==
  /\ preparing = None /\ ~DiscoveryReady
  /\ lossy
  /\ lossy' = FALSE
  /\ Flush
  /\ UNCHANGED <<content, sending, channel, layoutVars, scope, preparing, boundVars>>

JobsOf(specs, phase) ==
  {j \in jobs : j.spec \in specs /\ j.phase = phase
                  /\ hashes[j.spec].state = "pending" /\ j.version = hashes[j.spec].version}

\* Mutant: a change during a computation is taken to be part of it.
HandleFileEventOnce(e) ==
  LET specs  == Concerned(e) \cap Tracked
      queued == {s \in specs : hashes[s].state # "pending"}
  IN  /\ preparing = None /\ ~DiscoveryReady /\ ~lossy
      /\ e \in channel
      /\ channel' = channel \ {e}
      /\ hashes' = [s \in Spec |-> IF s \in queued THEN Pending(stamp[s] + 1, {})
                                                   ELSE hashes[s]]
      /\ jobs' = jobs \cup NewJobs(queued)
      /\ Stamp(queued)
      /\ UNCHANGED <<content, sending, lossy, layoutVars, scope, clients, preparing, boundVars>>

\* handle_file_event: a spec that is not pending is hashed; a pending one is
\* bumped, or is to be hashed again if its wait is over.
HandleFileEvent(e) ==
  LET specs  == Concerned(e) \cap Tracked
      queued == {s \in specs : hashes[s].state # "pending"}
      bumped == {j.spec : j \in JobsOf(specs, "debounce")}
  IN  /\ preparing = None /\ ~DiscoveryReady /\ ~lossy
      /\ e \in channel
      /\ channel' = channel \ {e}
      /\ hashes' = [s \in Spec |->
           CASE s \in queued                       -> Pending(stamp[s] + 1, {})
             [] s \in specs \ (queued \cup bumped) -> [hashes[s] EXCEPT !.rerun = TRUE]
             [] OTHER                              -> hashes[s]]
      /\ jobs' = jobs \cup NewJobs(queued)
      /\ Stamp(queued)
      /\ UNCHANGED <<content, sending, lossy, layoutVars, scope, clients, preparing, boundVars>>

\* Mutant: a computation run again keeps the version of the entry.
RerunUnstamped(j) ==
  /\ hashes[j.spec].rerun
  /\ hashes' = [hashes EXCEPT ![j.spec].rerun = FALSE]
  /\ jobs' = (jobs \ {j}) \cup NewJobs({j.spec})
  /\ Stamp({j.spec})
  /\ UNCHANGED clients

\* The update of the computation an entry waits for, which is run again ...
Rerun(j) ==
  /\ hashes[j.spec].rerun
  /\ hashes' = [hashes EXCEPT ![j.spec] = Pending(stamp[j.spec] + 1, @.txs)]
  /\ jobs' = (jobs \ {j}) \cup NewJobs({j.spec})
  /\ Stamp({j.spec})
  /\ UNCHANGED clients

\* ... or answers the queries.
Settle(j) ==
  /\ ~hashes[j.spec].rerun
  /\ hashes' = [hashes EXCEPT ![j.spec] =
       IF j.value = Error THEN [Untracked EXCEPT !.state = "unavailable"]
                          ELSE [Untracked EXCEPT !.state = "hashes", !.value = j.value]]
  /\ Answer(hashes[j.spec].txs, j.value)
  /\ jobs' = jobs \ {j}
  /\ UNCHANGED stamp

\* Mutant: the version of an update is not looked at.
UpdateWanted(j) == hashes[j.spec].state = "pending"

\* An update is ignored unless its entry waits for its version.
UpdateExpected(j) ==
  hashes[j.spec].state = "pending" /\ hashes[j.spec].version = j.version

HandleUpdate(j) ==
  /\ preparing = None /\ ~DiscoveryReady /\ ~EventReady
  /\ j \in jobs
  /\ j.phase = "sent"
  /\ \/ UpdateExpected(j) /\ (Rerun(j) \/ Settle(j))
     \/ /\ ~UpdateExpected(j)
        /\ jobs' = jobs \ {j}
        /\ UNCHANGED <<hashes, stamp, clients>>
  /\ UNCHANGED <<fileVars, layoutVars, scope, preparing, boundVars>>

QueryTurn == preparing = None /\ ~DiscoveryReady /\ ~EventReady /\ ~UpdateReady

\* GetHash of a spec that is tracked.
AnswerTracked(c, s) ==
  /\ hashes[s].state # "none"
  /\ CASE hashes[s].state = "hashes"      -> Answer({c}, hashes[s].value) /\ UNCHANGED hashes
       [] hashes[s].state = "unavailable" -> Answer({c}, Error) /\ UNCHANGED hashes
       [] hashes[s].state = "pending" ->
            /\ hashes' = [hashes EXCEPT ![s].txs = @ \cup {c}]
            /\ clients' = [clients EXCEPT ![c].phase = "held"]
  /\ UNCHANGED preparing

DefaultTracked(s) ==
  s.input # DefaultInput /\ Defaults({s.package}) \cap Tracked # {}

\* GetHash of inputs that are not tracked, of a package that is: the watch is
\* prepared, awaited, and the scope extended before the files are hashed.
PrepareInputs(c, s) ==
  /\ hashes[s].state = "none"
  /\ DefaultTracked(s)
  /\ preparing' = c
  /\ UNCHANGED <<hashes, clients>>

AnswerUnknown(c, s) ==
  /\ hashes[s].state = "none"
  /\ ~DefaultTracked(s)
  /\ Answer({c}, Error)
  /\ UNCHANGED <<hashes, preparing>>

HandleGetHash(c) ==
  /\ QueryTurn
  /\ clients[c].phase = "queued"
  /\ \/ AnswerTracked(c, clients[c].spec)
     \/ PrepareInputs(c, clients[c].spec)
     \/ AnswerUnknown(c, clients[c].spec)
  /\ UNCHANGED <<fileVars, layoutVars, scope, stamp, jobs, boundVars>>

InputsPrepared(c) ==
  LET s == clients[c].spec
  IN  /\ preparing = c
      /\ preparing' = None
      /\ scope' = scope \cup {s}
      /\ hashes' = [hashes EXCEPT ![s] = Pending(stamp[s] + 1, {c})]
      /\ jobs' = jobs \cup NewJobs({s})
      /\ Stamp({s})
      /\ clients' = [clients EXCEPT ![c].phase = "held"]
      /\ UNCHANGED <<fileVars, layoutVars, boundVars>>

HandleSetPackagePaths ==
  /\ QueryTurn
  /\ requested # None
  /\ requested' = None
  /\ graph' = requested
  /\ UpdatePackages(discovered, requested)
  /\ ReplaceScope
  /\ UNCHANGED <<fileVars, discovery, discovered, preparing, boundVars>>

Subscriber ==
  \/ HandleDiscovery
  \/ HandleLoss
  \/ \E e \in channel : HandleFileEvent(e)
  \/ \E j \in jobs : HandleUpdate(j)
  \/ \E c \in Client : HandleGetHash(c) \/ InputsPrepared(c)
  \/ HandleSetPackagePaths

-----------------------------------------------------------------------------
(* The jobs.                                                               *)

Advance(j, next) ==
  /\ jobs' = (jobs \ {j}) \cup {next}
  /\ UNCHANGED <<fileVars, layoutVars, scope, hashes, stamp, clients, preparing, boundVars>>

\* The debouncer's wait is over; then the files are read, which may fail, and
\* the update is sent.
JobSteps(j) ==
  \/ j.phase = "debounce" /\ Advance(j, [j EXCEPT !.phase = "ready"])
  \/ j.phase = "ready" /\ \E value \in {content[j.spec], Error} :
                            Advance(j, [j EXCEPT !.phase = "sent", !.value = value])

HashNext ==
  \/ \E p \in Package, f \in File : Change(p, f)
  \/ \E e \in sending : Send(e)
  \/ Lose
  \/ Discover \/ RequestPaths
  \/ \E c \in Client : Ask(c)
  \/ Subscriber
  \/ \E j \in jobs : JobSteps(j)

HashSpec == HashInit /\ [][HashNext]_hashVars

\* tokio polls what was woken, the watcher sends what it saw, a job that was
\* started ends.
HashFairness ==
  /\ WF_hashVars(\E e \in sending : Send(e))
  /\ WF_hashVars(Subscriber)
  /\ WF_hashVars(\E j \in jobs : JobSteps(j))

FairHashSpec == HashSpec /\ HashFairness

-----------------------------------------------------------------------------
(* Properties.                                                             *)

\* A change of the files of s has not reached the task.
Underway(s) == lossy \/ \E e \in sending \cup channel : s \in Covering(e)

\* Hashes in the table are those of the files as they are, unless an event that
\* will replace them is under way: no change that came while they were computed,
\* and none the scope dropped, is missing.
TableIsCurrent ==
  \A s \in Spec : hashes[s].state = "hashes" => hashes[s].value = content[s] \/ Underway(s)

\* A query is answered with hashes only if they are current in the same sense.
AnswersAreCurrent ==
  [][\A c \in Client : LET s == clients[c].spec IN
       clients[c].phase # "answered" /\ clients'[c].phase = "answered" =>
         clients'[c].answer \in {Error, content[s]} \/ Underway(s)]_hashVars

\* Every query is answered, however often its computation is run again.
QueriesAreAnswered ==
  \A c \in Client : clients[c].phase \in {"queued", "held"} ~> clients[c].phase = "answered"
=============================================================================
