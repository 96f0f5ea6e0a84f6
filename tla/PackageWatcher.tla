--------------------------- MODULE PackageWatcher ---------------------------
(***************************************************************************)
(* The package watcher of crates/turborepo-filewatch: package_watcher.rs,  *)
(* its subscription (lib.rs) and the cookies of its readers (cookies.rs).  *)
(*                                                                         *)
(* The watcher's task keeps a list of the workspaces up to date: it reads  *)
(* file events, patches the list for events in a workspace, and for events *)
(* of the root, errors and lost events discovers everything anew in a task *)
(* of its own, after a debounce.  A reader writes a cookie file, waits     *)
(* until the watcher has handled its event, and takes the list.            *)
(*                                                                         *)
(* Events pass a filter on their way to the watcher that depends on the    *)
(* workspace globs of the last discovery, and a channel that drops the     *)
(* oldest event when it is full.  The file system delivers in order.       *)
(***************************************************************************)
EXTENDS Naturals, Sequences, SequencesExt

CONSTANTS
  Workspace,    \* directories that may be workspaces
  FileName,     \* the files in them that matter
  Manifest,     \* what the root files may declare: sets of workspaces, or Invalid
  Reader,       \* the requests ever made
  Capacity,     \* slots of the watcher's event channel
  MaxChanges,   \* bound: changes ever made to the file system
  Invalid, NoGlobs, NoData, Failed

ASSUME WatcherAssumption ==
  /\ "package.json" \in FileName
  /\ Manifest \subseteq (SUBSET Workspace) \cup {Invalid}
  /\ \A W \in SUBSET Workspace : W \notin {Invalid, NoGlobs}
  /\ \A F \in SUBSET (Workspace \X FileName) : F \notin {NoData, Failed}
  /\ NoData # Failed
  /\ Capacity \in Nat \ {0}
  /\ MaxChanges \in Nat

VARIABLES
  manifest, files,   \* the file system: root files, files of the workspaces
  changes,           \* how many changes were made
  raw,               \* events on their way from the file system
  events, lagged,    \* the watcher's channel; events were dropped from it
  globs,             \* Subscriber::workspace_globs
  pending,           \* the watcher's State is Pending
  version,           \* next_version, and of State::Pending
  rerun,             \* rerun_after_current
  tasks,             \* the discoveries that are not over
  data,              \* package_discovery_tx
  serial,            \* the serial of the last cookie file
  cookie_index,      \* the cookie the watcher registered last
  reader,            \* reader[r]: where request r is
  wanted,            \* its cookie
  got,               \* what it took
  unseen,            \* history: workspaces with an event filtered out since the
                     \*   last discovery started to read
  changed            \* history: what changed on disk since request r, and was
                     \*   unseen when it was answered

disk == <<manifest, files, changes>>
channel == <<events, lagged>>
watcher == <<globs, pending, version, rerun, data, cookie_index>>
readers == <<reader, wanted, got>>
watcherVars == <<disk, raw, channel, watcher, tasks, serial, readers, unseen, changed>>

(***************************************************************************)
(* reader: "idle"; "cookie" waiting for its cookie; "value" waiting for a  *)
(*   list; "borrow" there was one, it is about to be borrowed; "done";     *)
(*   "gone" it gave up.                                                    *)
(* stage of a discovery: "debounce"; "walk" about to find the packages;    *)
(*   "configs" about to look for their turbo.json; "globs" about to read   *)
(*   the globs; "sent" its result is in the channel.                       *)
(***************************************************************************)
File   == Workspace \X FileName
Root   == "root"
Event  == [kind : {"root", "error"}] \cup [kind : {"file"}, file : File]
            \cup [kind : {"cookie"}, serial : Nat]
Stage  == {"debounce", "walk", "configs", "globs", "sent"}
Task   == [version : Nat, stage : Stage, filter : (SUBSET Workspace) \cup {NoGlobs},
           found : (SUBSET File) \cup {Failed}]

RootEvent      == [kind |-> "root"]
ErrorEvent     == [kind |-> "error"]
FileEvent(f)   == [kind |-> "file", file |-> f]
CookieEvent(n) == [kind |-> "cookie", serial |-> n]

FilesOf(w, F) == {f \in F : f[1] = w}
Manifested(F) == {w \in Workspace : <<w, "package.json">> \in F}

\* select_turbo_config_path: both spellings are an error.
Conflict(w, F) == {<<w, "turbo.json">>, <<w, "turbo.jsonc">>} \subseteq F

\* What a correct list says of the workspaces in W.
Packages(W, F) == {f \in F : f[1] \in W \cap Manifested(F)}

Discovery(v) == [version |-> v, stage |-> "debounce", filter |-> NoGlobs, found |-> {}]

WatcherTypeOK ==
  /\ manifest \in Manifest
  /\ files \subseteq File
  /\ changes \in 0 .. MaxChanges
  /\ raw \in Seq(Event)
  /\ events \in Seq(Event)
  /\ Len(events) <= Capacity
  /\ lagged \in BOOLEAN
  /\ globs \in (SUBSET Workspace) \cup {NoGlobs}
  /\ pending \in BOOLEAN
  /\ rerun \in BOOLEAN
  /\ version \in Nat
  /\ tasks \subseteq Task
  /\ data \in (SUBSET File) \cup {NoData, Failed}
  /\ serial \in Nat
  /\ cookie_index \in Nat
  /\ reader \in [Reader -> {"idle", "cookie", "value", "borrow", "done", "gone"}]
  /\ wanted \in [Reader -> Nat]
  /\ got \in [Reader -> (SUBSET File) \cup {NoData, Failed}]
  /\ unseen \subseteq Workspace
  /\ changed \in [Reader -> SUBSET (Workspace \cup {Root})]

WatcherInit ==
  /\ manifest \in Manifest
  /\ files \in SUBSET File
  /\ changes = 0
  /\ raw = <<>>
  /\ events = <<>>
  /\ lagged = FALSE
  /\ globs = NoGlobs
  /\ pending = TRUE
  /\ version = 1
  /\ rerun = FALSE
  /\ tasks = {Discovery(1)}
  /\ data = NoData
  /\ serial = 0
  /\ cookie_index = 0
  /\ reader = [r \in Reader |-> "idle"]
  /\ wanted = [r \in Reader |-> 0]
  /\ got = [r \in Reader |-> NoData]
  /\ unseen = {}
  /\ changed = [r \in Reader |-> {}]

-----------------------------------------------------------------------------
(* The file system, and the way of its events to the watcher.              *)

Changing(x) ==
  /\ changes < MaxChanges
  /\ changes' = changes + 1
  /\ changed' = [r \in Reader |-> IF reader[r] = "idle" THEN {} ELSE changed[r] \cup {x}]
  /\ UNCHANGED <<channel, watcher, tasks, serial, readers, unseen>>

ChangeFile(f) ==
  /\ Changing(f[1])
  /\ files' = IF f \in files THEN files \ {f} ELSE files \cup {f}
  /\ raw' = Append(raw, FileEvent(f))
  /\ UNCHANGED manifest

ChangeManifest(m) ==
  /\ m # manifest
  /\ Changing(Root)
  /\ manifest' = m
  /\ raw' = Append(raw, RootEvent)
  /\ UNCHANGED files

\* The backend, or a change of the Git index, asks every watcher to start over.
BackendError ==
  /\ changes < MaxChanges
  /\ changes' = changes + 1
  /\ raw' = Append(raw, ErrorEvent)
  /\ UNCHANGED <<manifest, files, channel, watcher, tasks, serial, readers, unseen, changed>>

\* The predicate of Subscriber::watch_scope.
InScope(e) ==
  e.kind = "file" =>
    IF globs = NoGlobs THEN e.file[2] = "package.json" ELSE e.file[1] \in globs

\* Mutant: the channel grows.
SendEventUnbounded(e) ==
  /\ events' = Append(events, e)
  /\ UNCHANGED lagged

\* A full broadcast channel forgets its oldest event.
SendEvent(e) ==
  /\ events' = IF Len(events) = Capacity THEN Append(Tail(events), e) ELSE Append(events, e)
  /\ lagged' = (lagged \/ Len(events) = Capacity)

RouteEvent ==
  /\ raw # <<>>
  /\ raw' = Tail(raw)
  /\ \/ /\ InScope(Head(raw))
        /\ SendEvent(Head(raw))
        /\ UNCHANGED unseen
     \/ /\ ~InScope(Head(raw))
        /\ unseen' = unseen \cup {Head(raw).file[1]}
        /\ UNCHANGED channel
  /\ UNCHANGED <<disk, watcher, tasks, serial, readers, changed>>

-----------------------------------------------------------------------------
(* A discovery: its debounce (Debouncer), discover_packages, its result.   *)

Advance(t, u) ==
  /\ tasks' = (tasks \ {t}) \cup {u}
  /\ UNCHANGED <<disk, raw, channel, watcher, serial, readers, changed>>

Result(t, filter, found) ==
  Advance(t, [t EXCEPT !.stage = "sent", !.filter = filter, !.found = found])

Debounced(t) ==
  /\ t.stage = "debounce"
  /\ Advance(t, [t EXCEPT !.stage = "walk"])
  /\ UNCHANGED unseen

\* Root files that declare no workspaces at all are only noticed with the globs.
FindPackages(t) ==
  /\ t.stage = "walk"
  /\ unseen' = {}
  /\ \/ manifest = Invalid /\ Result(t, NoGlobs, Failed)
     \/ manifest = Invalid /\ Advance(t, [t EXCEPT !.stage = "globs", !.found = {}])
     \/ /\ manifest # Invalid
        /\ Advance(t, [t EXCEPT !.stage = "configs",
                                !.found = (manifest \cap Manifested(files)) \X {"package.json"}])

FindConfigs(t) ==
  LET found == {f[1] : f \in t.found}
  IN  /\ t.stage = "configs"
      /\ \/ /\ \E w \in found : Conflict(w, files)
            /\ Result(t, NoGlobs, Failed)
         \/ /\ \A w \in found : ~Conflict(w, files)
            /\ Advance(t, [t EXCEPT !.stage = "globs",
                 !.found = @ \cup {f \in files : f[1] \in found /\ f[2] # "package.json"}])
      /\ UNCHANGED unseen

ReadGlobs(t) ==
  /\ t.stage = "globs"
  /\ \/ manifest = Invalid /\ Result(t, NoGlobs, Failed)
     \/ manifest # Invalid /\ Result(t, manifest, t.found)
  /\ UNCHANGED unseen

Discover(t) == Debounced(t) \/ FindPackages(t) \/ FindConfigs(t) \/ ReadGlobs(t)

-----------------------------------------------------------------------------
(* The watcher's task.                                                     *)

QueueRediscovery(others) ==
  /\ version' = version + 1
  /\ tasks' = others \cup {Discovery(version')}
  /\ pending' = TRUE
  /\ rerun' = FALSE
  /\ data' = NoData

\* Debouncer::bump of the pending discovery returns true.
Bumped == \E t \in tasks : t.version = version /\ t.stage = "debounce"

\* Mutant: an invalidation of a discovery that reads already starts another.
BumpOrQueueOverlapping ==
  \/ /\ pending /\ Bumped
     /\ UNCHANGED <<pending, version, rerun, tasks, data>>
  \/ /\ ~(pending /\ Bumped)
     /\ QueueRediscovery(tasks)

\* Mutant: an invalidation of a discovery that reads already is forgotten.
BumpOrQueueForgets ==
  \/ pending /\ UNCHANGED <<pending, version, rerun, tasks, data>>
  \/ ~pending /\ QueueRediscovery(tasks)

BumpOrQueue ==
  \/ /\ pending
     /\ rerun' = (rerun \/ ~Bumped)
     /\ UNCHANGED <<pending, version, tasks, data>>
  \/ /\ ~pending
     /\ QueueRediscovery(tasks)

\* The list is brought up to date for the workspace of an event.
PatchWorkspace(w) ==
  IF w \in Manifested(files) /\ Conflict(w, files) THEN BumpOrQueue
  ELSE /\ data' = (data \ FilesOf(w, data)) \cup Packages({w}, files)
       /\ UNCHANGED <<pending, version, rerun, tasks>>

IsWorkspace(w) == w \in globs \/ w \in Manifested(data)

HandleWorkspaceChanges(e) ==
  IF pending THEN BumpOrQueue
  ELSE IF data # Failed /\ e.kind = "file" /\ IsWorkspace(e.file[1]) THEN PatchWorkspace(e.file[1])
  ELSE UNCHANGED <<pending, version, rerun, tasks, data>>

\* Mutant: a cookie is registered only when it is known to change nothing.
HandleFileEventUnregistered ==
  /\ ~lagged
  /\ events # <<>>
  /\ events' = Tail(events)
  /\ LET e == Head(events)
     IN  /\ \/ e.kind \in {"root", "error"} /\ BumpOrQueue
            \/ e.kind \in {"file", "cookie"} /\ HandleWorkspaceChanges(e)
         /\ cookie_index' = IF e.kind = "cookie" /\ ~pending THEN e.serial ELSE cookie_index
  /\ UNCHANGED <<disk, raw, lagged, globs, serial, readers, unseen, changed>>

HandleFileEvent ==
  /\ ~lagged
  /\ events # <<>>
  /\ events' = Tail(events)
  /\ LET e == Head(events)
     IN  /\ \/ e.kind \in {"root", "error"} /\ BumpOrQueue
            \/ e.kind \in {"file", "cookie"} /\ HandleWorkspaceChanges(e)
         /\ cookie_index' = IF e.kind = "cookie" THEN e.serial ELSE cookie_index
  /\ UNCHANGED <<disk, raw, lagged, globs, serial, readers, unseen, changed>>

HandleLag ==
  /\ lagged
  /\ lagged' = FALSE
  /\ BumpOrQueue
  /\ UNCHANGED <<disk, raw, events, globs, cookie_index, serial, readers, unseen, changed>>

\* Mutant: a stale result is thrown away, and nothing is queued for it.
HandleDiscoveryResultDiscards(t) ==
  /\ t.stage = "sent"
  /\ tasks' = tasks \ {t}
  /\ IF pending /\ t.version = version /\ ~rerun
       THEN /\ globs' = t.filter
            /\ data' = t.found
            /\ pending' = FALSE
       ELSE UNCHANGED <<globs, pending, data>>
  /\ UNCHANGED <<version, rerun>>
  /\ UNCHANGED <<disk, raw, channel, cookie_index, serial, readers, unseen, changed>>

\* A result that invalidations made stale is not published.
HandleDiscoveryResult(t) ==
  /\ t.stage = "sent"
  /\ IF ~pending \/ t.version # version THEN
       /\ tasks' = tasks \ {t}
       /\ UNCHANGED <<globs, pending, version, rerun, data>>
     ELSE IF rerun THEN
       /\ QueueRediscovery(tasks \ {t})
       /\ UNCHANGED globs
     ELSE
       /\ globs' = t.filter
       /\ data' = t.found
       /\ pending' = FALSE
       /\ tasks' = tasks \ {t}
       /\ UNCHANGED <<version, rerun>>
  /\ UNCHANGED <<disk, raw, channel, cookie_index, serial, readers, unseen, changed>>

WatchProcess ==
  HandleFileEvent \/ HandleLag \/ \E t \in tasks : HandleDiscoveryResult(t)

-----------------------------------------------------------------------------
(* Readers: CookiedOptionalWatch::get and get_immediate.                   *)

\* The writer task creates the cookie file and answers with its serial.
CookieRequest(r) ==
  /\ reader[r] = "idle"
  /\ serial' = serial + 1
  /\ raw' = Append(raw, CookieEvent(serial'))
  /\ reader' = [reader EXCEPT ![r] = "cookie"]
  /\ wanted' = [wanted EXCEPT ![r] = serial']
  /\ UNCHANGED <<disk, channel, watcher, tasks, got, unseen, changed>>

ReaderStep(r, from, to) ==
  /\ reader[r] = from
  /\ reader' = [reader EXCEPT ![r] = to]
  /\ UNCHANGED <<disk, raw, channel, watcher, tasks, serial, wanted, unseen>>

\* Mutant: the cookie before is enough.
CookieReadyEarly(r) ==
  /\ cookie_index + 1 >= wanted[r]
  /\ ReaderStep(r, "cookie", "value")
  /\ UNCHANGED <<got, changed>>

CookieReady(r) ==
  /\ cookie_index >= wanted[r]
  /\ ReaderStep(r, "cookie", "value")
  /\ UNCHANGED <<got, changed>>

\* get_inner: wait_for(is_some), and then borrow.
ValueReady(r) ==
  /\ data # NoData
  /\ ReaderStep(r, "value", "borrow")
  /\ UNCHANGED <<got, changed>>

Borrow(r) ==
  /\ ReaderStep(r, "borrow", "done")
  /\ got' = [got EXCEPT ![r] = data]
  /\ changed' = [changed EXCEPT ![r] = @ \cup unseen]

\* get_immediate finds no value, or the caller goes away.
GiveUp(r) ==
  /\ \/ ReaderStep(r, "cookie", "gone")
     \/ ReaderStep(r, "value", "gone")
  /\ UNCHANGED <<got, changed>>

Read(r) == CookieReady(r) \/ ValueReady(r) \/ Borrow(r)

-----------------------------------------------------------------------------
WatcherNext ==
  \/ \E f \in File : ChangeFile(f)
  \/ \E m \in Manifest : ChangeManifest(m)
  \/ BackendError
  \/ RouteEvent
  \/ \E t \in tasks : Discover(t)
  \/ WatchProcess
  \/ \E r \in Reader : CookieRequest(r) \/ Read(r) \/ GiveUp(r)

WatcherSpec == WatcherInit /\ [][WatcherNext]_watcherVars

\* Every task is polled; nobody has to change a file or to ask, and no reader has
\* to give up.
WatcherFairness ==
  /\ WF_watcherVars(RouteEvent)
  /\ WF_watcherVars(\E t \in tasks : Discover(t))
  /\ WF_watcherVars(WatchProcess)
  /\ \A r \in Reader : WF_watcherVars(Read(r))

FairWatcherSpec == WatcherSpec /\ WatcherFairness

-----------------------------------------------------------------------------
(* Properties.                                                             *)

InFlight == ToSet(raw) \cup ToSet(events)

\* An event that will make the watcher start over is on its way.
StartsOver == lagged \/ \E e \in InFlight : e.kind \in {"root", "error"}

Awaited(w) == \E e \in InFlight : e.kind = "file" /\ e.file[1] = w

\* data says of workspace w what is on disk.
Current(w, d) ==
  /\ manifest # Invalid
  /\ FilesOf(w, d) = FilesOf(w, Packages(manifest, files))

Published == ~pending /\ data # Failed

\* Discoveries do not overlap (the test at package_watcher.rs:779 counts them),
\* and a watcher that waits for one has one.
OneDiscovery ==
  /\ \A t, u \in tasks : t = u
  /\ pending <=> \E t \in tasks : t.version = version

\* A list that readers can see agrees with the disk on every workspace, but those
\* with events the watcher has still to handle, and those whose events the filter
\* of an earlier discovery dropped.
PublishedIsCurrent ==
  Published /\ ~StartsOver =>
    \A w \in Workspace \ unseen : Current(w, data) \/ Awaited(w)

\* A reader's list shows every change made before its cookie, but those the filter
\* dropped.
AnswersAreFresh ==
  \A r \in Reader :
    reader[r] = "done" /\ got[r] \notin {NoData, Failed} /\ Root \notin changed[r]
      => \A w \in Workspace \ changed[r] : Current(w, got[r])

\* When changes stop, the list is published.
DiscoveryEnds == pending ~> ~pending

\* A blocking reader is answered or gives up, however discoveries, resets and
\* events for the list come in its way, unless the channel dropped an event.
ReadersAnswered ==
  []~lagged => \A r \in Reader : reader[r] = "cookie" ~> reader[r] \in {"done", "gone"}

\* The doc of CookieWriter (cookies.rs:22): a cookie's event is waited for.  A
\* reader is answered or gives up, whatever the channel dropped.
ReadersAnsweredDespiteLag ==
  \A r \in Reader : reader[r] = "cookie" ~> reader[r] \in {"done", "gone"}

\* The doc of Subscriber::new (package_watcher.rs:299): events "keep the package
\* data up to date", and so no workspace stays out of date once they are handled.
NoWorkspaceMissed ==
  Published /\ ~StartsOver => \A w \in Workspace : Current(w, data) \/ Awaited(w)

\* The doc of DiscoveryData (package_watcher.rs:56): an error means that the user
\* "could be in the middle of making a change"; when the change is complete and
\* its events handled, there is none.
ErrorIsCurrent ==
  ~pending /\ data = Failed /\ ~lagged /\ InFlight = {} =>
    \/ manifest = Invalid
    \/ \E w \in manifest \cap Manifested(files) : Conflict(w, files)

\* The doc of SomeRef (optional_watch.rs:14), "a reference type that is known to
\* be Some".
SomeRefIsSome == \A r \in Reader : reader[r] = "done" => got[r] # NoData
=============================================================================
