----------------------------- MODULE GlobWatcher -----------------------------
(***************************************************************************)
(* The glob watcher of crates/turborepo-filewatch/src/globwatcher.rs with  *)
(* the cookies that order its requests (cookies.rs).                       *)
(*                                                                         *)
(* A task that ran registers the globs of its outputs under its hash; a    *)
(* later run asks which of them may have changed, and does not restore the *)
(* outputs that have not.  A request carries the serial of a cookie file,  *)
(* and the tracker holds it until the event of that file, or of a later    *)
(* one, has come through the watcher behind the changes before it.         *)
(*                                                                         *)
(* The watcher passes on what is in scope: the cookies, and the paths of   *)
(* the registrations that are pending or active.  The scope is their index *)
(* (GlobRoutingIndex), the physical watches are not modelled.              *)
(***************************************************************************)
EXTENDS Naturals, FiniteSets, Sequences

CONSTANTS Hash, Glob, Path,
          Matches,       \* the paths that each glob matches
          Registration,  \* the calls of watch_globs
          HashOf, GlobsOf, ExcludedBy,  \* what they register
          Query,         \* the calls of get_changed_globs
          AskedFor,      \* the hash they ask for
          None,
          MaxWrites, MaxLosses   \* bounds: file changes; losses of events

ASSUME GlobAssumption ==
  /\ Matches \in [Glob -> SUBSET Path]
  /\ HashOf \in [Registration -> Hash]
  /\ GlobsOf \in [Registration -> SUBSET Glob]
  /\ ExcludedBy \in [Registration -> SUBSET Path]
  /\ AskedFor \in [Query -> Hash]
  /\ None \notin Registration /\ Registration \cap Query = {}
  /\ MaxWrites \in Nat /\ MaxLosses \in Nat

VARIABLES
  disk,      \* events of the file system the watcher has not sent
  channel,   \* events in the subscription's channel
  lossy,     \* the next recv is Lagged or an error
  serial,    \* of the last cookie file
  latest,    \* CookieWatcher::latest
  requests,  \* the requests with a cookie that the tracker has not received
  held,      \* CookieWatcher::pending_requests
  ready,     \* the requests that handle_query is to handle
  committing, \* the registration it has found not cancelled
  cancels,   \* the control channel
  cancelled, \* Registration::cancelled
  call,      \* where each caller is
  pending,   \* GlobState::pending
  active,    \* GlobState::active: the registration of each hash
  include,   \* the globs left in the glob set of each registration
  statuses,  \* glob_statuses: the hashes for which each glob is unchanged
  dirty,     \* history: the globs changed since a registration was confirmed
  asked,     \* history: dirty at the cookie of each query
  writes, losses

diskVars    == <<disk, channel, lossy>>
cookieVars  == <<serial, latest, requests, held>>
queryVars   == <<ready, committing>>
stateVars   == <<pending, active, include, statuses>>
callVars    == <<cancels, cancelled, call>>
historyVars == <<dirty, asked>>
boundVars   == <<writes, losses>>
globVars    == <<diskVars, cookieVars, queryVars, stateVars, callVars, historyVars, boundVars>>

(***************************************************************************)
(* call: "idle"; "pending" the registration was added, no cookie yet;      *)
(*   "sent" the request was; "cancelling" the caller timed out and awaits  *)
(*   the tracker; "ok", "timeout", "error" returned.                       *)
(* An event is a path or a cookie with its serial.                         *)
(***************************************************************************)
Caller == Registration \cup Query
Cookie(n) == <<"cookie", n>>
File(p)   == <<"file", p>>
Event     == {Cookie(n) : n \in 1 .. Cardinality(Caller)} \cup {File(p) : p \in Path}
Request   == Caller \X (1 .. Cardinality(Caller))

GlobTypeOK ==
  /\ disk \in Seq(Event) /\ channel \in Seq(Event) /\ lossy \in BOOLEAN
  /\ {serial, latest} \subseteq 0 .. Cardinality(Caller)
  /\ requests \cup held \cup ready \subseteq Request
  /\ committing \in Registration \cup {None}
  /\ cancels \cup cancelled \cup pending \subseteq Registration
  /\ call \in [Caller -> {"idle", "pending", "sent", "cancelling", "ok", "timeout", "error"}]
  /\ active \in [Hash -> Registration \cup {None}]
  /\ include \in [Registration -> SUBSET Glob]
  /\ statuses \in [Glob -> SUBSET Hash]
  /\ dirty \in [Registration -> SUBSET Glob]
  /\ asked \in [Query -> [Registration -> SUBSET Glob]]

GlobInit ==
  /\ disk = <<>> /\ channel = <<>> /\ lossy = FALSE
  /\ serial = 0 /\ latest = 0 /\ requests = {} /\ held = {}
  /\ ready = {} /\ committing = None
  /\ cancels = {} /\ cancelled = {} /\ call = [c \in Caller |-> "idle"]
  /\ pending = {} /\ active = [h \in Hash |-> None] /\ include = GlobsOf
  /\ statuses = [g \in Glob |-> {}]
  /\ dirty = [r \in Registration |-> {}]
  /\ asked = [q \in Query |-> dirty]
  /\ writes = 0 /\ losses = 0

Active == {active[h] : h \in Hash} \ {None}

\* The globs of a registration that a change of path concerns.
Hit(r, p) == IF p \in ExcludedBy[r] THEN {} ELSE {g \in include[r] : p \in Matches[g]}

-----------------------------------------------------------------------------
(* The file system and the watcher.                                        *)

WriteFile(p) ==
  /\ writes < MaxWrites
  /\ writes' = writes + 1
  /\ disk' = Append(disk, File(p))
  /\ dirty' = [r \in Registration |->
       IF call[r] = "ok" /\ p \notin ExcludedBy[r]
       THEN dirty[r] \cup {g \in GlobsOf[r] : p \in Matches[g]} ELSE dirty[r]]
  /\ UNCHANGED <<channel, lossy, cookieVars, queryVars, stateVars, callVars, asked, losses>>

InScope(e) ==
  e[1] = "file" => \E r \in pending \cup Active : Hit(r, e[2]) # {}

\* The watcher routes an event to the subscription, if it is in scope.
Route ==
  /\ disk # <<>>
  /\ disk' = Tail(disk)
  /\ channel' = IF InScope(Head(disk)) THEN Append(channel, Head(disk)) ELSE channel
  /\ UNCHANGED <<lossy, cookieVars, queryVars, stateVars, callVars, historyVars, boundVars>>

\* The channel overflows, or the watcher fails: the oldest events are gone.
Lose ==
  /\ losses < MaxLosses
  /\ losses' = losses + 1
  /\ lossy' = TRUE
  /\ \E n \in 2 .. Len(channel) + 1 : channel' = SubSeq(channel, n, Len(channel))
  /\ UNCHANGED <<disk, cookieVars, queryVars, stateVars, callVars, historyVars, writes>>

-----------------------------------------------------------------------------
(* The callers.                                                            *)

Call(c, state) == call' = [call EXCEPT ![c] = state]

\* watch_globs: add_pending.
WatchGlobs(r) ==
  /\ call[r] = "idle"
  /\ Call(r, "pending")
  /\ pending' = pending \cup {r}
  /\ UNCHANGED <<diskVars, cookieVars, queryVars, active, include, statuses, cancels, cancelled,
                 historyVars, boundVars>>

\* cookie_request writes the next cookie file; the request is sent with its serial.
SendRequest(c) ==
  /\ serial' = serial + 1
  /\ disk' = Append(disk, Cookie(serial'))
  /\ requests' = requests \cup {<<c, serial'>>}
  /\ Call(c, "sent")
  /\ UNCHANGED <<channel, lossy, latest, held, queryVars, stateVars, cancels, cancelled, boundVars>>

RequestWatch(r) ==
  /\ call[r] = "pending"
  /\ SendRequest(r)
  /\ UNCHANGED historyVars

\* get_changed_globs
RequestChanges(q) ==
  /\ call[q] = "idle"
  /\ SendRequest(q)
  /\ asked' = [asked EXCEPT ![q] = dirty]
  /\ UNCHANGED dirty

\* The cookie cannot be written: remove_registration_direct.
RequestFails(r) ==
  /\ call[r] = "pending"
  /\ Call(r, "error")
  /\ pending' = pending \ {r}
  /\ cancelled' = cancelled \cup {r}
  /\ UNCHANGED <<diskVars, cookieVars, queryVars, active, include, statuses, cancels,
                 historyVars, boundVars>>

\* The caller gives up: it marks the registration, then awaits the tracker.
WatchTimesOut(r) ==
  /\ call[r] = "sent"
  /\ Call(r, "cancelling")
  /\ cancelled' = cancelled \cup {r}
  /\ cancels' = cancels \cup {r}
  /\ UNCHANGED <<diskVars, cookieVars, queryVars, stateVars, historyVars, boundVars>>

QueryTimesOut(q) ==
  /\ call[q] = "sent"
  /\ Call(q, "timeout")
  /\ UNCHANGED <<diskVars, cookieVars, queryVars, stateVars, cancels, cancelled, historyVars, boundVars>>

-----------------------------------------------------------------------------
(* The state of the tracker.                                               *)

\* The hashes of each glob, without hash, and with it for the globs in globs.
Restatus(hash, globs) ==
  statuses' = [g \in Glob |-> IF g \in globs THEN statuses[g] \cup {hash}
                                             ELSE statuses[g] \ {hash}]

\* Mutant: the globs of the registration that is replaced keep their status.
CommitAdding(r) ==
  /\ r \in pending
  /\ pending' = pending \ {r}
  /\ active' = [active EXCEPT ![HashOf[r]] = r]
  /\ statuses' = [g \in Glob |-> IF g \in include[r] THEN statuses[g] \cup {HashOf[r]}
                                                     ELSE statuses[g]]
  /\ UNCHANGED include

\* commit_registration_state: the registration replaces that of its hash.
Commit(r) ==
  /\ r \in pending
  /\ pending' = pending \ {r}
  /\ active' = [active EXCEPT ![HashOf[r]] = r]
  /\ Restatus(HashOf[r], include[r])
  /\ UNCHANGED include

\* remove_registration: this generation only.
Remove(r) ==
  /\ pending' = pending \ {r}
  /\ IF active[HashOf[r]] = r
     THEN active' = [active EXCEPT ![HashOf[r]] = None] /\ Restatus(HashOf[r], {})
     ELSE UNCHANGED <<active, statuses>>
  /\ UNCHANGED include

-----------------------------------------------------------------------------
(* The tracker's select! loop, biased from top to bottom: an iteration     *)
(* handles all the requests that it made ready.                            *)

IterationOver == ready = {} /\ committing = None
EventTurn     == IterationOver /\ cancels = {}

HandleCancel(r) ==
  /\ IterationOver
  /\ r \in cancels
  /\ cancels' = cancels \ {r}
  /\ Remove(r)
  /\ Call(r, "timeout")
  /\ UNCHANGED <<diskVars, cookieVars, queryVars, cancelled, historyVars, boundVars>>

\* check_request: the request is ready, or held until its cookie is seen.
ReceiveRequest(m) ==
  /\ IterationOver /\ cancels = {}
  /\ m \in requests
  /\ requests' = requests \ {m}
  /\ \/ m[2] <= latest /\ ready' = {m} /\ UNCHANGED held
     \/ m[2] > latest /\ held' = held \cup {m} /\ UNCHANGED ready
  /\ UNCHANGED <<diskVars, serial, latest, committing, stateVars, callVars, historyVars, boundVars>>

\* Mutant: all requests are let go.
SeenAny(n) == held

\* Mutant: the request waits for a cookie behind its own.
SeenBehind(n) == {m \in held : m[2] < n}

\* The requests that are behind the n-th cookie.
Seen(n) == {m \in held : m[2] <= n}

\* pop_ready_requests
HandleCookie ==
  /\ EventTurn /\ ~lossy
  /\ channel # <<>> /\ Head(channel)[1] = "cookie"
  /\ channel' = Tail(channel)
  /\ latest' = Head(channel)[2]
  /\ ready' = Seen(latest')
  /\ held' = held \ ready'
  /\ UNCHANGED <<disk, lossy, serial, requests, committing, stateVars, callVars, historyVars,
                 boundVars>>

\* handle_query takes the lowest serial first.  A registration that its caller
\* gave up is removed, any other is committed, which is a step of its own.
HandleQuery ==
  /\ committing = None
  /\ \E m \in ready :
       /\ \A o \in ready : m[2] <= o[2]
       /\ ready' = ready \ {m}
       /\ \/ /\ m[1] \in cancelled
             /\ Remove(m[1])
             /\ UNCHANGED <<committing, call>>
          \/ /\ m[1] \in Registration \ cancelled
             /\ committing' = m[1]
             /\ UNCHANGED <<stateVars, call>>
          \/ /\ m[1] \in Query
             /\ Call(m[1], IF call[m[1]] = "sent" THEN "ok" ELSE call[m[1]])
             /\ UNCHANGED <<committing, stateVars>>
  /\ UNCHANGED <<diskVars, cookieVars, cancels, cancelled, historyVars, boundVars>>

\* The caller may have given up in the meantime; its cancel comes behind.
CommitRegistration ==
  /\ committing # None
  /\ Commit(committing)
  /\ Call(committing, IF call[committing] = "sent" THEN "ok" ELSE call[committing])
  /\ committing' = None
  /\ UNCHANGED <<diskVars, cookieVars, ready, cancels, cancelled, historyVars, boundVars>>

\* invalidate_path_candidates: each active registration loses the globs that
\* match; one that has none left is dropped.
Invalidate(p) ==
  LET hit == [r \in Registration |-> IF r \in Active THEN Hit(r, p) ELSE {}]
  IN  /\ include' = [r \in Registration |-> include[r] \ hit[r]]
      /\ active'  = [h \in Hash |-> IF active[h] # None /\ hit[active[h]] # {}
                                         /\ include'[active[h]] = {}
                                    THEN None ELSE active[h]]
      /\ statuses' = [g \in Glob |-> {h \in statuses[g] :
                                        ~(active[h] # None /\ g \in hit[active[h]])}]
      /\ UNCHANGED pending

HandleFile ==
  /\ EventTurn /\ ~lossy
  /\ channel # <<>> /\ Head(channel)[1] = "file"
  /\ channel' = Tail(channel)
  /\ Invalidate(Head(channel)[2])
  /\ UNCHANGED <<disk, lossy, cookieVars, queryVars, callVars, historyVars, boundVars>>

\* on_error: everything that is active counts as changed.
HandleLoss ==
  /\ EventTurn
  /\ lossy
  /\ lossy' = FALSE
  /\ active' = [h \in Hash |-> None]
  /\ statuses' = [g \in Glob |-> {}]
  /\ UNCHANGED <<disk, channel, cookieVars, queryVars, callVars, pending, include, historyVars, boundVars>>

Tracker ==
  \/ \E r \in Registration : HandleCancel(r)
  \/ \E m \in requests : ReceiveRequest(m)
  \/ HandleCookie
  \/ HandleQuery
  \/ CommitRegistration
  \/ HandleFile
  \/ HandleLoss

GlobNext ==
  \/ \E p \in Path : WriteFile(p)
  \/ Route
  \/ Lose
  \/ \E r \in Registration :
       WatchGlobs(r) \/ RequestWatch(r) \/ RequestFails(r) \/ WatchTimesOut(r)
  \/ \E q \in Query : RequestChanges(q) \/ QueryTimesOut(q)
  \/ Tracker

GlobSpec == GlobInit /\ [][GlobNext]_globVars

\* tokio polls the tracker when it was woken and the watcher sends what it sees.
\* No caller has to give up.
FairGlobSpec == GlobSpec /\ WF_globVars(Route) /\ WF_globVars(Tracker)

-----------------------------------------------------------------------------
(* Properties.                                                             *)

\* What the answer to q leaves out: the globs recorded as unchanged.
Unchanged(q) == IF active[AskedFor[q]] = None THEN {} ELSE include[active[AskedFor[q]]]

Answered(q) == call[q] = "sent" /\ call'[q] = "ok"

\* A glob is reported as unchanged only if no file it matches changed between the
\* return of watch_globs and the query, whatever was registered, replaced,
\* cancelled or lost between them.  (What changes before it returns may be missed:
\* the cookie can overtake its request, and a loss spares what is pending.)
UnchangedIsTrue ==
  [][\A q \in Query : Answered(q) =>
       LET r == active[AskedFor[q]]
       IN  r # None => Unchanged(q) \cap asked[q][r] = {}]_globVars

\* A caller that was told of a timeout or an error has no registration left, and
\* that of another generation of its hash is not touched by it.
GivenUpIsGone ==
  \A r \in Registration : call[r] \in {"timeout", "error"} => r \notin pending \cup Active

\* The comment in invalidate_path_candidates: a hash among the statuses of a glob
\* is tracked, and with that glob; and no other is.
StatusesAreTracked ==
  \A g \in Glob, h \in Hash :
    h \in statuses[g] <=> active[h] # None /\ g \in include[active[h]]

\* A request is answered without a timeout, unless events were lost.
RequestsAreAnswered ==
  \A c \in Caller : call[c] = "sent" ~> (call[c] # "sent" \/ losses > 0)
=============================================================================
