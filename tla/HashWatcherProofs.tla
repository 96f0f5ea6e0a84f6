-------------------------- MODULE HashWatcherProofs --------------------------
(***************************************************************************)
(* Theorems about the hash watcher and the debouncer it waits with, for    *)
(* any packages, inputs, files and clients and any number of changes,      *)
(* losses of events and bumps.                                             *)
(*                                                                         *)
(* The hash watcher is right because three pieces of state agree: the      *)
(* scope of the subscription holds what the table tracks, so that no event *)
(* of it is dropped; a version names one computation, so that an update    *)
(* the table waits for is the one of the job it started last; and an event *)
(* taken from the channel starts, bumps or repeats the computation of      *)
(* every tracked spec it concerns.                                         *)
(***************************************************************************)
EXTENDS HashWatcher, Debouncer, TLAPS

-----------------------------------------------------------------------------
(* The hash watcher: its inductive invariant.                              *)

\* What the files, the packages and the bounds are.
WorldType ==
  /\ content \in [Spec -> Nat] /\ \A s \in Spec : content[s] <= changes
  /\ sending \subseteq Package \X File /\ channel \subseteq Package \X File
  /\ lossy \in BOOLEAN
  /\ discovery \in Layout \cup {Error, None} /\ discovered \in Layout \cup {Error, None}
  /\ requested \in Layout \cup {None} /\ graph \in Layout
  /\ scope \subseteq Spec
  /\ changes \in 0 .. MaxChanges

\* What the table, the jobs and the queries are.
TableType ==
  /\ hashes \in [Spec -> Entry]
  /\ jobs \subseteq Job
  /\ stamp \in [Spec -> Nat]
  /\ preparing \in Client \cup {None}
  /\ clients \in [Client -> [phase : {"idle", "queued", "held", "answered"},
                             spec : Spec, answer : Content \cup {Error}]]

\* The subscription passes the events of every spec the table tracks, and the
\* table tracks the default inputs of every known package.
ScopeInv ==
  /\ Tracked \subseteq scope
  /\ Defaults(Known(discovered, graph)) \subseteq Tracked

\* A version is given to one job of a spec, and a pending entry has its job.
JobsInv ==
  /\ \A j \in jobs : j.version <= stamp[j.spec]
  /\ \A i, j \in jobs : i.spec = j.spec /\ i.version = j.version => i = j
  /\ \A s \in Spec : hashes[s].state = "pending" =>
       \E j \in jobs : j.spec = s /\ j.version = hashes[s].version

\* The queries an entry holds are queries for it.
HeldInv == \A s \in Spec : \A c \in hashes[s].txs : clients[c].spec = s

\* The update that an entry waits for, and that will not be thrown away for
\* another, is current.
UpdatesAreCurrent ==
  \A j \in jobs :
    j.phase = "sent" /\ UpdateExpected(j) /\ ~hashes[j.spec].rerun =>
      j.value \in {Error, content[j.spec]} \/ Underway(j.spec)

\* The inductive invariant.
HashInv ==
  WorldType /\ TableType /\ ScopeInv /\ JobsInv /\ HeldInv /\ UpdatesAreCurrent
    /\ TableIsCurrent

-----------------------------------------------------------------------------
(* Facts about the operators.                                              *)

\* The bounds are numbers, of which the contents are.
LEMMA BoundTypes == MaxChanges \in Nat /\ MaxUpsets \in Nat
  BY HashWatcherAssumption DEF HashWatcherAssumption

\* What is written at first is a content.
LEMMA ZeroContent == 0 \in Content
  BY BoundTypes DEF Content

\* An entry for a new computation, and the one of a spec that is not tracked.
LEMMA FreshEntry ==
  ASSUME NEW v \in Nat
  PROVE  /\ Pending(v, {}) \in Entry
         /\ Pending(v, {}).state = "pending" /\ Pending(v, {}).version = v
         /\ Pending(v, {}).rerun = FALSE /\ Pending(v, {}).txs = {}
  BY ZeroContent DEF Pending, Untracked, Entry

\* The entry of a spec that is not tracked is an entry.
LEMMA UntrackedEntry ==
  Untracked \in Entry /\ Untracked.state = "none" /\ Untracked.txs = {}
  BY ZeroContent DEF Untracked, Entry

\* Marking an entry to be computed again changes nothing else of it.
LEMMA RerunEntry ==
  ASSUME NEW entry \in Entry
  PROVE  LET marked == [entry EXCEPT !.rerun = TRUE]
         IN  /\ marked \in Entry /\ marked.rerun
             /\ marked.state = entry.state /\ marked.version = entry.version
             /\ marked.txs = entry.txs
  BY DEF Entry

\* The jobs that are started get versions no job of their spec has.
LEMMA NewVersions ==
  ASSUME TableType, JobsInv, NEW queued \in SUBSET Spec, NEW kept \in SUBSET jobs,
         Stamp(queued), jobs' = kept \cup NewJobs(queued)
  PROVE  /\ jobs' \subseteq Job /\ stamp' \in [Spec -> Nat]
         /\ \A j \in jobs' : j.version <= stamp'[j.spec]
         /\ \A i, j \in jobs' : i.spec = j.spec /\ i.version = j.version => i = j
         /\ \A s \in queued : \E j \in jobs' : j.spec = s /\ j.version = stamp[s] + 1
         /\ \A j \in NewJobs(queued) : j.phase = "debounce"
         /\ \A j \in kept : j \in Job /\ j.version <= stamp[j.spec]
<1> USE DEF TableType, JobsInv
<1>1. stamp' \in [Spec -> Nat] /\ \A s \in Spec : stamp'[s] >= stamp[s]
  BY DEF Stamp
<1>2. \A s \in queued : stamp'[s] = stamp[s] + 1
  BY DEF Stamp
<1>3. \A j \in NewJobs(queued) :
         /\ j \in Job /\ j.spec \in queued /\ j.version = stamp[j.spec] + 1
         /\ j.phase = "debounce" /\ j.value = Error
  BY DEF NewJobs, Job
<1>4. \A j \in kept : j \in Job /\ j.spec \in Spec /\ j.version \in Nat
                                /\ j.version <= stamp[j.spec]
  BY DEF Job
<1>5. \A j \in jobs' : j \in Job /\ j.version <= stamp'[j.spec]
  BY <1>1, <1>2, <1>3, <1>4
<1>6. \A i, j \in NewJobs(queued) : i.spec = j.spec => i = j
  BY DEF NewJobs
<1>7. \A i \in kept, j \in NewJobs(queued) : i.spec = j.spec => i.version # j.version
  BY <1>3, <1>4
<1>8. \A i, j \in jobs' : i.spec = j.spec /\ i.version = j.version => i = j
  BY <1>6, <1>7
<1>9. \A s \in queued : \E j \in NewJobs(queued) : j.spec = s /\ j.version = stamp[s] + 1
  <2> TAKE s \in queued
  <2>1. [spec |-> s, version |-> stamp[s] + 1, phase |-> "debounce", value |-> Error]
          \in NewJobs(queued)
    BY DEF NewJobs
  <2> QED
    BY <2>1
<1> QED
  BY <1>1, <1>3, <1>4, <1>5, <1>8, <1>9

\* Who is answered, and that nobody's query becomes another.
LEMMA AnswerType ==
  ASSUME TableType, NEW answered, NEW answer \in Content \cup {Error},
         Answer(answered, answer)
  PROVE  /\ clients' \in [Client -> [phase : {"idle", "queued", "held", "answered"},
                                   spec : Spec, answer : Content \cup {Error}]]
         /\ \A c \in Client : clients'[c].spec = clients[c].spec
         /\ \A c \in Client : c \in answered => clients'[c].answer = answer
         /\ \A c \in Client : c \notin answered => clients'[c] = clients[c]
  BY DEF TableType, Answer

-----------------------------------------------------------------------------
(* The steps.                                                              *)

\* The invariant holds initially.
LEMMA InitHolds == HashInit => HashInv
<1> SUFFICES ASSUME HashInit PROVE HashInv
  OBVIOUS
<1> USE DEF HashInit
<1>1. WorldType
  <2>1. discovery \in Layout \cup {Error, None} /\ graph \in Layout
    BY DEF Layout
  <2>2. content \in [Spec -> Nat] /\ \A s \in Spec : content[s] <= changes
    OBVIOUS
  <2>3. changes \in 0 .. MaxChanges
    BY BoundTypes
  <2>4. requested \in Layout \cup {None} /\ discovered \in Layout \cup {Error, None}
    OBVIOUS
  <2> QED
    BY <2>1, <2>2, <2>3, <2>4 DEF WorldType
<1>2. TableType
  <2>1. Untracked \in Entry
    BY UntrackedEntry
  <2>2. \A s \in Spec : [phase |-> "idle", spec |-> s, answer |-> Error]
          \in [phase : {"idle", "queued", "held", "answered"}, spec : Spec,
              answer : Content \cup {Error}]
    OBVIOUS
  <2>3. clients \in [Client -> [phase : {"idle", "queued", "held", "answered"},
                             spec : Spec, answer : Content \cup {Error}]]
    BY <2>2
  <2> QED
    BY <2>1, <2>3 DEF TableType
<1>3. Tracked = {}
  BY UntrackedEntry DEF Tracked
<1>4. ScopeInv
  BY <1>3 DEF ScopeInv, Defaults, Known
<1>5. JobsInv /\ HeldInv /\ UpdatesAreCurrent /\ TableIsCurrent
  BY UntrackedEntry DEF JobsInv, HeldInv, UpdatesAreCurrent, TableIsCurrent
<1> QED
  BY <1>1, <1>2, <1>4, <1>5 DEF HashInv

\* A change is under way to every spec it concerns; an event that the scope
\* drops concerns no spec of the table, nor an update that an entry waits for.
LEMMA FilesKeepInv ==
  ASSUME HashInv,
         \/ \E p \in Package, f \in File : Change(p, f)
         \/ \E e \in sending : Send(e)
         \/ Lose
  PROVE  HashInv'
<1> USE DEF HashInv
<1>1. UNCHANGED <<layoutVars, scope, tableVars, preparing>>
  BY DEF Change, Send, Lose
<1> USE DEF layoutVars, tableVars
<1>2. WorldType'
  <2>1. CASE \E p \in Package, f \in File : Change(p, f)
    BY <2>1, BoundTypes DEF WorldType, Change, layoutVars
  <2>2. CASE \E e \in sending : Send(e)
    BY <2>2 DEF WorldType, Send, layoutVars, boundVars
  <2>3. CASE Lose
    BY <2>3 DEF WorldType, Lose, layoutVars
  <2> QED
    BY <2>1, <2>2, <2>3
<1>3. TableType'
  BY <1>1 DEF TableType
<1>4. ScopeInv'
  BY <1>1 DEF ScopeInv, Tracked, Defaults, Known
<1>5. JobsInv' /\ HeldInv'
  BY <1>1 DEF JobsInv, HeldInv
<1>6. \A s \in scope : Underway(s)' \/ (Underway(s) = FALSE /\ content'[s] = content[s])
  <2> TAKE s \in scope
  <2>0. s \in Spec
    BY DEF WorldType
  <2>1. CASE \E p \in Package, f \in File : Change(p, f)
    <3> PICK p \in Package, f \in File : Change(p, f)
      BY <2>1
    <3>1. s \in Covering(<<p, f>>) => Underway(s)'
      BY DEF Change, Underway
    <3>2. s \notin Covering(<<p, f>>) => content'[s] = content[s]
      BY <2>0 DEF Change
    <3>3. Underway(s) => Underway(s)'
      BY DEF Change, Underway, Covering
    <3> QED
      BY <3>1, <3>2, <3>3 DEF Underway
  <2>2. CASE \E e \in sending : Send(e)
    <3> PICK e \in sending : Send(e)
      BY <2>2
    <3>1. s \in Covering(e) => e \in channel'
      BY DEF Send
    <3>2. Underway(s) => Underway(s)'
      BY <3>1 DEF Send, Underway, Covering
    <3> QED
      BY <3>2 DEF Send, Underway
  <2>3. CASE Lose
    BY <2>3 DEF Lose, Underway
  <2> QED
    BY <2>1, <2>2, <2>3
<1>7. \A s \in Spec : hashes[s].state # "none" => s \in scope
  BY DEF ScopeInv, Tracked
<1>8. UpdatesAreCurrent'
  <2>1. \A j \in jobs : j.spec \in Spec
    BY DEF TableType, Job
  <2> QED
    BY <1>1, <1>6, <1>7, <2>1 DEF UpdatesAreCurrent, UpdateExpected
<1>9. TableIsCurrent'
  BY <1>1, <1>6, <1>7 DEF TableIsCurrent
<1> QED
  BY <1>2, <1>3, <1>4, <1>5, <1>8, <1>9

\* What the discovery, the repository graph and the clients ask changes neither
\* the files nor the table.
LEMMA RequestsKeepInv ==
  ASSUME HashInv, Discover \/ RequestPaths \/ \E c \in Client : Ask(c)
  PROVE  HashInv'
<1> USE DEF HashInv
<1>1. UNCHANGED <<fileVars, discovered, graph, scope, hashes, stamp, jobs, preparing, changes>>
  BY DEF Discover, RequestPaths, Ask, layoutVars, tableVars, boundVars
<1> USE DEF fileVars
<1>2. WorldType'
  BY <1>1 DEF WorldType, Discover, RequestPaths, Ask, layoutVars, Layout
<1>3. /\ clients' \in [Client -> [phase : {"idle", "queued", "held", "answered"},
                                 spec : Spec, answer : Content \cup {Error}]]
      /\ \A c \in Client : clients'[c].spec = clients[c].spec
  BY DEF TableType, Discover, RequestPaths, Ask, tableVars
<1>4. TableType'
  BY <1>1, <1>3 DEF TableType
<1>5. ScopeInv' /\ JobsInv'
  BY <1>1 DEF ScopeInv, Tracked, Defaults, Known, JobsInv
<1>6. HeldInv'
  BY <1>1, <1>3 DEF HeldInv, TableType, Entry
<1>7. UpdatesAreCurrent' /\ TableIsCurrent'
  BY <1>1 DEF UpdatesAreCurrent, TableIsCurrent, UpdateExpected, Underway, Covering
<1> QED
  BY <1>2, <1>4, <1>5, <1>6, <1>7

\* The table is changed by forgetting specs and hashing others: their updates are
\* to come, and those of the old versions are not waited for any more.
LEMMA RetrackKeepsInv ==
  ASSUME HashInv, NEW dropped \in SUBSET Spec, NEW queued \in SUBSET Spec,
         Retrack(dropped, queued), UNCHANGED <<content, sending, channel, preparing>>,
         lossy' = lossy \/ Tracked \subseteq dropped
  PROVE  /\ TableType' /\ JobsInv' /\ HeldInv' /\ UpdatesAreCurrent' /\ TableIsCurrent'
         /\ Tracked' = (Tracked \ dropped) \cup queued
<1> USE DEF HashInv
<1>1. /\ Stamp(queued) /\ jobs' = jobs \cup NewJobs(queued)
      /\ Answer(UNION {hashes[s].txs : s \in dropped}, Error)
      /\ hashes' = [s \in Spec |-> IF s \in queued  THEN Pending(stamp[s] + 1, {})
                               ELSE IF s \in dropped THEN Untracked ELSE hashes[s]]
  BY DEF Retrack
<1>2. /\ jobs' \subseteq Job /\ stamp' \in [Spec -> Nat]
      /\ \A j \in jobs' : j.version <= stamp'[j.spec]
      /\ \A i, j \in jobs' : i.spec = j.spec /\ i.version = j.version => i = j
      /\ \A s \in queued : \E j \in jobs' : j.spec = s /\ j.version = stamp[s] + 1
      /\ \A j \in NewJobs(queued) : j.phase = "debounce"
      /\ \A j \in jobs : j \in Job /\ j.version <= stamp[j.spec]
  BY <1>1, NewVersions
<1>3. /\ clients' \in [Client -> [phase : {"idle", "queued", "held", "answered"},
                                 spec : Spec, answer : Content \cup {Error}]]
      /\ \A c \in Client : clients'[c].spec = clients[c].spec
  BY <1>1, AnswerType
<1>4. \A s \in Spec : stamp[s] + 1 \in Nat
  BY DEF TableType
<1>5. \A s \in queued : /\ hashes'[s] \in Entry /\ hashes'[s].state = "pending"
                        /\ hashes'[s].version = stamp[s] + 1 /\ hashes'[s].txs = {}
  <2> TAKE s \in queued
  <2>1. hashes'[s] = Pending(stamp[s] + 1, {})
    BY <1>1
  <2>2. stamp[s] + 1 \in Nat
    BY <1>4
  <2> QED
    BY <2>1, <2>2, FreshEntry
<1>6. \A s \in dropped \ queued : /\ hashes'[s] \in Entry /\ hashes'[s].state = "none"
                                  /\ hashes'[s].txs = {}
  BY <1>1, UntrackedEntry
<1>7. \A s \in Spec \ (dropped \cup queued) : hashes'[s] = hashes[s]
  BY <1>1
<1>8. TableType'
  <2>1. hashes' \in [Spec -> Entry]
    BY <1>1, <1>5, <1>6, <1>7 DEF TableType
  <2> QED
    BY <2>1, <1>2, <1>3 DEF TableType
<1>9. JobsInv'
  <2>1. \A s \in Spec : hashes'[s].state = "pending" =>
         \E j \in jobs' : j.spec = s /\ j.version = hashes'[s].version
    <3> SUFFICES ASSUME NEW s \in Spec, hashes'[s].state = "pending"
                 PROVE  \E j \in jobs' : j.spec = s /\ j.version = hashes'[s].version
      OBVIOUS
    <3>1. CASE s \in queued
      BY <3>1, <1>2, <1>3, <1>4, <1>5
    <3>2. CASE s \notin queued
      <4>1. hashes[s].state = "pending" /\ hashes'[s].version = hashes[s].version
        BY <3>2, <1>6, <1>7
      <4>2. PICK j \in jobs : j.spec = s /\ j.version = hashes[s].version
        BY <4>1 DEF JobsInv
      <4> QED
        BY <4>1, <4>2, <1>1
    <3> QED
      BY <3>1, <3>2
  <2> QED
    BY <1>2, <2>1 DEF JobsInv
<1>10. HeldInv'
  BY <1>3, <1>5, <1>6, <1>7 DEF HeldInv, TableType, Entry
<1>11. \A s \in Spec \ (dropped \cup queued) :
         hashes[s].state # "none" => lossy' = lossy /\ Underway(s)' = Underway(s)
  BY DEF Tracked, Underway, Covering
<1>12. UpdatesAreCurrent'
  <2> SUFFICES ASSUME NEW j \in jobs', j.phase = "sent", UpdateExpected(j)',
                      ~hashes'[j.spec].rerun
               PROVE  j.value \in {Error, content[j.spec]} \/ Underway(j.spec)'
    BY DEF UpdatesAreCurrent
  <2>1. j \in jobs /\ j.spec \in Spec /\ j.version \in Nat /\ j.version <= stamp[j.spec]
    BY <1>1, <1>2 DEF Job
  <2>2. j.spec \notin queued
    BY <2>1, <1>5 DEF UpdateExpected, TableType
  <2>3. j.spec \notin dropped
    BY <2>2, <1>6 DEF UpdateExpected
  <2> QED
    BY <2>1, <2>2, <2>3, <1>7, <1>11 DEF UpdatesAreCurrent, UpdateExpected
<1>13. TableIsCurrent'
  BY <1>5, <1>6, <1>7, <1>11 DEF TableIsCurrent
<1>14. Tracked' = (Tracked \ dropped) \cup queued
  BY <1>5, <1>6, <1>7 DEF Tracked
<1> QED
  BY <1>8, <1>9, <1>10, <1>12, <1>13, <1>14

\* The packages change, or the list of them is lost.
LEMMA PackagesKeepInv ==
  ASSUME HashInv, HandleDiscovery \/ HandleLoss \/ HandleSetPackagePaths
  PROVE  HashInv'
<1> USE DEF HashInv
<1>1. WorldType'
  <2>1. UNCHANGED <<content, sending, channel, discovery, changes>> /\ lossy' \in BOOLEAN
    BY DEF WorldType, HandleDiscovery, HandleLoss, HandleSetPackagePaths, fileVars,
       layoutVars, boundVars
  <2>2. /\ discovered' \in Layout \cup {Error, None}
        /\ requested' \in Layout \cup {None} /\ graph' \in Layout
    BY DEF WorldType, HandleDiscovery, HandleLoss, HandleSetPackagePaths, layoutVars
  <2>3. scope' \subseteq Spec
    BY DEF WorldType, HandleDiscovery, HandleLoss, HandleSetPackagePaths, ReplaceScope
  <2> QED
    BY <2>1, <2>2, <2>3 DEF WorldType
<1>2. CASE HandleLoss
  <2> DEFINE queued == Defaults(Known(discovered, graph))
  <2>1. /\ Retrack(Tracked, queued) /\ Tracked \in SUBSET Spec /\ queued \in SUBSET Spec
        /\ UNCHANGED <<content, sending, channel, preparing, scope, discovered, graph>>
    BY <1>2 DEF HandleLoss, Flush, Tracked, Defaults, layoutVars
  <2>2. /\ TableType' /\ JobsInv' /\ HeldInv' /\ UpdatesAreCurrent' /\ TableIsCurrent'
        /\ Tracked' = queued
    BY <2>1, RetrackKeepsInv
  <2>3. Defaults(Known(discovered, graph))' = queued
    BY <2>1 DEF Defaults, Known
  <2>4. ScopeInv'
    BY <2>1, <2>2, <2>3 DEF ScopeInv
  <2> QED
    BY <1>1, <2>2, <2>4
<1>3. ASSUME NEW data, NEW paths, UpdatePackages(data, paths), ReplaceScope,
             UNCHANGED <<content, sending, channel, preparing, lossy>>,
             discovered' = data, graph' = paths
      PROVE  HashInv'
  <2> DEFINE known  == Known(data, paths)
             gone   == {s \in Tracked : s.package \notin known}
             queued == Defaults(known) \ Tracked
  <2>1. Retrack(gone, queued) /\ gone \in SUBSET Spec /\ queued \in SUBSET Spec
    BY <1>3 DEF UpdatePackages, Tracked, Defaults
  <2>2. /\ TableType' /\ JobsInv' /\ HeldInv' /\ UpdatesAreCurrent' /\ TableIsCurrent'
        /\ Tracked' = (Tracked \ gone) \cup queued
    BY <1>3, <2>1, RetrackKeepsInv
  <2>3. Known(discovered, graph)' = known
    BY <1>3 DEF Known
  <2>4. Defaults(known) \cap gone = {}
    BY DEF Defaults
  <2>5. Defaults(Known(discovered, graph))' \subseteq Tracked'
    BY <2>2, <2>3, <2>4 DEF Defaults
  <2>6. Tracked' \subseteq scope'
    BY <1>3 DEF ReplaceScope, Tracked
  <2> QED
    BY <1>1, <2>2, <2>5, <2>6 DEF ScopeInv
<1>4. CASE HandleDiscovery
  BY <1>3, <1>4 DEF HandleDiscovery, fileVars
<1>5. CASE HandleSetPackagePaths
  BY <1>3, <1>5 DEF HandleSetPackagePaths, fileVars
<1> QED
  BY <1>2, <1>4, <1>5

\* An event is taken from the channel when every computation it concerns is begun,
\* bumped or marked to be repeated.
LEMMA EventKeepsInv ==
  ASSUME HashInv, NEW e \in channel, HandleFileEvent(e)
  PROVE  HashInv'
<1> USE DEF HashInv
<1> DEFINE specs  == Concerned(e) \cap Tracked
           queued == {s \in specs : hashes[s].state # "pending"}
           bumped == {j.spec : j \in JobsOf(specs, "debounce")}
           again  == specs \ (queued \cup bumped)
<1>1. /\ channel' = channel \ {e}
      /\ hashes' = [s \in Spec |->
           CASE s \in queued -> Pending(stamp[s] + 1, {})
             [] s \in again  -> [hashes[s] EXCEPT !.rerun = TRUE]
             [] OTHER         -> hashes[s]]
      /\ jobs' = jobs \cup NewJobs(queued)
      /\ Stamp(queued)
      /\ UNCHANGED <<content, sending, lossy, layoutVars, scope, clients, preparing, changes>>
  BY DEF HandleFileEvent, boundVars
<1>2. specs \in SUBSET Spec /\ queued \in SUBSET Spec
  BY DEF Tracked
<1>3. /\ jobs' \subseteq Job /\ stamp' \in [Spec -> Nat]
      /\ \A j \in jobs' : j.version <= stamp'[j.spec]
      /\ \A i, j \in jobs' : i.spec = j.spec /\ i.version = j.version => i = j
      /\ \A s \in queued : \E j \in jobs' : j.spec = s /\ j.version = stamp[s] + 1
      /\ \A j \in NewJobs(queued) : j.phase = "debounce"
      /\ \A j \in jobs : j \in Job /\ j.version <= stamp[j.spec]
  BY <1>1, <1>2, NewVersions
<1>4. \A s \in queued : /\ hashes'[s] \in Entry /\ hashes'[s].state = "pending"
                        /\ hashes'[s].version = stamp[s] + 1 /\ hashes'[s].txs = {}
  <2> TAKE s \in queued
  <2>1. hashes'[s] = Pending(stamp[s] + 1, {})
    BY <1>1, <1>2
  <2>2. stamp[s] + 1 \in Nat
    BY <1>2 DEF TableType
  <2> QED
    BY <2>1, <2>2, FreshEntry
<1>5. \A s \in again : /\ hashes'[s] \in Entry /\ hashes'[s].state = hashes[s].state
                       /\ hashes'[s].state = "pending" /\ hashes'[s].rerun
                       /\ hashes'[s].version = hashes[s].version
                       /\ hashes'[s].txs = hashes[s].txs
  <2>1. \A s \in again : hashes'[s] = [hashes[s] EXCEPT !.rerun = TRUE] /\ hashes[s] \in Entry
    BY <1>1, <1>2 DEF TableType
  <2>2. \A s \in again : hashes[s].state = "pending"
    BY <1>2
  <2> TAKE s \in again
  <2>3. hashes[s] \in Entry /\ hashes'[s] = [hashes[s] EXCEPT !.rerun = TRUE]
    BY <2>1
  <2>4. hashes[s].state = "pending"
    BY <2>2
  <2> HIDE DEF again
  <2> QED
    BY <2>3, <2>4, RerunEntry
<1>6. \A s \in Spec \ (queued \cup again) : hashes'[s] = hashes[s]
  BY <1>1
<1>7. WorldType'
  BY <1>1 DEF WorldType, layoutVars
<1>8. TableType'
  <2>1. hashes' \in [Spec -> Entry]
    BY <1>1, <1>4, <1>5, <1>6 DEF TableType
  <2> QED
    BY <2>1, <1>1, <1>3 DEF TableType
<1>9. ScopeInv'
  <2>1. Tracked' = Tracked
    BY <1>2, <1>4, <1>5, <1>6 DEF Tracked
  <2> QED
    BY <1>1, <2>1 DEF ScopeInv, Defaults, Known, layoutVars
<1>10. JobsInv'
  <2>1. \A s \in Spec : hashes'[s].state = "pending" =>
         \E j \in jobs' : j.spec = s /\ j.version = hashes'[s].version
    <3> SUFFICES ASSUME NEW s \in Spec, hashes'[s].state = "pending"
                 PROVE  \E j \in jobs' : j.spec = s /\ j.version = hashes'[s].version
      OBVIOUS
    <3>1. CASE s \in queued
      BY <3>1, <1>2, <1>3, <1>4, <1>5
    <3>2. CASE s \notin queued
      <4>1. hashes[s].state = "pending" /\ hashes'[s].version = hashes[s].version
        BY <3>2, <1>5, <1>6
      <4>2. PICK j \in jobs : j.spec = s /\ j.version = hashes[s].version
        BY <4>1 DEF JobsInv
      <4> QED
        BY <4>1, <4>2, <1>1
    <3> QED
      BY <3>1, <3>2
  <2> QED
    BY <1>3, <2>1 DEF JobsInv
<1>11. HeldInv'
  <2>1. ASSUME NEW s \in Spec PROVE hashes'[s].txs \subseteq hashes[s].txs
    <3>1. CASE s \in queued
      BY <3>1, <1>4
    <3>2. CASE s \notin queued
      BY <3>2, <1>5, <1>6
    <3> QED
      BY <3>1, <3>2
  <2>2. clients' = clients
    BY <1>1
  <2> QED
    BY <2>1, <2>2 DEF HeldInv
<1>12. \A s \in Spec : s \notin Covering(e) => Underway(s)' = Underway(s)
  BY <1>1 DEF Underway, Covering
<1>13. \A s \in Spec : s \in Covering(e) /\ hashes[s].state # "none" => s \in specs
  BY DEF Concerned, Tracked
<1>14. TableIsCurrent'
  <2> SUFFICES ASSUME NEW s \in Spec, hashes'[s].state = "hashes"
               PROVE  hashes'[s].value = content[s] \/ Underway(s)'
    BY <1>1 DEF TableIsCurrent
  <2>1. s \notin queued /\ s \notin again
    BY <1>4, <1>5
  <2>2. hashes'[s] = hashes[s] /\ s \notin specs
    BY <2>1, <1>6
  <2> QED
    BY <2>2, <1>12, <1>13 DEF TableIsCurrent
<1>15. UpdatesAreCurrent'
  <2> SUFFICES ASSUME NEW j \in jobs', j.phase = "sent", UpdateExpected(j)',
                      ~hashes'[j.spec].rerun
               PROVE  j.value \in {Error, content[j.spec]} \/ Underway(j.spec)'
    BY <1>1 DEF UpdatesAreCurrent
  <2>1. j \in jobs /\ j.spec \in Spec /\ j.version \in Nat /\ j.version <= stamp[j.spec]
    BY <1>1, <1>3 DEF Job
  <2>2. j.spec \notin queued
    BY <2>1, <1>4 DEF UpdateExpected, TableType
  <2>3. j.spec \notin again
    BY <1>5
  <2>4. hashes'[j.spec] = hashes[j.spec] /\ UpdateExpected(j)
    BY <2>1, <2>2, <2>3, <1>6 DEF UpdateExpected
  <2>5. j.spec \notin bumped
    BY <2>1, <2>4 DEF JobsInv, JobsOf, UpdateExpected
  <2>6. j.spec \notin Covering(e)
    BY <2>1, <2>2, <2>3, <2>4, <2>5, <1>13 DEF UpdateExpected
  <2> QED
    BY <2>1, <2>4, <2>6, <1>12 DEF UpdatesAreCurrent
<1> QED
  BY <1>7, <1>8, <1>9, <1>10, <1>11, <1>14, <1>15

\* The update that is waited for settles its entry and answers the queries of the
\* entry, unless the computation is repeated; any other is thrown away.
LEMMA UpdateKeepsInv ==
  ASSUME HashInv, NEW j \in jobs, HandleUpdate(j)
  PROVE  HashInv'
<1> USE DEF HashInv
<1>1. UNCHANGED <<fileVars, layoutVars, scope, preparing, changes>> /\ j.phase = "sent"
  BY DEF HandleUpdate, boundVars
<1>2. j \in Job /\ j.spec \in Spec /\ j.version \in Nat /\ j.value \in Content \cup {Error}
  BY DEF TableType, Job
<1>3. WorldType'
  BY <1>1 DEF WorldType, fileVars, layoutVars
<1>4. \A s \in Spec : Underway(s)' = Underway(s) /\ content'[s] = content[s]
  BY <1>1 DEF Underway, Covering, fileVars
<1>5. ASSUME \A s \in Spec : hashes'[s].state = "none" <=> hashes[s].state = "none"
      PROVE  ScopeInv'
  <2>1. Tracked' = Tracked
    BY <1>5 DEF Tracked
  <2> QED
    BY <1>1, <2>1 DEF ScopeInv, Defaults, Known, layoutVars
<1>6. CASE UpdateExpected(j) /\ Rerun(j)
  <2>1. /\ Stamp({j.spec}) /\ jobs' = (jobs \ {j}) \cup NewJobs({j.spec})
        /\ clients' = clients
        /\ hashes' = [hashes EXCEPT ![j.spec] = Pending(stamp[j.spec] + 1, @.txs)]
    BY <1>6 DEF Rerun
  <2>2. {j.spec} \in SUBSET Spec /\ jobs \ {j} \in SUBSET jobs
    BY <1>2
  <2>3. /\ jobs' \subseteq Job /\ stamp' \in [Spec -> Nat]
        /\ \A i \in jobs' : i.version <= stamp'[i.spec]
        /\ \A i, k \in jobs' : i.spec = k.spec /\ i.version = k.version => i = k
        /\ \A s \in {j.spec} : \E i \in jobs' : i.spec = s /\ i.version = stamp[s] + 1
        /\ \A i \in NewJobs({j.spec}) : i.phase = "debounce"
        /\ \A i \in jobs \ {j} : i \in Job /\ i.version <= stamp[i.spec]
    BY <2>1, <2>2, NewVersions
  <2>4. /\ hashes'[j.spec] \in Entry /\ hashes'[j.spec].state = "pending"
        /\ hashes'[j.spec].version = stamp[j.spec] + 1
        /\ hashes'[j.spec].txs = hashes[j.spec].txs
    <3>1. hashes'[j.spec] = Pending(stamp[j.spec] + 1, hashes[j.spec].txs)
      BY <2>1, <1>2 DEF TableType
    <3>2. stamp[j.spec] + 1 \in Nat /\ hashes[j.spec].txs \in SUBSET Client
      BY <1>2 DEF TableType, Entry
    <3> DEFINE entry == Pending(stamp[j.spec] + 1, hashes[j.spec].txs)
    <3>3. /\ entry \in Entry /\ entry.state = "pending"
          /\ entry.version = stamp[j.spec] + 1 /\ entry.txs = hashes[j.spec].txs
      BY <3>2, ZeroContent DEF Pending, Untracked, Entry
    <3>4. hashes'[j.spec] = entry
      BY <3>1
    <3> HIDE DEF entry
    <3> QED
      BY <3>3, <3>4
  <2>5. \A s \in Spec : s # j.spec => hashes'[s] = hashes[s]
    BY <2>1 DEF TableType
  <2>6. TableType'
    <3>1. hashes' \in [Spec -> Entry]
      BY <2>1, <2>4, <2>5 DEF TableType
    <3> QED
      BY <1>1, <2>1, <2>3, <3>1 DEF TableType
  <2>7. ScopeInv'
    BY <1>5, <1>6, <2>4, <2>5 DEF UpdateExpected
  <2>8. JobsInv'
    <3>1. ASSUME NEW s \in Spec, hashes'[s].state = "pending", s # j.spec
          PROVE  \E i \in jobs' : i.spec = s /\ i.version = hashes'[s].version
      <4>1. PICK i \in jobs : i.spec = s /\ i.version = hashes[s].version
        BY <3>1, <2>5 DEF JobsInv
      <4> QED
        BY <3>1, <4>1, <2>1, <2>5
    <3>2. \E i \in jobs' : i.spec = j.spec /\ i.version = hashes'[j.spec].version
      BY <2>3, <2>4
    <3> QED
      BY <2>3, <3>1, <3>2 DEF JobsInv
  <2>9. HeldInv'
    BY <2>1, <2>4, <2>5, <1>2 DEF HeldInv
  <2>10. UpdatesAreCurrent'
    <3> SUFFICES ASSUME NEW i \in jobs', i.phase = "sent", UpdateExpected(i)',
                        ~hashes'[i.spec].rerun
                 PROVE  i.value \in {Error, content'[i.spec]} \/ Underway(i.spec)'
      BY DEF UpdatesAreCurrent
    <3>1. i \in jobs /\ i.spec \in Spec /\ i.version \in Nat /\ i.version <= stamp[i.spec]
      BY <2>1, <2>3 DEF Job
    <3>2. i.spec # j.spec
      BY <2>4, <3>1 DEF UpdateExpected, TableType
    <3> QED
      BY <3>1, <3>2, <2>5, <1>4 DEF UpdatesAreCurrent, UpdateExpected
  <2>11. TableIsCurrent'
    BY <2>4, <2>5, <1>4 DEF TableIsCurrent
  <2> QED
    BY <1>3, <2>6, <2>7, <2>8, <2>9, <2>10, <2>11
<1>7. CASE UpdateExpected(j) /\ Settle(j)
  <2>1. /\ stamp' = stamp /\ jobs' = jobs \ {j} /\ ~hashes[j.spec].rerun
        /\ Answer(hashes[j.spec].txs, j.value)
        /\ hashes' = [hashes EXCEPT ![j.spec] =
             IF j.value = Error THEN [Untracked EXCEPT !.state = "unavailable"]
                                ELSE [Untracked EXCEPT !.state = "hashes", !.value = j.value]]
    BY <1>7 DEF Settle
  <2>2. /\ clients' \in [Client -> [phase : {"idle", "queued", "held", "answered"},
                                   spec : Spec, answer : Content \cup {Error}]]
        /\ \A c \in Client : clients'[c].spec = clients[c].spec
    BY <1>2, <2>1, AnswerType
  <2>3. /\ hashes'[j.spec] \in Entry /\ hashes'[j.spec].state \in {"hashes", "unavailable"}
        /\ hashes'[j.spec].state = "hashes" =>
             hashes'[j.spec].value = j.value /\ j.value # Error
        /\ hashes'[j.spec].txs = {}
    <3>2. CASE j.value = Error
      <4>1. hashes'[j.spec] = [Untracked EXCEPT !.state = "unavailable"]
        BY <2>1, <1>2, <3>2 DEF TableType
      <4> DEFINE entry == [Untracked EXCEPT !.state = "unavailable"]
      <4>2. entry \in Entry /\ entry.state = "unavailable" /\ entry.txs = {}
        BY ZeroContent DEF Untracked, Entry
      <4>3. hashes'[j.spec] = entry
        BY <4>1
      <4> HIDE DEF entry
      <4> QED
        BY <4>2, <4>3
    <3>3. CASE j.value # Error
      <4>1. hashes'[j.spec] = [Untracked EXCEPT !.state = "hashes", !.value = j.value]
        BY <2>1, <1>2, <3>3 DEF TableType
      <4>2. j.value \in Content
        BY <1>2, <3>3
      <4> DEFINE entry == [Untracked EXCEPT !.state = "hashes", !.value = j.value]
      <4>3. entry \in Entry /\ entry.state = "hashes" /\ entry.value = j.value /\ entry.txs = {}
        BY <4>2, ZeroContent DEF Untracked, Entry
      <4>4. hashes'[j.spec] = entry
        BY <4>1
      <4> HIDE DEF entry
      <4> QED
        BY <4>3, <4>4, <3>3
    <3> QED
      BY <3>2, <3>3
  <2>4. \A s \in Spec : s # j.spec => hashes'[s] = hashes[s]
    BY <2>1 DEF TableType
  <2>5. TableType'
    <3>1. hashes' \in [Spec -> Entry]
      BY <2>1, <2>3, <2>4 DEF TableType
    <3> QED
      BY <1>1, <2>1, <2>2, <3>1 DEF TableType
  <2>6. ScopeInv'
    BY <1>5, <1>7, <2>3, <2>4 DEF UpdateExpected
  <2>7. JobsInv'
    <3>1. ASSUME NEW s \in Spec, hashes'[s].state = "pending"
          PROVE  \E i \in jobs' : i.spec = s /\ i.version = hashes'[s].version
      <4>1. s # j.spec
        BY <2>3, <3>1
      <4>2. PICK i \in jobs : i.spec = s /\ i.version = hashes[s].version
        BY <3>1, <4>1, <2>4 DEF JobsInv
      <4> QED
        BY <4>1, <4>2, <2>1, <2>4
    <3> QED
      BY <2>1, <3>1 DEF JobsInv
  <2>8. HeldInv'
    BY <2>2, <2>3, <2>4, <1>2 DEF HeldInv, TableType, Entry
  <2>9. UpdatesAreCurrent'
    <3> SUFFICES ASSUME NEW i \in jobs', i.phase = "sent", UpdateExpected(i)',
                        ~hashes'[i.spec].rerun
                 PROVE  i.value \in {Error, content'[i.spec]} \/ Underway(i.spec)'
      BY DEF UpdatesAreCurrent
    <3>1. i \in jobs /\ i.spec \in Spec
      BY <2>1 DEF TableType, Job
    <3>2. i.spec # j.spec
      BY <2>3 DEF UpdateExpected
    <3> QED
      BY <3>1, <3>2, <2>4, <1>4 DEF UpdatesAreCurrent, UpdateExpected
  <2>10. TableIsCurrent'
    <3>1. j.value \in {Error, content[j.spec]} \/ Underway(j.spec)
      BY <1>1, <1>7, <2>1 DEF UpdatesAreCurrent
    <3> QED
      BY <2>3, <2>4, <3>1, <1>4 DEF TableIsCurrent
  <2> QED
    BY <1>3, <2>5, <2>6, <2>7, <2>8, <2>9, <2>10
<1>8. CASE ~UpdateExpected(j) /\ jobs' = jobs \ {j} /\ UNCHANGED <<hashes, stamp, clients>>
  <2>1. TableType'
    BY <1>1, <1>8 DEF TableType
  <2>2. ScopeInv'
    BY <1>5, <1>8
  <2>3. JobsInv'
    <3>1. ASSUME NEW s \in Spec, hashes'[s].state = "pending"
          PROVE  \E i \in jobs' : i.spec = s /\ i.version = hashes'[s].version
      <4>1. PICK i \in jobs : i.spec = s /\ i.version = hashes[s].version
        BY <3>1, <1>8 DEF JobsInv
      <4>2. i # j
        BY <3>1, <4>1, <1>8 DEF UpdateExpected
      <4> QED
        BY <4>1, <4>2, <1>8
    <3> QED
      BY <1>8, <3>1 DEF JobsInv
  <2>4. HeldInv' /\ TableIsCurrent'
    BY <1>4, <1>8 DEF HeldInv, TableIsCurrent
  <2>5. UpdatesAreCurrent'
    <3>1. \A i \in jobs : i.spec \in Spec
      BY DEF TableType, Job
    <3> QED
      BY <1>4, <1>8, <3>1 DEF UpdatesAreCurrent, UpdateExpected
  <2> QED
    BY <1>3, <2>1, <2>2, <2>3, <2>4, <2>5
<1> QED
  BY <1>6, <1>7, <1>8 DEF HandleUpdate

\* A query is answered from the table, held by the entry that is pending, or makes
\* the task prepare its inputs.
LEMMA QueryKeepsInv ==
  ASSUME HashInv, NEW c \in Client, HandleGetHash(c)
  PROVE  HashInv'
<1> USE DEF HashInv
<1> DEFINE s == clients[c].spec
           Clients == [phase : {"idle", "queued", "held", "answered"},
                       spec : Spec, answer : Content \cup {Error}]
<1>1. /\ UNCHANGED <<fileVars, layoutVars, scope, stamp, jobs, changes>>
      /\ AnswerTracked(c, s) \/ PrepareInputs(c, s) \/ AnswerUnknown(c, s)
  BY DEF HandleGetHash, boundVars
<1>2. s \in Spec /\ hashes[s] \in Entry
  BY DEF TableType
<1>3. WorldType'
  BY <1>1 DEF WorldType, fileVars, layoutVars
<1>4. \A t \in Spec : Underway(t)' = Underway(t) /\ content'[t] = content[t]
  BY <1>1 DEF Underway, Covering, fileVars
<1>5. ASSUME UNCHANGED hashes, Answer({c}, hashes[s].value) \/ Answer({c}, Error),
             hashes[s].state = "hashes" \/ Answer({c}, Error), UNCHANGED preparing
      PROVE  HashInv'
  <2>1. \E answer \in Content \cup {Error} : Answer({c}, answer)
    BY <1>2, <1>5 DEF Entry
  <2>2. clients' \in [Client -> Clients] /\ \A d \in Client : clients'[d].spec = clients[d].spec
    BY <2>1, AnswerType
  <2>3. TableType'
    BY <1>1, <1>5, <2>2 DEF TableType
  <2>4. ScopeInv' /\ JobsInv'
    BY <1>1, <1>5 DEF ScopeInv, Tracked, Defaults, Known, layoutVars, JobsInv
  <2>5. HeldInv'
    BY <1>5, <2>2 DEF HeldInv, TableType, Entry
  <2>6. UpdatesAreCurrent' /\ TableIsCurrent'
    BY <1>1, <1>4, <1>5 DEF UpdatesAreCurrent, TableIsCurrent, UpdateExpected, TableType, Job
  <2> QED
    BY <1>3, <2>3, <2>4, <2>5, <2>6
<1>6. CASE /\ hashes[s].state = "pending"
           /\ hashes' = [hashes EXCEPT ![s].txs = @ \cup {c}]
           /\ clients' = [clients EXCEPT ![c].phase = "held"]
           /\ UNCHANGED preparing
  <2>1. clients' \in [Client -> Clients] /\ \A d \in Client : clients'[d].spec = clients[d].spec
    BY <1>6 DEF TableType
  <2>2. hashes'[s] = [hashes[s] EXCEPT !.txs = @ \cup {c}]
    BY <1>2, <1>6 DEF TableType
  <2>3. /\ hashes'[s] \in Entry /\ hashes'[s].state = hashes[s].state
        /\ hashes'[s].version = hashes[s].version /\ hashes'[s].rerun = hashes[s].rerun
        /\ hashes'[s].value = hashes[s].value /\ hashes'[s].txs = hashes[s].txs \cup {c}
    BY <1>2, <2>2 DEF Entry
  <2>4. \A t \in Spec : t # s => hashes'[t] = hashes[t]
    BY <1>6 DEF TableType
  <2>5. TableType'
    <3>1. hashes' \in [Spec -> Entry]
      BY <1>6, <2>3, <2>4 DEF TableType
    <3> QED
      BY <1>1, <1>6, <2>1, <3>1 DEF TableType
  <2>6. ScopeInv'
    <3>1. Tracked' = Tracked
      BY <1>2, <2>3, <2>4 DEF Tracked
    <3> QED
      BY <1>1, <3>1 DEF ScopeInv, Defaults, Known, layoutVars
  <2>7. JobsInv'
    BY <1>1, <2>3, <2>4 DEF JobsInv
  <2>8. HeldInv'
    <3> SUFFICES ASSUME NEW t \in Spec, NEW d \in hashes'[t].txs
                 PROVE  clients'[d].spec = t
      BY DEF HeldInv
    <3>1. CASE t = s
      <4>1. d \in hashes[s].txs \cup {c} /\ d \in Client
        BY <1>2, <2>3, <3>1 DEF Entry
      <4>2. clients[d].spec = s
        BY <4>1, <1>2 DEF HeldInv
      <4> QED
        BY <2>1, <3>1, <4>1, <4>2
    <3>2. CASE t # s
      BY <2>1, <2>4, <3>2 DEF HeldInv, TableType, Entry
    <3> QED
      BY <3>1, <3>2
  <2>9. UpdatesAreCurrent'
    <3>1. \A j \in jobs : j.spec \in Spec
      BY DEF TableType, Job
    <3> QED
      BY <1>1, <1>4, <2>3, <2>4, <3>1 DEF UpdatesAreCurrent, UpdateExpected
  <2>10. TableIsCurrent'
    BY <1>4, <2>3, <2>4 DEF TableIsCurrent
  <2> QED
    BY <1>3, <2>5, <2>6, <2>7, <2>8, <2>9, <2>10
<1>7. CASE PrepareInputs(c, s)
  <2>1. UNCHANGED <<hashes, clients>> /\ preparing' = c
    BY <1>7 DEF PrepareInputs
  <2>2. TableType' /\ ScopeInv' /\ JobsInv' /\ HeldInv'
    BY <1>1, <2>1 DEF TableType, ScopeInv, Tracked, Defaults, Known, layoutVars, JobsInv, HeldInv
  <2>3. UpdatesAreCurrent' /\ TableIsCurrent'
    BY <1>1, <1>4, <2>1 DEF UpdatesAreCurrent, TableIsCurrent, UpdateExpected, TableType, Job
  <2> QED
    BY <1>3, <2>2, <2>3
<1>8. CASE AnswerUnknown(c, s)
  BY <1>5, <1>8 DEF AnswerUnknown
<1>9. CASE AnswerTracked(c, s)
  <2>1. hashes[s].state \in {"hashes", "unavailable", "pending"}
    BY <1>2, <1>9 DEF AnswerTracked, Entry
  <2>2. CASE hashes[s].state = "hashes"
    BY <1>5, <1>9, <2>2 DEF AnswerTracked
  <2>3. CASE hashes[s].state = "unavailable"
    BY <1>5, <1>9, <2>3 DEF AnswerTracked
  <2>4. CASE hashes[s].state = "pending"
    BY <1>6, <1>9, <2>4 DEF AnswerTracked
  <2> QED
    BY <2>1, <2>2, <2>3, <2>4
<1> QED
  BY <1>1, <1>7, <1>8, <1>9

\* The scope is extended before the spec is tracked.
LEMMA PreparedKeepsInv ==
  ASSUME HashInv, NEW c \in Client, InputsPrepared(c)
  PROVE  HashInv'
<1> USE DEF HashInv
<1> DEFINE s == clients[c].spec
<1>1. /\ UNCHANGED <<fileVars, layoutVars, changes>> /\ preparing' = None
      /\ scope' = scope \cup {s}
      /\ hashes' = [hashes EXCEPT ![s] = Pending(stamp[s] + 1, {c})]
      /\ jobs' = jobs \cup NewJobs({s})
      /\ Stamp({s})
      /\ clients' = [clients EXCEPT ![c].phase = "held"]
  BY DEF InputsPrepared, boundVars
<1>2. s \in Spec /\ {s} \in SUBSET Spec
  BY DEF TableType
<1>3. /\ jobs' \subseteq Job /\ stamp' \in [Spec -> Nat]
      /\ \A j \in jobs' : j.version <= stamp'[j.spec]
      /\ \A i, j \in jobs' : i.spec = j.spec /\ i.version = j.version => i = j
      /\ \A t \in {s} : \E j \in jobs' : j.spec = t /\ j.version = stamp[t] + 1
      /\ \A j \in NewJobs({s}) : j.phase = "debounce"
      /\ \A j \in jobs : j \in Job /\ j.version <= stamp[j.spec]
  BY <1>1, <1>2, NewVersions
<1>4. /\ hashes'[s] \in Entry /\ hashes'[s].state = "pending"
      /\ hashes'[s].version = stamp[s] + 1 /\ hashes'[s].txs = {c}
  <2> DEFINE entry == Pending(stamp[s] + 1, {c})
  <2>1. hashes'[s] = entry
    BY <1>1, <1>2 DEF TableType
  <2>2. stamp[s] + 1 \in Nat
    BY <1>2 DEF TableType
  <2>3. /\ entry \in Entry /\ entry.state = "pending"
        /\ entry.version = stamp[s] + 1 /\ entry.txs = {c}
    BY <2>2, ZeroContent DEF Pending, Untracked, Entry
  <2> HIDE DEF entry
  <2> QED
    BY <2>1, <2>3
<1>5. \A t \in Spec : t # s => hashes'[t] = hashes[t]
  BY <1>1 DEF TableType
<1>6. clients' \in [Client -> [phase : {"idle", "queued", "held", "answered"},
                             spec : Spec, answer : Content \cup {Error}]]
      /\ \A d \in Client : clients'[d].spec = clients[d].spec
  BY <1>1 DEF TableType
<1>7. \A t \in Spec : Underway(t)' = Underway(t) /\ content'[t] = content[t]
  BY <1>1 DEF Underway, Covering, fileVars
<1>8. WorldType'
  BY <1>1, <1>2 DEF WorldType, fileVars, layoutVars
<1>9. TableType'
  <2>1. hashes' \in [Spec -> Entry]
    BY <1>1, <1>4, <1>5 DEF TableType
  <2> QED
    BY <1>1, <1>3, <1>6, <2>1 DEF TableType
<1>10. ScopeInv'
  <2>1. Tracked' = Tracked \cup {s}
    BY <1>2, <1>4, <1>5 DEF Tracked
  <2> QED
    BY <1>1, <2>1 DEF ScopeInv, Defaults, Known, layoutVars
<1>11. JobsInv'
  <2>1. ASSUME NEW t \in Spec, hashes'[t].state = "pending", t # s
        PROVE  \E j \in jobs' : j.spec = t /\ j.version = hashes'[t].version
    <3>1. PICK j \in jobs : j.spec = t /\ j.version = hashes[t].version
      BY <1>5, <2>1 DEF JobsInv
    <3> QED
      BY <1>1, <1>5, <2>1, <3>1
  <2>2. \E j \in jobs' : j.spec = s /\ j.version = hashes'[s].version
    BY <1>3, <1>4
  <2> QED
    BY <1>3, <2>1, <2>2 DEF JobsInv
<1>12. HeldInv'
  <2> SUFFICES ASSUME NEW t \in Spec, NEW d \in hashes'[t].txs
               PROVE  clients'[d].spec = t
    BY DEF HeldInv
  <2>1. CASE t = s
    BY <1>4, <1>6, <2>1
  <2>2. CASE t # s
    BY <1>5, <1>6, <2>2 DEF HeldInv, TableType, Entry
  <2> QED
    BY <2>1, <2>2
<1>13. UpdatesAreCurrent'
  <2> SUFFICES ASSUME NEW j \in jobs', j.phase = "sent", UpdateExpected(j)',
                      ~hashes'[j.spec].rerun
               PROVE  j.value \in {Error, content'[j.spec]} \/ Underway(j.spec)'
    BY DEF UpdatesAreCurrent
  <2>1. j \in jobs /\ j.spec \in Spec /\ j.version \in Nat /\ j.version <= stamp[j.spec]
    BY <1>1, <1>3 DEF Job
  <2>2. j.spec # s
    BY <1>4, <2>1 DEF UpdateExpected, TableType
  <2> QED
    BY <1>5, <1>7, <2>1, <2>2 DEF UpdatesAreCurrent, UpdateExpected
<1>14. TableIsCurrent'
  BY <1>4, <1>5, <1>7 DEF TableIsCurrent
<1> QED
  BY <1>8, <1>9, <1>10, <1>11, <1>12, <1>13, <1>14

\* A job sends the contents of the moment at which it reads the files.
LEMMA JobKeepsInv ==
  ASSUME HashInv, NEW j \in jobs, JobSteps(j)
  PROVE  HashInv'
<1> USE DEF HashInv
<1>1. j \in Job /\ j.spec \in Spec
  BY DEF TableType, Job
<1>2. PICK next : /\ Advance(j, next)
                  /\ \/ next = [j EXCEPT !.phase = "ready"]
                     \/ \E value \in {content[j.spec], Error} :
                          next = [j EXCEPT !.phase = "sent", !.value = value]
  BY DEF JobSteps
<1>3. /\ jobs' = (jobs \ {j}) \cup {next}
      /\ UNCHANGED <<fileVars, layoutVars, scope, hashes, stamp, clients, preparing, changes>>
  BY <1>2 DEF Advance, boundVars
<1>4. WorldType'
  BY <1>3 DEF WorldType, fileVars, layoutVars
<1>5. content[j.spec] \in Content
  BY <1>1, BoundTypes DEF WorldType, Content
<1>6. /\ next \in Job /\ next.spec = j.spec /\ next.version = j.version
      /\ next.phase = "sent" => next.value \in {content[j.spec], Error}
  <2>1. CASE next = [j EXCEPT !.phase = "ready"]
    BY <1>1, <2>1 DEF Job
  <2>2. ASSUME NEW value \in {content[j.spec], Error},
               next = [j EXCEPT !.phase = "sent", !.value = value]
        PROVE  /\ next \in Job /\ next.spec = j.spec /\ next.version = j.version
               /\ next.value = value
    BY <1>1, <1>5, <2>2 DEF Job
  <2> QED
    BY <1>2, <2>1, <2>2
<1>7. \A s \in Spec : Underway(s)' = Underway(s) /\ content'[s] = content[s]
  BY <1>3 DEF Underway, Covering, fileVars
<1>8. TableType'
  BY <1>3, <1>6 DEF TableType
<1>9. ScopeInv' /\ HeldInv'
  BY <1>3 DEF ScopeInv, Tracked, Defaults, Known, layoutVars, HeldInv
<1>10. JobsInv'
  <2>1. ASSUME NEW s \in Spec, hashes[s].state = "pending"
        PROVE  \E i \in jobs' : i.spec = s /\ i.version = hashes[s].version
    <3>1. PICK i \in jobs : i.spec = s /\ i.version = hashes[s].version
      BY <2>1 DEF JobsInv
    <3> QED
      BY <1>3, <1>6, <3>1
  <2>2. \A i \in jobs' : i.version <= stamp'[i.spec]
    BY <1>3, <1>6 DEF JobsInv
  <2>3. \A i, k \in jobs' : i.spec = k.spec /\ i.version = k.version => i = k
    BY <1>3, <1>6 DEF JobsInv
  <2> QED
    BY <1>3, <2>1, <2>2, <2>3 DEF JobsInv
<1>11. UpdatesAreCurrent'
  BY <1>1, <1>3, <1>6, <1>7 DEF UpdatesAreCurrent, UpdateExpected, TableType, Job
<1>12. TableIsCurrent'
  BY <1>3, <1>7 DEF TableIsCurrent
<1> QED
  BY <1>4, <1>8, <1>9, <1>10, <1>11, <1>12

\* Every step keeps the invariant.
LEMMA StepKeepsInv ==
  ASSUME HashInv, [HashNext]_hashVars
  PROVE  HashInv'
<1>1. CASE HashNext
  BY <1>1, FilesKeepInv, RequestsKeepInv, PackagesKeepInv, EventKeepsInv, UpdateKeepsInv,
     QueryKeepsInv, PreparedKeepsInv, JobKeepsInv DEF HashNext, Subscriber
<1>2. CASE UNCHANGED hashVars
  <2> USE <1>2 DEF hashVars, fileVars, layoutVars, tableVars, boundVars, HashInv
  <2>1. WorldType' /\ TableType'
    BY DEF WorldType, TableType
  <2>2. ScopeInv' /\ JobsInv' /\ HeldInv'
    BY DEF ScopeInv, Tracked, Defaults, Known, JobsInv, HeldInv
  <2>3. UpdatesAreCurrent' /\ TableIsCurrent'
    BY DEF UpdatesAreCurrent, TableIsCurrent, UpdateExpected, Underway, Covering
  <2> QED
    BY <2>1, <2>2, <2>3
<1> QED
  BY <1>1, <1>2

-----------------------------------------------------------------------------
(* The theorems about the hash watcher.                                    *)

\* The inductive invariant of the hash watcher: its scope, the versions of its jobs
\* and the queries it holds agree with its table.
THEOREM HashInvariant == HashSpec => []HashInv
  BY InitHolds, StepKeepsInv, PTL DEF HashSpec

\* Type correctness of the hash watcher.
THEOREM HashTypeCorrect == HashSpec => []HashTypeOK
<1>1. HashInv => HashTypeOK
  <2> SUFFICES ASSUME HashInv PROVE HashTypeOK
    OBVIOUS
  <2>1. content \in [Spec -> Content]
    BY BoundTypes DEF HashInv, WorldType, Content
  <2> QED
    BY <2>1 DEF HashInv, WorldType, TableType, HashTypeOK
<1> QED
  BY <1>1, HashInvariant, PTL

\* The hashes in the table are those of the files, unless an event that replaces
\* them is under way, whatever changed while they were computed, however updates
\* and events are ordered, and whatever the scope let through.
THEOREM HashesAreCurrent == HashSpec => []TableIsCurrent
  BY HashInvariant, PTL DEF HashInv

\* A query is answered with hashes only if they are current in that sense.
THEOREM QueriesGetCurrentHashes == HashSpec => AnswersAreCurrent
<1>1. ASSUME HashInv, [HashNext]_hashVars, NEW c \in Client,
             clients[c].phase # "answered", clients'[c].phase = "answered"
      PROVE  \/ clients'[c].answer \in {Error, content[clients[c].spec]}
             \/ Underway(clients[c].spec)
  <2> USE DEF HashInv
  <2> DEFINE Fine == \/ clients'[c].answer \in {Error, content[clients[c].spec]}
                     \/ Underway(clients[c].spec)
  <2>1. ASSUME NEW answered, NEW answer \in Content \cup {Error}, Answer(answered, answer),
               c \in answered =>
                 answer \in {Error, content[clients[c].spec]} \/ Underway(clients[c].spec)
        PROVE  Fine
    BY <1>1, <2>1, AnswerType
  <2>2. ASSUME NEW dropped, NEW queued, Retrack(dropped, queued)
        PROVE  Fine
    BY <2>1, <2>2 DEF Retrack
  <2>3. CASE HandleDiscovery \/ HandleLoss \/ HandleSetPackagePaths
    BY <2>2, <2>3 DEF HandleDiscovery, HandleLoss, HandleSetPackagePaths, UpdatePackages, Flush
  <2>4. ASSUME NEW j \in jobs, HandleUpdate(j)
        PROVE  Fine
    <3>1. clients' # clients
      BY <1>1
    <3>2. UpdateExpected(j) /\ Settle(j) /\ j.phase = "sent"
      BY <2>4, <3>1 DEF HandleUpdate, Rerun
    <3>3. j.value \in Content \cup {Error} /\ j.spec \in Spec
      BY <1>1 DEF TableType, Job
    <3>4. j.value \in {Error, content[j.spec]} \/ Underway(j.spec)
      BY <1>1, <3>2 DEF UpdatesAreCurrent, Settle
    <3>5. c \in hashes[j.spec].txs => clients[c].spec = j.spec
      BY <1>1, <3>3 DEF HeldInv
    <3>6. Answer(hashes[j.spec].txs, j.value)
      BY <3>2 DEF Settle
    <3> QED
      BY <2>1, <3>3, <3>4, <3>5, <3>6
  <2>5. ASSUME NEW d \in Client, HandleGetHash(d)
        PROVE  Fine
    <3> DEFINE s == clients[d].spec
    <3>1. s \in Spec /\ hashes[s] \in Entry
      BY <1>1 DEF TableType
    <3>2. CASE hashes[s].state = "hashes" /\ Answer({d}, hashes[s].value)
      <4>1. hashes[s].value \in Content
        BY <3>1 DEF Entry
      <4>2. hashes[s].value = content[s] \/ Underway(s)
        BY <1>1, <3>1, <3>2 DEF TableIsCurrent
      <4>3. c \in {d} => clients[c].spec = s
        OBVIOUS
      <4> QED
        BY <2>1, <3>2, <4>1, <4>2, <4>3
    <3>3. CASE Answer({d}, Error)
      BY <2>1, <3>3
    <3>4. CASE clients' = [clients EXCEPT ![d].phase = "held"] \/ UNCHANGED clients
      BY <1>1, <3>4 DEF TableType
    <3>5. hashes[s].state \in {"none", "hashes", "unavailable", "pending"}
      BY <3>1 DEF Entry
    <3>6. CASE AnswerTracked(d, s)
      BY <3>2, <3>3, <3>4, <3>5, <3>6 DEF AnswerTracked
    <3>7. CASE PrepareInputs(d, s) \/ AnswerUnknown(d, s)
      BY <3>3, <3>4, <3>7 DEF PrepareInputs, AnswerUnknown
    <3> QED
      BY <2>5, <3>6, <3>7 DEF HandleGetHash
  <2>6. ASSUME NEW d \in Client, Ask(d) \/ InputsPrepared(d)
        PROVE  Fine
    BY <1>1, <2>6 DEF Ask, InputsPrepared, TableType
  <2>7. ASSUME UNCHANGED clients
        PROVE  Fine
    BY <1>1, <2>7
  <2>8. CASE \/ \E p \in Package, f \in File : Change(p, f)
             \/ \E e \in sending : Send(e)
             \/ Lose \/ Discover \/ RequestPaths
             \/ \E e \in channel : HandleFileEvent(e)
             \/ \E j \in jobs : JobSteps(j)
             \/ UNCHANGED hashVars
    BY <2>7, <2>8 DEF Change, Send, Lose, Discover, RequestPaths, HandleFileEvent, JobSteps,
       Advance, tableVars, hashVars
  <2> QED
    BY <1>1, <2>3, <2>4, <2>5, <2>6, <2>8 DEF HashNext, Subscriber
<1>2. HashInv /\ [HashNext]_hashVars =>
        [\A c \in Client : LET s == clients[c].spec IN
           clients[c].phase # "answered" /\ clients'[c].phase = "answered" =>
             clients'[c].answer \in {Error, content[s]} \/ Underway(s)]_hashVars
  BY <1>1
<1> QED
  BY <1>2, HashInvariant, PTL DEF HashSpec, AnswersAreCurrent

-----------------------------------------------------------------------------
(* The debouncer.                                                          *)

\* The inductive invariant: the deadline covers every accepted bump exactly when
\* the task has seen the last serial, and the wait is over only when it has.
SerialInv ==
  /\ serial \in 0 .. MaxBumps
  /\ seen \in 0 .. MaxBumps
  /\ seen <= serial

TimerInv ==
  /\ open \in BOOLEAN /\ permit \in BOOLEAN /\ due \in BOOLEAN /\ covered \in BOOLEAN
  /\ debounce \in DebounceState
  /\ debounce = "start" => ~covered
  /\ debounce # "start" => (covered <=> seen = serial)
  /\ open <=> debounce # "done"
  /\ debounce = "done" => seen = serial

DebouncerInv == SerialInv /\ TimerInv

\* The serial never falls behind what the task has seen of it.
LEMMA SerialStep ==
  BumpAssumption /\ SerialInv /\ DebouncerNext => SerialInv'
  BY DEF BumpAssumption, SerialInv, DebouncerNext, Bump, DeadlinePasses, Debounce, Begin,
     StartTimer, TakePermit, Notified, TakeTimeout, TimedOut, Close

\* The inductive invariant of the debouncer.
THEOREM DebouncerInvariant ==
  ASSUME BumpAssumption
  PROVE  DebouncerSpec => []DebouncerInv
<1>1. DebouncerInit => DebouncerInv
  <2>1. DebouncerInit => SerialInv
    BY BumpAssumption DEF BumpAssumption, DebouncerInit, SerialInv
  <2>2. DebouncerInit => TimerInv
    BY Zenon DEF DebouncerInit, TimerInv, DebounceState
  <2> QED
    BY <2>1, <2>2 DEF DebouncerInv
<1>2. DebouncerInv /\ [DebouncerNext]_debouncerVars => DebouncerInv'
  <2> SUFFICES ASSUME SerialInv, TimerInv, [DebouncerNext]_debouncerVars
               PROVE  SerialInv' /\ TimerInv'
    BY DEF DebouncerInv
  <2>1. SerialInv'
    <3>1. CASE UNCHANGED debouncerVars
      BY <3>1 DEF debouncerVars, SerialInv
    <3> QED
      BY <3>1, SerialStep, BumpAssumption
  <2> SUFFICES TimerInv'
    BY <2>1
  <2> USE DEF TimerInv, DebounceState
  <2>2. CASE Bump
    <3>1. seen' # serial'
      BY <2>2 DEF Bump, SerialInv
    <3> QED
      BY <2>2, <3>1, Zenon DEF Bump
  <2>3. CASE DeadlinePasses
    BY <2>3, Zenon DEF DeadlinePasses
  <2>4. CASE Begin
    BY <2>4, Zenon DEF Begin, StartTimer
  <2>5. CASE TakePermit
    BY <2>5, Zenon DEF TakePermit
  <2>6. CASE Notified
    BY <2>6, Zenon DEF Notified, StartTimer
  <2>7. CASE TakeTimeout
    BY <2>7, Zenon DEF TakeTimeout
  <2>8. CASE TimedOut
    BY <2>8, Zenon DEF TimedOut, StartTimer, Close
  <2>9. CASE UNCHANGED debouncerVars
    BY <2>9, Zenon DEF debouncerVars
  <2> QED
    BY <2>2, <2>3, <2>4, <2>5, <2>6, <2>7, <2>8, <2>9 DEF DebouncerNext, Debounce
<1> QED
  BY <1>1, <1>2, PTL DEF DebouncerSpec

\* Type correctness of the debouncer.
THEOREM DebouncerTypeCorrect ==
  ASSUME BumpAssumption
  PROVE  DebouncerSpec => []DebouncerTypeOK
<1>1. DebouncerInv => DebouncerTypeOK
  BY DEF DebouncerInv, SerialInv, TimerInv, DebouncerTypeOK
<1> QED
  BY <1>1, DebouncerInvariant, BumpAssumption, PTL

\* For any number of bumps, in any order with the timer and the notifications,
\* the wait ends only after a timeout without a bump.
THEOREM DebounceIsQuiet ==
  ASSUME BumpAssumption
  PROVE  DebouncerSpec => []QuietBeforeClose
<1>1. DebouncerInv => QuietBeforeClose
  BY Zenon DEF DebouncerInv, TimerInv, QuietBeforeClose
<1> QED
  BY <1>1, DebouncerInvariant, BumpAssumption, PTL
=============================================================================
