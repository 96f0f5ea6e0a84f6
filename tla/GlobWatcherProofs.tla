-------------------------- MODULE GlobWatcherProofs --------------------------
(***************************************************************************)
(* The glob watcher for any globs, paths and callers: its registrations,   *)
(* then what it reports as unchanged.                                      *)
(***************************************************************************)
EXTENDS GlobWatcher, TLAPS

\* The state of the tracker and of the callers.
TrackerTypeOK ==
  /\ pending \subseteq Registration /\ cancels \subseteq Registration
  /\ committing \in Registration \cup {None}
  /\ active \in [Hash -> Registration \cup {None}]
  /\ include \in [Registration -> SUBSET Glob]
  /\ statuses \in [Glob -> SUBSET Hash]

CallTypeOK ==
  call \in [Caller -> {"idle", "pending", "sent", "cancelling", "ok", "timeout", "error"}]

\* A hash is active with a registration of that hash.
HashInv == \A h \in Hash : active[h] # None => HashOf[active[h]] = h

\* A registration whose request is under way, or that the tracker has committed or is
\* about to, was sent; a caller that gives up marks its registration first.
CallInv ==
  /\ \A m \in requests \cup held \cup ready :
       m[1] \in Caller /\ call[m[1]] \notin {"idle", "pending"}
  /\ \A r \in Active : call[r] \notin {"idle", "pending", "timeout", "error"}
  /\ committing # None => call[committing] \notin {"idle", "pending", "timeout", "error"}
  /\ \A r \in Registration : call[r] \in {"timeout", "error"} => r \in cancelled \ pending
  /\ cancels \subseteq cancelled /\ cancelled \subseteq Registration

\* The inductive invariant of the tracker.
GlobInv == TrackerTypeOK /\ CallTypeOK /\ HashInv /\ StatusesAreTracked /\ CallInv

-----------------------------------------------------------------------------
(* The operations on the state of the tracker.                             *)

\* The part of the invariant that is about that state alone.
StateInv == TrackerTypeOK /\ HashInv /\ StatusesAreTracked

\* commit_registration_state
LEMMA CommitKeeps ==
  ASSUME StateInv, NEW r \in Registration, Commit(r),
         cancels' \subseteq Registration, committing' \in Registration \cup {None}
  PROVE  StateInv' /\ Active' \subseteq Active \cup {r}
<1> USE GlobAssumption DEF Commit, Restatus, StateInv
<1>1. TrackerTypeOK'
  BY DEF TrackerTypeOK
<1>2. HashInv'
  BY DEF HashInv, TrackerTypeOK
<1>3. StatusesAreTracked'
  BY DEF StatusesAreTracked, TrackerTypeOK
<1>4. Active' \subseteq Active \cup {r}
  BY DEF Active, TrackerTypeOK
<1>5. QED
  BY <1>1, <1>2, <1>3, <1>4

\* remove_registration
LEMMA RemoveKeeps ==
  ASSUME StateInv, NEW r \in Registration, Remove(r),
         cancels' \subseteq Registration, committing' \in Registration \cup {None}
  PROVE  StateInv' /\ Active' \subseteq Active \ {r} /\ pending' = pending \ {r}
<1> USE GlobAssumption DEF Remove, Restatus, StateInv
<1>1. TrackerTypeOK'
  BY DEF TrackerTypeOK
<1>2. HashInv'
  BY DEF HashInv, TrackerTypeOK
<1>3. StatusesAreTracked'
  BY DEF StatusesAreTracked, TrackerTypeOK
<1>4. Active' \subseteq Active \ {r}
  BY DEF Active, TrackerTypeOK, HashInv
<1>5. QED
  BY <1>1, <1>2, <1>3, <1>4

\* invalidate_path_candidates
LEMMA InvalidateKeeps ==
  ASSUME StateInv, NEW p, Invalidate(p), UNCHANGED <<cancels, committing>>
  PROVE  StateInv' /\ Active' \subseteq Active
<1> DEFINE hit == [r \in Registration |-> IF r \in Active THEN Hit(r, p) ELSE {}]
<1>1. /\ include' = [r \in Registration |-> include[r] \ hit[r]]
      /\ active'  = [h \in Hash |-> IF active[h] # None /\ hit[active[h]] # {}
                                         /\ include'[active[h]] = {}
                                    THEN None ELSE active[h]]
      /\ statuses' = [g \in Glob |-> {h \in statuses[g] :
                                        ~(active[h] # None /\ g \in hit[active[h]])}]
      /\ UNCHANGED pending
  BY DEF Invalidate
<1> HIDE DEF hit
<1> USE GlobAssumption DEF StateInv
<1>2. TrackerTypeOK'
  BY <1>1 DEF TrackerTypeOK
<1>3. HashInv'
  BY <1>1 DEF HashInv, TrackerTypeOK
<1>4. StatusesAreTracked'
  BY <1>1 DEF StatusesAreTracked, TrackerTypeOK
<1>5. Active' \subseteq Active
  BY <1>1 DEF Active, TrackerTypeOK
<1>6. QED
  BY <1>2, <1>3, <1>4, <1>5

\* on_error
LEMMA LossKeeps ==
  ASSUME StateInv, active' = [h \in Hash |-> None], statuses' = [g \in Glob |-> {}],
         UNCHANGED <<pending, include, cancels, committing>>
  PROVE  StateInv' /\ Active' = {}
BY GlobAssumption DEF StateInv, TrackerTypeOK, HashInv, StatusesAreTracked, Active

\* Nothing happens to the state.
LEMMA StateStays ==
  ASSUME StateInv, UNCHANGED stateVars,
         cancels' \subseteq Registration, committing' \in Registration \cup {None}
  PROVE  StateInv' /\ Active' = Active
BY DEF StateInv, stateVars, TrackerTypeOK, HashInv, StatusesAreTracked, Active

-----------------------------------------------------------------------------
(* The steps.                                                              *)

\* The files and the watcher do not touch the state of the tracker.
LEMMA WatcherStep ==
  ASSUME GlobInv, (\E p \in Path : WriteFile(p)) \/ Route \/ Lose \/ UNCHANGED globVars
  PROVE  GlobInv'
<1>1. UNCHANGED <<cookieVars, queryVars, stateVars, callVars>>
  BY DEF WriteFile, Route, Lose, globVars, historyVars, boundVars
<1>2. StateInv'
  BY <1>1, StateStays DEF GlobInv, StateInv, TrackerTypeOK, queryVars, callVars
<1>3. CallTypeOK'
  BY <1>1 DEF GlobInv, CallTypeOK, callVars
<1>4. CallInv'
  BY <1>1 DEF GlobInv, CallInv, Active, cookieVars, queryVars, stateVars, callVars
<1>5. QED
  BY <1>2, <1>3, <1>4 DEF GlobInv, StateInv

\* The callers.
LEMMA CallerStep ==
  ASSUME GlobInv, NEW c \in Caller,
         \/ c \in Registration /\ (WatchGlobs(c) \/ RequestFails(c) \/ WatchTimesOut(c))
         \/ c \in Registration /\ RequestWatch(c)
         \/ c \in Query /\ (RequestChanges(c) \/ QueryTimesOut(c))
  PROVE  GlobInv'
<1> USE GlobAssumption
<1>1. CASE c \in Registration /\ WatchGlobs(c)
  <2>1. StateInv' /\ Active' = Active
    BY <1>1 DEF WatchGlobs, GlobInv, StateInv, TrackerTypeOK, HashInv, StatusesAreTracked,
                Active, queryVars
  <2>2. CallTypeOK'
    BY <1>1 DEF WatchGlobs, Call, GlobInv, CallTypeOK
  <2>3. CallInv'
    BY <1>1, <2>1 DEF WatchGlobs, Call, GlobInv, CallTypeOK, CallInv, queryVars, cookieVars, Caller
  <2>4. QED
    BY <2>1, <2>2, <2>3 DEF GlobInv, StateInv
<1>2. CASE c \in Registration /\ RequestFails(c)
  <2>1. StateInv' /\ Active' = Active
    BY <1>2 DEF RequestFails, GlobInv, StateInv, TrackerTypeOK, HashInv, StatusesAreTracked,
                Active, queryVars
  <2>2. CallTypeOK'
    BY <1>2 DEF RequestFails, Call, GlobInv, CallTypeOK
  <2>3. CallInv'
    BY <1>2, <2>1 DEF RequestFails, Call, GlobInv, CallTypeOK, CallInv, queryVars, cookieVars, Caller
  <2>4. QED
    BY <2>1, <2>2, <2>3 DEF GlobInv, StateInv
<1>3. CASE c \in Registration /\ WatchTimesOut(c)
  <2>1. StateInv' /\ Active' = Active
    BY <1>3, StateStays DEF WatchTimesOut, GlobInv, StateInv, TrackerTypeOK, queryVars
  <2>2. CallTypeOK'
    BY <1>3 DEF WatchTimesOut, Call, GlobInv, CallTypeOK
  <2>3. CallInv'
    BY <1>3, <2>1 DEF WatchTimesOut, Call, GlobInv, CallTypeOK, CallInv, queryVars, cookieVars,
                      stateVars, Caller
  <2>4. QED
    BY <2>1, <2>2, <2>3 DEF GlobInv, StateInv
<1>4. CASE SendRequest(c) /\ call[c] \in {"idle", "pending"} /\ (c \in Query \/ call[c] = "pending")
  <2>1. StateInv' /\ Active' = Active
    BY <1>4, StateStays DEF SendRequest, GlobInv, StateInv, TrackerTypeOK, queryVars
  <2>2. CallTypeOK'
    BY <1>4 DEF SendRequest, Call, GlobInv, CallTypeOK
  <2>3. CallInv'
    BY <1>4, <2>1 DEF SendRequest, Call, GlobInv, CallTypeOK, CallInv, queryVars, stateVars, Caller
  <2>4. QED
    BY <2>1, <2>2, <2>3 DEF GlobInv, StateInv
<1>5. CASE c \in Query /\ QueryTimesOut(c)
  <2>1. StateInv' /\ Active' = Active
    BY <1>5, StateStays DEF QueryTimesOut, GlobInv, StateInv, TrackerTypeOK, queryVars
  <2>2. CallTypeOK'
    BY <1>5 DEF QueryTimesOut, Call, GlobInv, CallTypeOK
  <2>3. CallInv'
    BY <1>5, <2>1 DEF QueryTimesOut, Call, GlobInv, CallTypeOK, TrackerTypeOK, CallInv, queryVars,
                      cookieVars, stateVars, Caller, Active
  <2>4. QED
    BY <2>1, <2>2, <2>3 DEF GlobInv, StateInv
<1>6. QED
  BY <1>1, <1>2, <1>3, <1>4, <1>5 DEF RequestWatch, RequestChanges

\* The tracker.
LEMMA TrackerStep ==
  ASSUME GlobInv, Tracker
  PROVE  GlobInv'
<1> USE GlobAssumption
<1>1. ASSUME NEW r \in Registration, HandleCancel(r)
      PROVE  GlobInv'
  <2>1. StateInv' /\ Active' \subseteq Active \ {r} /\ pending' = pending \ {r}
    BY <1>1, RemoveKeeps DEF HandleCancel, GlobInv, StateInv, TrackerTypeOK, queryVars
  <2>2. CallTypeOK'
    BY <1>1 DEF HandleCancel, Call, GlobInv, CallTypeOK
  <2>3. CallInv'
    BY <1>1, <2>1 DEF HandleCancel, IterationOver, Call, GlobInv, CallTypeOK, CallInv, queryVars,
                      cookieVars, Caller
  <2>4. QED
    BY <2>1, <2>2, <2>3 DEF GlobInv, StateInv
<1>2. ASSUME NEW m \in requests, ReceiveRequest(m)
      PROVE  GlobInv'
  <2>1. StateInv' /\ Active' = Active
    BY <1>2, StateStays DEF ReceiveRequest, GlobInv, StateInv, TrackerTypeOK, callVars
  <2>2. CallTypeOK'
    BY <1>2 DEF ReceiveRequest, GlobInv, CallTypeOK, callVars
  <2>3. CallInv'
    BY <1>2, <2>1 DEF ReceiveRequest, GlobInv, CallInv, callVars, stateVars
  <2>4. QED
    BY <2>1, <2>2, <2>3 DEF GlobInv, StateInv
<1>3. CASE HandleCookie
  <2>1. StateInv' /\ Active' = Active
    BY <1>3, StateStays DEF HandleCookie, GlobInv, StateInv, TrackerTypeOK, callVars
  <2>2. CallTypeOK'
    BY <1>3 DEF HandleCookie, GlobInv, CallTypeOK, callVars
  <2>3. ready' \subseteq held /\ held' \subseteq held
    BY <1>3 DEF HandleCookie, Seen
  <2>4. CallInv'
    BY <1>3, <2>1, <2>3 DEF HandleCookie, GlobInv, CallInv, callVars, stateVars
  <2>5. QED
    BY <2>1, <2>2, <2>4 DEF GlobInv, StateInv
<1>4. CASE HandleQuery
  <2>1. PICK m \in ready :
          /\ ready' = ready \ {m}
          /\ \/ /\ m[1] \in cancelled
                /\ Remove(m[1])
                /\ UNCHANGED <<committing, call>>
             \/ /\ m[1] \in Registration \ cancelled
                /\ committing' = m[1]
                /\ UNCHANGED <<stateVars, call>>
             \/ /\ m[1] \in Query
                /\ Call(m[1], IF call[m[1]] = "sent" THEN "ok" ELSE call[m[1]])
                /\ UNCHANGED <<committing, stateVars>>
    BY <1>4 DEF HandleQuery
  <2>2. UNCHANGED <<requests, held, cancels, cancelled>> /\ committing = None
    BY <1>4 DEF HandleQuery, cookieVars
  <2>3. m[1] \in Caller /\ call[m[1]] \notin {"idle", "pending"}
    BY DEF GlobInv, CallInv
  <2>4. CASE m[1] \in Registration /\ Remove(m[1]) /\ UNCHANGED <<committing, call>>
    <3>1. StateInv' /\ Active' \subseteq Active /\ pending' \subseteq pending
      BY <2>2, <2>4, RemoveKeeps DEF GlobInv, StateInv, TrackerTypeOK
    <3>2. CallTypeOK'
      BY <2>4 DEF GlobInv, CallTypeOK
    <3>3. CallInv'
      BY <2>1, <2>2, <2>4, <3>1 DEF GlobInv, CallInv
    <3>4. QED
      BY <3>1, <3>2, <3>3 DEF GlobInv, StateInv
  <2>5. CASE m[1] \in Registration \ cancelled /\ committing' = m[1] /\ UNCHANGED <<stateVars, call>>
    <3>1. StateInv' /\ Active' = Active
      BY <2>2, <2>5, StateStays DEF GlobInv, StateInv, TrackerTypeOK
    <3>2. CallTypeOK'
      BY <2>5 DEF GlobInv, CallTypeOK
    <3>3. CallInv'
      BY <2>1, <2>2, <2>3, <2>5, <3>1 DEF GlobInv, CallInv, stateVars
    <3>4. QED
      BY <3>1, <3>2, <3>3 DEF GlobInv, StateInv
  <2>6. CASE /\ m[1] \in Query
             /\ Call(m[1], IF call[m[1]] = "sent" THEN "ok" ELSE call[m[1]])
             /\ UNCHANGED <<committing, stateVars>>
    <3>1. StateInv' /\ Active' = Active
      BY <2>2, <2>6, StateStays DEF GlobInv, StateInv, TrackerTypeOK
    <3>2. CallTypeOK'
      BY <2>3, <2>6 DEF GlobInv, CallTypeOK, Call
    <3>3. CallInv'
      BY <2>1, <2>2, <2>3, <2>6, <3>1 DEF GlobInv, CallInv, CallTypeOK, TrackerTypeOK, Active,
                                         Call, Caller, stateVars
    <3>4. QED
      BY <3>1, <3>2, <3>3 DEF GlobInv, StateInv
  <2>7. QED
    BY <2>1, <2>4, <2>5, <2>6 DEF GlobInv, CallInv
<1>5. CASE CommitRegistration
  <2>1. committing \in Registration
    BY <1>5 DEF CommitRegistration, GlobInv, TrackerTypeOK
  <2>2. StateInv' /\ Active' \subseteq Active \cup {committing}
    BY <1>5, <2>1, CommitKeeps DEF CommitRegistration, GlobInv, StateInv, TrackerTypeOK
  <2>3. call[committing] \notin {"idle", "pending", "timeout", "error"}
    BY <1>5 DEF CommitRegistration, GlobInv, CallInv
  <2>4. CallTypeOK'
    BY <1>5, <2>1 DEF CommitRegistration, Call, GlobInv, CallTypeOK, Caller
  <2>5. pending' \subseteq pending
    BY <1>5 DEF CommitRegistration, Commit
  <2>6. CallInv'
    BY <1>5, <2>1, <2>2, <2>3, <2>5 DEF CommitRegistration, Call, GlobInv, CallTypeOK, CallInv,
                                        cookieVars, Caller
  <2>7. QED
    BY <2>2, <2>4, <2>6 DEF GlobInv, StateInv
<1>6. CASE HandleFile
  <2>1. StateInv' /\ Active' \subseteq Active
    BY <1>6, InvalidateKeeps DEF HandleFile, GlobInv, StateInv, queryVars, callVars
  <2>2. CallTypeOK'
    BY <1>6 DEF HandleFile, GlobInv, CallTypeOK, callVars
  <2>3. UNCHANGED <<pending, cookieVars, queryVars, callVars>>
    BY <1>6 DEF HandleFile, Invalidate
  <2>4. CallInv'
    BY <2>1, <2>3 DEF GlobInv, CallInv, cookieVars, queryVars, callVars
  <2>5. QED
    BY <2>1, <2>2, <2>4 DEF GlobInv, StateInv
<1>7. CASE HandleLoss
  <2>1. StateInv' /\ Active' = {}
    BY <1>7, LossKeeps DEF HandleLoss, GlobInv, StateInv, queryVars, callVars
  <2>2. CallTypeOK'
    BY <1>7 DEF HandleLoss, GlobInv, CallTypeOK, callVars
  <2>3. CallInv'
    BY <1>7, <2>1 DEF HandleLoss, GlobInv, CallInv, cookieVars, queryVars, callVars
  <2>4. QED
    BY <2>1, <2>2, <2>3 DEF GlobInv, StateInv
<1>8. QED
  BY <1>1, <1>2, <1>3, <1>4, <1>5, <1>6, <1>7 DEF Tracker

-----------------------------------------------------------------------------
(* The theorems.                                                           *)

\* The inductive invariant holds when nobody has called.
LEMMA GlobInvInit == GlobInit => GlobInv
<1> SUFFICES ASSUME GlobInit
             PROVE  GlobInv
  OBVIOUS
<1>1. TrackerTypeOK /\ CallTypeOK
  BY GlobAssumption DEF GlobInit, TrackerTypeOK, CallTypeOK
<1>2. HashInv /\ StatusesAreTracked
  BY DEF GlobInit, HashInv, StatusesAreTracked
<1>3. CallInv
  BY DEF GlobInit, CallInv, Active, Caller
<1>4. QED
  BY <1>1, <1>2, <1>3 DEF GlobInv

\* The inductive invariant holds of every behaviour.
THEOREM GlobInvariant == GlobSpec => []GlobInv
<1>1. GlobInit => GlobInv
  BY GlobInvInit
<1>2. GlobInv /\ [GlobNext]_globVars => GlobInv'
  BY WatcherStep, CallerStep, TrackerStep DEF GlobNext, Caller
<1>3. QED
  BY <1>1, <1>2, PTL DEF GlobSpec

\* commit_registration_state, remove_registration, invalidate_path_candidates and
\* on_error keep the two indexes of the tracker in step, whatever is registered,
\* replaced, cancelled, changed or lost in between.
THEOREM StatusesStayTracked == GlobSpec => []StatusesAreTracked
<1>1. GlobInv => StatusesAreTracked
  BY DEF GlobInv
<1>2. QED
  BY <1>1, GlobInvariant, PTL

\* The late answer to a caller that gave up registers nothing: its cancel, its mark
\* and its commit cannot come in an order that leaves the registration behind.
THEOREM GivenUpStayGone == GlobSpec => []GivenUpIsGone
<1>1. GlobInv => GivenUpIsGone
  BY DEF GlobInv, CallInv, GivenUpIsGone
<1>2. QED
  BY <1>1, GlobInvariant, PTL

-----------------------------------------------------------------------------
(* What changed and what comes: the invariant behind UnchangedIsTrue.      *)

\* What the watcher may send: any file, and cookies with any serial.
Events == ({"cookie"} \X Nat) \cup ({"file"} \X Path)

\* A cookie that lets a request with serial n go.
Lets(e, n) == e[1] = "cookie" /\ e[2] >= n

\* If both are cookies, d was written first.
Before(d, e) == d[1] = "cookie" /\ e[1] = "cookie" => d[2] < e[2]

\* The cookies in s and then in t come in the order of their serials.
Rising(s, t) ==
  /\ \A i, j \in DOMAIN s : i < j => Before(s[i], s[j])
  /\ \A i \in DOMAIN s, j \in DOMAIN t : Before(s[i], t[j])
  /\ \A i, j \in DOMAIN t : i < j => Before(t[i], t[j])

\* In s and then in t there is an event of X that no cookie which lets n go precedes.
Ahead(s, t, X, n) ==
  \/ \E i \in DOMAIN s : s[i] \in X /\ \A j \in 1 .. i : ~Lets(s[j], n)
  \/ /\ \A j \in DOMAIN s : ~Lets(s[j], n)
     /\ \E i \in DOMAIN t : t[i] \in X /\ \A j \in 1 .. i : ~Lets(t[j], n)

\* The events that take g from r.
Concerning(r, g) == {File(p) : p \in Matches[g] \ ExcludedBy[r]}

\* The requests the tracker has not answered.
Asking == requests \cup held \cup ready

\* The types of the streams, the serials and the history.
StreamTypeOK ==
  /\ disk \in Seq(Events) /\ channel \in Seq(Events) /\ lossy \in BOOLEAN
  /\ serial \in Nat /\ latest \in Nat
  /\ \A m \in Asking : m[2] \in Nat
  /\ dirty \in [Registration -> SUBSET Glob]
  /\ asked \in [Query -> [Registration -> SUBSET Glob]]

\* The cookies that were handled were written before those to come, and a request is
\* ready when its own cookie, or a later one, was handled.
SerialInv ==
  /\ latest <= serial
  /\ \A i \in DOMAIN channel : channel[i][1] = "cookie" =>
       latest < channel[i][2] /\ channel[i][2] <= serial
  /\ \A i \in DOMAIN disk : disk[i][1] = "cookie" =>
       latest < disk[i][2] /\ disk[i][2] <= serial
  /\ Rising(channel, disk)
  /\ \A m \in ready : m[2] <= latest

\* Nothing is known to have changed of a registration before its caller was told that
\* it is confirmed, and then it is not pending any more.
ConfirmedInv ==
  /\ \A r \in pending : call[r] \in {"pending", "sent", "cancelling"}
  /\ \A r \in cancels : call[r] = "cancelling"
  /\ \A r \in Registration : call[r] # "ok" => dirty[r] = {}
  /\ \A q \in Query : \A r \in Registration : asked[q][r] \subseteq dirty[r]

\* A glob that changed and that the tracker takes to be unchanged has its event on
\* the way.
DirtyInv ==
  \A r \in Active : \A g \in include[r] \cap dirty[r] :
    lossy \/ Ahead(channel, disk, Concerning(r, g), serial + 1)

\* If a query was made after the change, the event is ahead of its cookie, which is
\* still to be handled.
AskedInv ==
  \A m \in Asking : m[1] \in Query =>
    \A r \in Active : \A g \in include[r] \cap asked[m[1]][r] :
      /\ m[2] > latest
      /\ lossy \/ Ahead(channel, disk, Concerning(r, g), m[2])

\* The inductive invariant of what is reported as unchanged.
ChangeInv ==
  GlobInv /\ StreamTypeOK /\ SerialInv /\ ConfirmedInv /\ DirtyInv /\ AskedInv

-----------------------------------------------------------------------------
(* Streams of events.                                                      *)

\* Appending at the end.
LEMMA AppendedEvent ==
  ASSUME NEW s \in Seq(Events), NEW e \in Events
  PROVE  /\ Append(s, e) \in Seq(Events) /\ DOMAIN s \subseteq DOMAIN Append(s, e)
         /\ \A i \in DOMAIN s : Append(s, e)[i] = s[i] /\ i < Len(s) + 1
         /\ Len(s) + 1 \in DOMAIN Append(s, e) /\ Append(s, e)[Len(s) + 1] = e
         /\ \A i \in DOMAIN Append(s, e) : i \in DOMAIN s \/ i = Len(s) + 1
         /\ \A i \in DOMAIN s : 1 .. i \subseteq DOMAIN s
         /\ 1 .. Len(s) = DOMAIN s /\ Len(s) \in Nat
  OBVIOUS

\* Taking from the front.
LEMMA TakenEvent ==
  ASSUME NEW s \in Seq(Events), s # <<>>
  PROVE  /\ Tail(s) \in Seq(Events) /\ Head(s) = s[1] /\ 1 \in DOMAIN s /\ Head(s) \in Events
         /\ DOMAIN s \subseteq Nat \ {0} /\ DOMAIN Tail(s) \subseteq Nat \ {0}
         /\ \A i \in DOMAIN Tail(s) : i + 1 \in DOMAIN s /\ Tail(s)[i] = s[i + 1]
         /\ \A i \in DOMAIN s : i # 1 => i - 1 \in DOMAIN Tail(s) /\ Tail(s)[i - 1] = s[i]
         /\ \A i \in DOMAIN s : 1 .. i \subseteq DOMAIN s
         /\ \A i \in DOMAIN Tail(s) : 1 .. i \subseteq DOMAIN Tail(s)
  OBVIOUS

\* An event stays ahead when another is appended,
LEMMA AheadAppend ==
  ASSUME NEW s \in Seq(Events), NEW t \in Seq(Events), NEW e \in Events, NEW X, NEW n,
         Ahead(s, t, X, n)
  PROVE  Ahead(s, Append(t, e), X, n)
<1> DEFINE u == Append(t, e)
<1>1. /\ DOMAIN t \subseteq DOMAIN u
      /\ \A i \in DOMAIN t : u[i] = t[i] /\ 1 .. i \subseteq DOMAIN t
  BY AppendedEvent
<1> HIDE DEF u
<1>2. Ahead(s, u, X, n)
  BY <1>1 DEF Ahead
<1> QED
  BY <1>2 DEF u

\* and a new event is ahead of the cookies to come.
LEMMA AheadNew ==
  ASSUME NEW s \in Seq(Events), NEW t \in Seq(Events), NEW X, NEW n, NEW e \in Events,
         e \in X, ~Lets(e, n), \A i \in DOMAIN s : ~Lets(s[i], n),
         \A i \in DOMAIN t : ~Lets(t[i], n)
  PROVE  Ahead(s, Append(t, e), X, n)
<1> DEFINE u == Append(t, e)
           k == Len(t) + 1
<1>1. /\ k \in DOMAIN u /\ u[k] = e
      /\ \A i \in DOMAIN u : i \in DOMAIN t \/ i = k
      /\ \A i \in DOMAIN t : u[i] = t[i]
      /\ 1 .. k \subseteq DOMAIN u
  BY AppendedEvent
<1> HIDE DEF u, k
<1>2. \A j \in 1 .. k : ~Lets(u[j], n)
  BY <1>1
<1>3. Ahead(s, u, X, n)
  BY <1>1, <1>2 DEF Ahead
<1> QED
  BY <1>3 DEF u

\* It stays ahead when the watcher passes an event on, or drops another one.
LEMMA AheadMove ==
  ASSUME NEW s \in Seq(Events), NEW t \in Seq(Events), NEW X, NEW n, t # <<>>,
         Ahead(s, t, X, n)
  PROVE  /\ Ahead(Append(s, Head(t)), Tail(t), X, n)
         /\ Head(t) \notin X => Ahead(s, Tail(t), X, n)
<1> DEFINE u == Append(s, Head(t))
           k == Len(s) + 1
<1>1. /\ DOMAIN s \subseteq DOMAIN u /\ k \in DOMAIN u /\ u[k] = t[1] /\ k \in Nat
      /\ \A i \in DOMAIN u : i \in DOMAIN s \/ i = k
      /\ \A i \in DOMAIN s : u[i] = s[i] /\ 1 .. i \subseteq DOMAIN s
      /\ 1 .. k \subseteq DOMAIN u
  BY AppendedEvent, TakenEvent
<1>2. /\ 1 \in DOMAIN t /\ Head(t) = t[1] /\ DOMAIN t \subseteq Nat \ {0}
      /\ \A i \in DOMAIN Tail(t) : i + 1 \in DOMAIN t /\ Tail(t)[i] = t[i + 1] /\ i \in Nat \ {0}
      /\ \A i \in DOMAIN t : i # 1 => i - 1 \in DOMAIN Tail(t) /\ Tail(t)[i - 1] = t[i]
      /\ \A i \in DOMAIN Tail(t) : 1 .. i \subseteq DOMAIN Tail(t)
  BY TakenEvent
<1> HIDE DEF u, k
<1>3. CASE \E i \in DOMAIN s : s[i] \in X /\ \A j \in 1 .. i : ~Lets(s[j], n)
  BY <1>1, <1>3 DEF Ahead, u
<1>4. ASSUME \A j \in DOMAIN s : ~Lets(s[j], n),
             NEW i \in DOMAIN t, t[i] \in X, \A j \in 1 .. i : ~Lets(t[j], n)
      PROVE  /\ Ahead(u, Tail(t), X, n)
             /\ Head(t) \notin X => Ahead(s, Tail(t), X, n)
  <2>1. i \in Nat \ {0} /\ 1 \in 1 .. i
    BY <1>2
  <2>2. \A j \in DOMAIN u : ~Lets(u[j], n)
    BY <1>1, <1>4, <2>1
  <2>3. CASE i = 1
    <3>1. u[k] \in X /\ \A j \in 1 .. k : ~Lets(u[j], n)
      BY <1>1, <1>4, <2>2, <2>3
    <3> QED
      BY <1>1, <1>2, <1>4, <2>3, <3>1 DEF Ahead
  <2>4. CASE i # 1
    <3>1. /\ i - 1 \in DOMAIN Tail(t) /\ Tail(t)[i - 1] \in X
      BY <1>2, <1>4, <2>4
    <3>2. \A j \in 1 .. i - 1 : j \in DOMAIN Tail(t) /\ j + 1 \in 1 .. i
      <4>1. 1 .. (i - 1) \subseteq DOMAIN Tail(t)
        BY <1>2, <3>1
      <4>2. \A j \in 1 .. i - 1 : j + 1 \in 1 .. i
        BY <2>1
      <4> QED
        BY <4>1, <4>2
    <3>3. \A j \in 1 .. i - 1 : ~Lets(Tail(t)[j], n)
      BY <1>2, <1>4, <3>2
    <3> QED
      BY <1>4, <2>2, <3>1, <3>3 DEF Ahead
  <2> QED
    BY <2>3, <2>4
<1> QED
  BY <1>3, <1>4 DEF Ahead, u

\* When another event is handled it stays ahead, and that was no cookie that lets n go.
LEMMA AheadTake ==
  ASSUME NEW s \in Seq(Events), NEW t \in Seq(Events), NEW X, NEW n, s # <<>>,
         Ahead(s, t, X, n), Head(s) \notin X
  PROVE  Ahead(Tail(s), t, X, n) /\ ~Lets(Head(s), n)
<1>1. /\ 1 \in DOMAIN s /\ Head(s) = s[1] /\ DOMAIN s \subseteq Nat \ {0}
      /\ \A i \in DOMAIN Tail(s) : i + 1 \in DOMAIN s /\ Tail(s)[i] = s[i + 1] /\ i \in Nat \ {0}
      /\ \A i \in DOMAIN s : i # 1 => i - 1 \in DOMAIN Tail(s) /\ Tail(s)[i - 1] = s[i]
      /\ \A i \in DOMAIN Tail(s) : 1 .. i \subseteq DOMAIN Tail(s)
  BY TakenEvent
<1>2. ASSUME NEW i \in DOMAIN s, s[i] \in X, \A j \in 1 .. i : ~Lets(s[j], n)
      PROVE  Ahead(Tail(s), t, X, n) /\ ~Lets(Head(s), n)
  <2>1. i \in Nat \ {0} /\ i # 1 /\ 1 \in 1 .. i
    BY <1>1, <1>2
  <2>2. i - 1 \in DOMAIN Tail(s) /\ Tail(s)[i - 1] \in X
    BY <1>1, <1>2, <2>1
  <2>3. \A j \in 1 .. i - 1 : j \in DOMAIN Tail(s) /\ j + 1 \in 1 .. i
    <3>1. 1 .. (i - 1) \subseteq DOMAIN Tail(s)
      BY <1>1, <2>2
    <3>2. \A j \in 1 .. i - 1 : j + 1 \in 1 .. i
      BY <2>1
    <3> QED
      BY <3>1, <3>2
  <2>4. \A j \in 1 .. i - 1 : ~Lets(Tail(s)[j], n)
    BY <1>1, <1>2, <2>3
  <2> QED
    BY <1>1, <1>2, <2>1, <2>2, <2>4 DEF Ahead
<1>3. ASSUME \A j \in DOMAIN s : ~Lets(s[j], n)
      PROVE  ~Lets(Head(s), n) /\ \A j \in DOMAIN Tail(s) : ~Lets(Tail(s)[j], n)
  BY <1>1, <1>3
<1> QED
  BY <1>2, <1>3 DEF Ahead

\* The order of the cookies survives when a later one, or a file, is appended,
LEMMA RisingAppend ==
  ASSUME NEW s \in Seq(Events), NEW t \in Seq(Events), NEW e \in Events, Rising(s, t),
         \A i \in DOMAIN s : Before(s[i], e), \A i \in DOMAIN t : Before(t[i], e)
  PROVE  Rising(s, Append(t, e))
<1> DEFINE u == Append(t, e)
           k == Len(t) + 1
<1>1. /\ \A i \in DOMAIN u : (i \in DOMAIN t /\ u[i] = t[i]) \/ (i = k /\ u[i] = e)
      /\ \A i, j \in DOMAIN u : i < j => i \in DOMAIN t /\ u[i] = t[i]
  OBVIOUS
<1> HIDE DEF u, k
<1>2. Rising(s, u)
  BY <1>1 DEF Rising
<1> QED
  BY <1>2 DEF u

\* when the watcher passes an event on, or drops it,
LEMMA RisingMove ==
  ASSUME NEW s \in Seq(Events), NEW t \in Seq(Events), t # <<>>, Rising(s, t)
  PROVE  Rising(Append(s, Head(t)), Tail(t)) /\ Rising(s, Tail(t))
<1> DEFINE u == Append(s, Head(t))
           k == Len(s) + 1
<1>1. /\ \A i \in DOMAIN u : (i \in DOMAIN s /\ u[i] = s[i]) \/ (i = k /\ u[i] = t[1])
      /\ \A i, j \in DOMAIN u : i < j => i \in DOMAIN s /\ u[i] = s[i]
  OBVIOUS
<1>2. /\ 1 \in DOMAIN t
      /\ \A i \in DOMAIN Tail(t) : i + 1 \in DOMAIN t /\ Tail(t)[i] = t[i + 1] /\ 1 < i + 1
      /\ \A i, j \in DOMAIN Tail(t) : i < j => i + 1 < j + 1
  BY TakenEvent
<1> HIDE DEF u, k
<1>3. Rising(s, Tail(t))
  BY <1>2 DEF Rising
<1>4. \A i \in DOMAIN u, j \in DOMAIN Tail(t) : Before(u[i], Tail(t)[j])
  BY <1>1, <1>2 DEF Rising
<1>5. \A i, j \in DOMAIN u : i < j => Before(u[i], u[j])
  BY <1>1, <1>2 DEF Rising
<1>6. Rising(u, Tail(t))
  BY <1>3, <1>4, <1>5 DEF Rising
<1> QED
  BY <1>3, <1>6 DEF u

\* and when the first ones are handled or lost.
LEMMA RisingSkip ==
  ASSUME NEW s \in Seq(Events), NEW t \in Seq(Events), Rising(s, t),
         NEW k \in 2 .. Len(s) + 1
  PROVE  /\ Rising(SubSeq(s, k, Len(s)), t) /\ SubSeq(s, k, Len(s)) \in Seq(Events)
         /\ \A i \in DOMAIN SubSeq(s, k, Len(s)) :
              \E j \in DOMAIN s : SubSeq(s, k, Len(s))[i] = s[j]
<1> DEFINE u == SubSeq(s, k, Len(s))
<1>1. /\ u \in Seq(Events)
      /\ \A i \in DOMAIN u : i + k - 1 \in DOMAIN s /\ u[i] = s[i + k - 1]
      /\ \A i, j \in DOMAIN u : i < j => i + k - 1 < j + k - 1
  OBVIOUS
<1> HIDE DEF u
<1>2. Rising(u, t)
  BY <1>1 DEF Rising
<1> QED
  BY <1>1, <1>2 DEF u

\* An event that is ahead of a cookie is ahead of the later ones.
LEMMA AheadLater ==
  ASSUME NEW s \in Seq(Events), NEW t \in Seq(Events), NEW X, NEW n \in Nat, Ahead(s, t, X, n)
  PROVE  Ahead(s, t, X, n + 1)
<1>1. \A e \in Events : Lets(e, n + 1) => Lets(e, n)
  BY DEF Lets, Events
<1>2. /\ \A i \in DOMAIN s : s[i] \in Events /\ 1 .. i \subseteq DOMAIN s
      /\ \A i \in DOMAIN t : t[i] \in Events /\ 1 .. i \subseteq DOMAIN t
  OBVIOUS
<1> QED
  BY <1>1, <1>2 DEF Ahead

-----------------------------------------------------------------------------
(* The streams and the serials.                                            *)

\* What is not about the streams leaves them alone.
LEMMA StreamsStay ==
  ASSUME StreamTypeOK, SerialInv, UNCHANGED <<disk, channel, serial, latest, dirty, asked>>,
         lossy' \in BOOLEAN, Asking' \subseteq Asking, \A m \in ready' : m[2] <= latest
  PROVE  StreamTypeOK' /\ SerialInv'
BY DEF StreamTypeOK, SerialInv

\* An event is written: a file, or the next cookie.
LEMMA StreamWritten ==
  ASSUME StreamTypeOK, SerialInv, NEW e \in Events, disk' = Append(disk, e),
         UNCHANGED <<channel, lossy, latest, ready>>, serial' \in Nat, serial' >= serial,
         e[1] = "cookie" => e[2] = serial' /\ serial' = serial + 1
  PROVE  disk' \in Seq(Events) /\ SerialInv'
<1> USE DEF StreamTypeOK
<1>1. /\ \A i \in DOMAIN channel : channel[i] \in Events
      /\ \A i \in DOMAIN disk : disk[i] \in Events
  OBVIOUS
<1>2. \A d \in Events : d[1] = "cookie" => d[2] \in Nat
  BY DEF Events
<1>3. /\ \A i \in DOMAIN channel : Before(channel[i], e)
      /\ \A i \in DOMAIN disk : Before(disk[i], e)
  <2>1. ASSUME NEW i \in DOMAIN channel PROVE Before(channel[i], e)
    BY <1>1, <1>2 DEF SerialInv, Before
  <2>2. ASSUME NEW i \in DOMAIN disk PROVE Before(disk[i], e)
    BY <1>1, <1>2 DEF SerialInv, Before
  <2> QED
    BY <2>1, <2>2
<1>4. Rising(channel', disk')
  BY <1>3, RisingAppend DEF SerialInv
<1>5. /\ disk' \in Seq(Events)
      /\ \A i \in DOMAIN disk' : (i \in DOMAIN disk /\ disk'[i] = disk[i]) \/ disk'[i] = e
  BY AppendedEvent
<1>6. \A i \in DOMAIN disk' : disk'[i][1] = "cookie" =>
         latest < disk'[i][2] /\ disk'[i][2] <= serial'
  BY <1>1, <1>2, <1>5 DEF SerialInv
<1>7. \A i \in DOMAIN channel : channel[i][1] = "cookie" => channel[i][2] <= serial'
  BY <1>1, <1>2 DEF SerialInv
<1> QED
  BY <1>4, <1>5, <1>6, <1>7 DEF SerialInv

\* The watcher passes on an event or drops it.
LEMMA StreamRouted ==
  ASSUME StreamTypeOK, SerialInv, Route
  PROVE  StreamTypeOK' /\ SerialInv'
<1> USE DEF StreamTypeOK, Asking
<1>1. /\ disk # <<>> /\ disk' = Tail(disk)
      /\ channel' = Append(channel, Head(disk)) \/ channel' = channel
      /\ UNCHANGED <<lossy, serial, latest, requests, held, ready, dirty, asked>>
  BY DEF Route, cookieVars, queryVars, historyVars
<1>2. /\ disk' \in Seq(Events) /\ channel' \in Seq(Events)
      /\ \A i \in DOMAIN disk' : \E j \in DOMAIN disk : disk'[i] = disk[j]
      /\ \A i \in DOMAIN channel' :
           \/ i \in DOMAIN channel /\ channel'[i] = channel[i]
           \/ 1 \in DOMAIN disk /\ channel'[i] = disk[1]
  <2>1. /\ disk' \in Seq(Events) /\ 1 \in DOMAIN disk /\ Head(disk) = disk[1] /\ disk[1] \in Events
        /\ \A i \in DOMAIN disk' : i + 1 \in DOMAIN disk /\ disk'[i] = disk[i + 1]
    BY <1>1, TakenEvent
  <2>2. /\ Append(channel, disk[1]) \in Seq(Events)
        /\ \A i \in DOMAIN Append(channel, disk[1]) :
             \/ i \in DOMAIN channel /\ Append(channel, disk[1])[i] = channel[i]
             \/ Append(channel, disk[1])[i] = disk[1]
    BY <2>1, AppendedEvent
  <2> QED
    BY <1>1, <2>1, <2>2
<1>3. Rising(channel', disk')
  BY <1>1, RisingMove DEF SerialInv
<1> QED
  BY <1>1, <1>2, <1>3 DEF SerialInv

\* Events are lost, or one is handled; a cookie lets the requests go that it covers.
LEMMA StreamTaken ==
  ASSUME StreamTypeOK, SerialInv, Lose \/ HandleFile \/ HandleCookie
  PROVE  StreamTypeOK' /\ SerialInv'
<1> USE DEF StreamTypeOK, Asking
<1>1. PICK k \in 2 .. Len(channel) + 1 : channel' = SubSeq(channel, k, Len(channel))
  <2>1. CASE Lose
    BY <2>1 DEF Lose
  <2>2. CASE HandleFile \/ HandleCookie
    <3>1. channel # <<>> /\ channel' = Tail(channel)
      BY <2>2 DEF HandleFile, HandleCookie
    <3>2. Tail(channel) = SubSeq(channel, 2, Len(channel)) /\ 2 \in 2 .. Len(channel) + 1
      BY <3>1
    <3> QED
      BY <3>1, <3>2
  <2> QED
    BY <2>1, <2>2
<1>2. UNCHANGED <<disk, serial, dirty, asked>> /\ lossy' \in BOOLEAN
  BY DEF Lose, HandleFile, HandleCookie, cookieVars, historyVars
<1>3. /\ Rising(channel', disk') /\ channel' \in Seq(Events)
      /\ \A i \in DOMAIN channel' : \E j \in DOMAIN channel : channel'[i] = channel[j]
  BY <1>1, <1>2, RisingSkip DEF SerialInv
<1>4. CASE Lose \/ HandleFile
  <2>1. UNCHANGED <<latest, requests, held, ready>>
    BY <1>4 DEF Lose, HandleFile, cookieVars, queryVars
  <2> QED
    BY <1>2, <1>3, <2>1 DEF SerialInv
<1>5. CASE HandleCookie
  <2>1. /\ channel # <<>> /\ channel' = Tail(channel) /\ Head(channel)[1] = "cookie"
        /\ latest' = Head(channel)[2] /\ ready' = Seen(latest') /\ held' \subseteq held
        /\ requests' = requests
    BY <1>5 DEF HandleCookie
  <2>2. /\ Head(channel) = channel[1] /\ 1 \in DOMAIN channel
        /\ \A i \in DOMAIN channel' : /\ i + 1 \in DOMAIN channel
                                      /\ channel'[i] = channel[i + 1] /\ 1 < i + 1
    BY <2>1, TakenEvent
  <2>3. latest' \in Nat /\ latest' <= serial /\ latest' > latest
    <3>1. channel[1] \in Events
      BY <2>2
    <3> QED
      BY <2>1, <2>2, <3>1 DEF SerialInv, Events
  <2>4. \A i \in DOMAIN channel' : channel'[i][1] = "cookie" => latest' < channel'[i][2]
    BY <2>1, <2>2 DEF SerialInv, Rising, Before
  <2>5. \A i \in DOMAIN disk' : disk'[i][1] = "cookie" => latest' < disk'[i][2]
    BY <1>2, <2>1, <2>2 DEF SerialInv, Rising, Before
  <2>6. ready' \subseteq held /\ \A m \in ready' : m[2] <= latest'
    BY <2>1 DEF Seen
  <2>7. StreamTypeOK'
    BY <1>2, <1>3, <2>1, <2>3, <2>6
  <2>8. /\ \A i \in DOMAIN channel' : channel'[i][1] = "cookie" => channel'[i][2] <= serial'
        /\ \A i \in DOMAIN disk' : disk'[i][1] = "cookie" => disk'[i][2] <= serial'
    BY <1>2, <1>3 DEF SerialInv
  <2> QED
    BY <1>2, <1>3, <2>3, <2>4, <2>5, <2>6, <2>7, <2>8 DEF SerialInv
<1> QED
  BY <1>4, <1>5


\* Every step keeps the order of the cookies.
LEMMA StreamStep ==
  ASSUME ChangeInv, [GlobNext]_globVars
  PROVE  StreamTypeOK' /\ SerialInv'
<1> USE GlobAssumption
<1>0. StreamTypeOK /\ SerialInv
  BY DEF ChangeInv
<1>1. ASSUME NEW p \in Path, WriteFile(p)
      PROVE  StreamTypeOK' /\ SerialInv'
  <2>1. /\ disk' = Append(disk, File(p)) /\ File(p) \in Events /\ File(p)[1] # "cookie"
        /\ UNCHANGED <<channel, lossy, serial, latest, requests, held, ready, asked>>
        /\ dirty' \in [Registration -> SUBSET Glob]
    BY <1>0, <1>1 DEF WriteFile, File, Events, cookieVars, queryVars, StreamTypeOK
  <2>2. disk' \in Seq(Events) /\ SerialInv'
    BY <1>0, <2>1, StreamWritten DEF StreamTypeOK
  <2> QED
    BY <1>0, <2>1, <2>2 DEF StreamTypeOK, Asking
<1>2. ASSUME NEW c \in Caller, SendRequest(c), dirty' = dirty,
             asked' \in [Query -> [Registration -> SUBSET Glob]]
      PROVE  StreamTypeOK' /\ SerialInv'
  <2>1. /\ disk' = Append(disk, Cookie(serial')) /\ serial' = serial + 1
        /\ UNCHANGED <<channel, lossy, latest, held, ready>>
        /\ requests' = requests \cup {<<c, serial'>>}
    BY <1>2 DEF SendRequest, queryVars
  <2>2. /\ serial' \in Nat /\ serial' >= serial
        /\ Cookie(serial') \in Events /\ Cookie(serial')[2] = serial'
    BY <1>0, <2>1 DEF Cookie, Events, StreamTypeOK
  <2>3. disk' \in Seq(Events) /\ SerialInv'
    BY <1>0, <2>1, <2>2, StreamWritten
  <2> QED
    BY <1>0, <1>2, <2>1, <2>2, <2>3 DEF StreamTypeOK, Asking
<1>3. CASE \E r \in Registration : RequestWatch(r)
  BY <1>0, <1>2, <1>3 DEF RequestWatch, Caller, historyVars, StreamTypeOK
<1>4. ASSUME NEW q \in Query, RequestChanges(q)
      PROVE  StreamTypeOK' /\ SerialInv'
  <2>1. SendRequest(q) /\ dirty' = dirty /\ q \in Caller
    BY <1>4 DEF RequestChanges, Caller
  <2>2. asked' \in [Query -> [Registration -> SUBSET Glob]]
    <3>1. asked' = [asked EXCEPT ![q] = dirty]
      BY <1>4 DEF RequestChanges
    <3> QED
      BY <1>0, <3>1 DEF StreamTypeOK
  <2> QED
    BY <1>2, <2>1, <2>2
<1>5. CASE Route \/ Lose \/ HandleFile \/ HandleCookie
  BY <1>0, <1>5, StreamRouted, StreamTaken
<1>6. CASE \/ \E r \in Registration : WatchGlobs(r) \/ RequestFails(r) \/ WatchTimesOut(r)
           \/ \E q \in Query : QueryTimesOut(q)
           \/ \E r \in Registration : HandleCancel(r)
           \/ CommitRegistration
           \/ UNCHANGED globVars
  <2>1. UNCHANGED <<disk, channel, lossy, serial, latest, requests, held, ready, dirty, asked>>
    BY <1>6 DEF WatchGlobs, RequestFails, WatchTimesOut, QueryTimesOut, HandleCancel,
       CommitRegistration, globVars, diskVars, cookieVars, queryVars, historyVars
  <2> QED
    BY <1>0, <2>1, StreamsStay DEF Asking, StreamTypeOK, SerialInv
<1>7. CASE HandleLoss \/ HandleQuery
  <2>1. /\ UNCHANGED <<disk, channel, serial, latest, requests, held, dirty, asked>>
        /\ ready' \subseteq ready /\ lossy' \in BOOLEAN
    BY <1>0, <1>7 DEF HandleLoss, HandleQuery, diskVars, cookieVars, queryVars, historyVars,
       StreamTypeOK
  <2> QED
    BY <1>0, <2>1, StreamsStay DEF Asking, SerialInv
<1>8. ASSUME NEW m \in requests, ReceiveRequest(m)
      PROVE  StreamTypeOK' /\ SerialInv'
  <2>1. /\ UNCHANGED <<disk, channel, lossy, serial, latest, dirty, asked>>
        /\ Asking' \subseteq Asking /\ \A o \in ready' : o[2] <= latest
    BY <1>0, <1>8 DEF ReceiveRequest, diskVars, historyVars, Asking, SerialInv
  <2> QED
    BY <1>0, <2>1, StreamsStay DEF StreamTypeOK
<1> QED
  BY <1>1, <1>3, <1>4, <1>5, <1>6, <1>7, <1>8 DEF GlobNext, Tracker

-----------------------------------------------------------------------------
(* What is known to have changed.                                          *)

\* A registration is confirmed once, by its commit, and is never pending again.
LEMMA ConfirmedStep ==
  ASSUME ChangeInv, [GlobNext]_globVars
  PROVE  ConfirmedInv'
<1> USE GlobAssumption
<1>0. /\ call \in [Caller -> {"idle", "pending", "sent", "cancelling", "ok", "timeout", "error"}]
      /\ dirty \in [Registration -> SUBSET Glob]
      /\ asked \in [Query -> [Registration -> SUBSET Glob]]
      /\ committing \in Registration \cup {None}
      /\ pending \subseteq Registration /\ cancels \subseteq Registration
  BY DEF ChangeInv, GlobInv, CallTypeOK, TrackerTypeOK, StreamTypeOK
<1>c. ConfirmedInv
  BY DEF ChangeInv
<1>1. ASSUME NEW p \in Path, WriteFile(p)
      PROVE  ConfirmedInv'
  <2>1. UNCHANGED <<pending, cancels, call, asked>>
    BY <1>1 DEF WriteFile, stateVars, callVars
  <2>2. \A r \in Registration : /\ dirty[r] \subseteq dirty'[r]
                                /\ call[r] # "ok" => dirty'[r] = dirty[r]
    BY <1>0, <1>1 DEF WriteFile
  <2> QED
    BY <1>c, <2>1, <2>2 DEF ConfirmedInv
<1>2. CASE Route \/ Lose \/ HandleFile \/ HandleLoss \/ HandleCookie \/ UNCHANGED globVars
  <2>1. UNCHANGED <<pending, cancels, call, dirty, asked>>
    BY <1>2 DEF Route, Lose, HandleFile, Invalidate, HandleLoss, HandleCookie, globVars, stateVars,
       callVars, historyVars
  <2> QED
    BY <1>c, <2>1 DEF ConfirmedInv
<1>3. ASSUME NEW r \in Registration,
             WatchGlobs(r) \/ RequestWatch(r) \/ RequestFails(r) \/ WatchTimesOut(r)
      PROVE  ConfirmedInv'
  <2>1. /\ UNCHANGED <<dirty, asked>> /\ call[r] \in {"idle", "pending", "sent"}
        /\ \E state \in {"pending", "sent", "cancelling", "error"} :
             /\ call' = [call EXCEPT ![r] = state]
             /\ state = "error" => pending' = pending \ {r} /\ cancels' = cancels
             /\ state \in {"pending", "sent"} =>
                  pending' \subseteq pending \cup {r} /\ cancels' = cancels
             /\ state = "cancelling" => pending' = pending /\ cancels' = cancels \cup {r}
    BY <1>3 DEF WatchGlobs, RequestWatch, SendRequest, RequestFails, WatchTimesOut, Call, stateVars,
       historyVars
  <2>2. r \in Caller
    BY DEF Caller
  <2> QED
    BY <1>0, <1>c, <2>1, <2>2 DEF ConfirmedInv
<1>4. ASSUME NEW q \in Query, RequestChanges(q) \/ QueryTimesOut(q)
      PROVE  ConfirmedInv'
  <2>1. UNCHANGED <<pending, cancels, dirty>>
    BY <1>4 DEF RequestChanges, QueryTimesOut, SendRequest, stateVars, historyVars
  <2>2. \A r \in Registration : call'[r] = call[r]
    BY <1>0, <1>4 DEF RequestChanges, QueryTimesOut, SendRequest, Call, Caller
  <2>3. \A o \in Query : asked'[o] = asked[o] \/ asked'[o] = dirty
    BY <1>0, <1>4 DEF RequestChanges, QueryTimesOut, historyVars
  <2> QED
    BY <1>0, <1>c, <2>1, <2>2, <2>3 DEF ConfirmedInv
<1>5. ASSUME NEW r \in Registration, HandleCancel(r)
      PROVE  ConfirmedInv'
  <2>1. /\ UNCHANGED <<dirty, asked>> /\ pending' = pending \ {r} /\ cancels' = cancels \ {r}
        /\ call' = [call EXCEPT ![r] = "timeout"] /\ r \in cancels /\ r \in Caller
    BY <1>5 DEF HandleCancel, Remove, Call, historyVars, Caller
  <2> QED
    BY <1>0, <1>c, <2>1 DEF ConfirmedInv
<1>6. CASE (\E m \in requests : ReceiveRequest(m)) \/ HandleQuery
  <2>1. UNCHANGED <<cancels, dirty, asked>> /\ pending' \subseteq pending
    BY <1>6 DEF ReceiveRequest, HandleQuery, Remove, stateVars, callVars, historyVars
  <2>2. \A r \in Registration : call'[r] = call[r]
    BY <1>0, <1>6 DEF ReceiveRequest, HandleQuery, Call, Caller, callVars
  <2> QED
    BY <1>0, <1>c, <2>1, <2>2 DEF ConfirmedInv
<1>7. CASE CommitRegistration
  <2>1. /\ UNCHANGED <<cancels, dirty, asked>> /\ pending' = pending \ {committing}
        /\ committing \in pending /\ committing \in Caller
        /\ call' = [call EXCEPT ![committing] =
                      IF call[committing] = "sent" THEN "ok" ELSE call[committing]]
    BY <1>0, <1>7 DEF CommitRegistration, Commit, Call, historyVars, Caller
  <2>2. PICK c \in Registration : c = committing
    BY <1>0, <2>1
  <2>3. \A r \in Registration : r # c => call'[r] = call[r]
    BY <1>0, <2>1, <2>2 DEF Caller
  <2>4. call[c] = "cancelling" => call'[c] = "cancelling"
    BY <1>0, <2>1, <2>2
  <2>5. call[c] # "ok"
    BY <1>c, <2>1, <2>2 DEF ConfirmedInv
  <2>6. \A r \in pending' : call'[r] \in {"pending", "sent", "cancelling"}
    BY <1>0, <1>c, <2>1, <2>2, <2>3 DEF ConfirmedInv
  <2>7. \A r \in cancels' : call'[r] = "cancelling"
    BY <1>0, <1>c, <2>1, <2>3, <2>4 DEF ConfirmedInv
  <2>8. \A r \in Registration : call'[r] # "ok" => dirty'[r] = {}
    BY <1>c, <2>1, <2>3, <2>5 DEF ConfirmedInv
  <2> QED
    BY <1>c, <2>1, <2>6, <2>7, <2>8 DEF ConfirmedInv
<1> QED
  BY <1>1, <1>2, <1>3, <1>4, <1>5, <1>6, <1>7 DEF GlobNext, Tracker

-----------------------------------------------------------------------------
(* What changed has its event on the way.                                  *)

\* A step that lets no event of an unchanged glob go by keeps what is known.
LEMMA ChangesStay ==
  ASSUME ChangeInv, UNCHANGED <<serial, latest, dirty, asked>>, Asking' \subseteq Asking,
         \A r \in Active' : \A g \in include'[r] :
           \/ /\ r \in Active /\ g \in include[r]
              /\ \A n \in Nat : \/ ~lossy /\ ~Ahead(channel, disk, Concerning(r, g), n)
                                \/ lossy' \/ Ahead(channel', disk', Concerning(r, g), n)
           \/ r \in Registration /\ dirty[r] = {}
  PROVE  DirtyInv' /\ AskedInv'
<1>1. serial + 1 \in Nat /\ \A m \in Asking : m[2] \in Nat
  BY DEF ChangeInv, StreamTypeOK
<1>2. DirtyInv'
  BY <1>1 DEF ChangeInv, DirtyInv
<1>3. \A q \in Query : \A r \in Registration : asked[q][r] \subseteq dirty[r]
  BY DEF ChangeInv, ConfirmedInv
<1>4. AskedInv'
  BY <1>1, <1>3 DEF ChangeInv, AskedInv
<1> QED
  BY <1>2, <1>4

\* Handling an event of other globs keeps what is known of a glob; so does a cookie,
\* and it was none that lets a request go which was made after a change of the glob.
LEMMA ChangesTaken ==
  ASSUME StreamTypeOK, channel # <<>>, channel' = Tail(channel), UNCHANGED <<disk, lossy>>,
         NEW X, NEW n, ~lossy, lossy \/ Ahead(channel, disk, X, n), Head(channel) \notin X
  PROVE  Ahead(channel', disk', X, n) /\ ~Lets(Head(channel), n)
BY AheadTake DEF StreamTypeOK

\* The file system and the callers: an event is written.
LEMMA ChangesWritten ==
  ASSUME ChangeInv, NEW e \in Events, disk' = Append(disk, e), UNCHANGED <<channel, lossy>>,
         NEW X, NEW n, lossy \/ Ahead(channel, disk, X, n)
  PROVE  lossy' \/ Ahead(channel', disk', X, n)
BY AheadAppend DEF ChangeInv, StreamTypeOK

\* A file changes: its event is ahead of every cookie to come.
LEMMA WriteKeepsChanges ==
  ASSUME ChangeInv, NEW p \in Path, WriteFile(p)
  PROVE  DirtyInv' /\ AskedInv'
<1> USE GlobAssumption
<1>1. /\ disk' = Append(disk, File(p)) /\ File(p) \in Events
      /\ UNCHANGED <<channel, lossy, serial, latest, requests, held, ready, active, include, asked>>
  BY DEF WriteFile, File, Events, cookieVars, queryVars, stateVars
<1>2. Asking' = Asking /\ Active' = Active
  BY <1>1 DEF Asking, Active
<1>3. AskedInv'
  BY <1>1, <1>2, ChangesWritten DEF ChangeInv, AskedInv
<1>4. ASSUME NEW r \in Active, NEW g \in include[r], g \in dirty'[r] \ dirty[r]
      PROVE  Ahead(channel', disk', Concerning(r, g), serial + 1)
  <2>1. r \in Registration
    BY DEF Active, ChangeInv, GlobInv, TrackerTypeOK
  <2>2. File(p) \in Concerning(r, g)
    BY <1>4, <2>1 DEF WriteFile, Concerning, ChangeInv, StreamTypeOK
  <2>3. /\ \A e \in Events : e[1] = "cookie" /\ e[2] <= serial => ~Lets(e, serial + 1)
        /\ ~Lets(File(p), serial + 1)
    BY DEF Events, Lets, File, ChangeInv, StreamTypeOK
  <2>4. \A e \in Events : e[1] # "cookie" => ~Lets(e, serial + 1)
    BY DEF Lets
  <2>5. /\ \A i \in DOMAIN channel : channel[i] \in Events
        /\ \A i \in DOMAIN disk : disk[i] \in Events
    BY DEF ChangeInv, StreamTypeOK
  <2>6. /\ \A i \in DOMAIN channel : ~Lets(channel[i], serial + 1)
        /\ \A i \in DOMAIN disk : ~Lets(disk[i], serial + 1)
    BY <2>3, <2>4, <2>5 DEF ChangeInv, SerialInv
  <2> QED
    BY <1>1, <2>2, <2>3, <2>6, AheadNew DEF ChangeInv, StreamTypeOK
<1>5. DirtyInv'
  BY <1>1, <1>2, <1>4, ChangesWritten DEF ChangeInv, DirtyInv
<1> QED
  BY <1>3, <1>5

\* A request is sent: what had changed before has its event ahead of the new cookie.
LEMMA SendKeepsChanges ==
  ASSUME ChangeInv, NEW c \in Caller, SendRequest(c), dirty' = dirty,
         \/ c \in Registration /\ asked' = asked
         \/ c \in Query /\ call[c] = "idle" /\ asked' = [asked EXCEPT ![c] = dirty]
  PROVE  DirtyInv' /\ AskedInv'
<1> USE GlobAssumption
<1>1. /\ disk' = Append(disk, Cookie(serial + 1)) /\ serial' = serial + 1
      /\ UNCHANGED <<channel, lossy, latest, active, include>>
      /\ Asking' = Asking \cup {<<c, serial + 1>>}
  BY DEF SendRequest, queryVars, stateVars, Asking
<1>2. Active' = Active
  BY <1>1 DEF Active
<1>3. serial \in Nat /\ Cookie(serial + 1) \in Events /\ latest <= serial /\ latest \in Nat
  BY DEF Cookie, Events, ChangeInv, StreamTypeOK, SerialInv
<1>4. DirtyInv'
  <2> SUFFICES ASSUME NEW r \in Active, NEW g \in include[r] \cap dirty[r]
               PROVE  lossy' \/ Ahead(channel', disk', Concerning(r, g), serial' + 1)
    BY <1>1, <1>2 DEF DirtyInv
  <2>1. lossy \/ Ahead(channel, disk, Concerning(r, g), serial + 1)
    BY DEF ChangeInv, DirtyInv
  <2>2. lossy \/ Ahead(channel, disk, Concerning(r, g), serial' + 1)
    BY <1>1, <1>3, <2>1, AheadLater DEF ChangeInv, StreamTypeOK
  <2> QED
    BY <1>1, <1>3, <2>2, ChangesWritten
<1>5. AskedInv'
  <2> SUFFICES ASSUME NEW m \in Asking', m[1] \in Query,
                      NEW r \in Active, NEW g \in include[r] \cap asked'[m[1]][r]
               PROVE  /\ m[2] > latest
                      /\ lossy' \/ Ahead(channel', disk', Concerning(r, g), m[2])
    BY <1>1, <1>2 DEF AskedInv
  <2>1. CASE m \in Asking
    <3>1. asked'[m[1]] = asked[m[1]]
      BY <2>1 DEF Asking, ChangeInv, GlobInv, CallInv, StreamTypeOK
    <3>2. m[2] > latest /\ (lossy \/ Ahead(channel, disk, Concerning(r, g), m[2]))
      BY <2>1, <3>1 DEF ChangeInv, AskedInv
    <3> QED
      BY <1>1, <1>3, <3>2, ChangesWritten
  <2>2. CASE m = <<c, serial + 1>>
    <3>1. m[1] = c /\ m[2] = serial + 1 /\ c \in Query
      BY <2>2
    <3>2. g \in dirty[r]
      BY <3>1 DEF ChangeInv, StreamTypeOK
    <3>3. lossy \/ Ahead(channel, disk, Concerning(r, g), m[2])
      BY <3>1, <3>2 DEF ChangeInv, DirtyInv
    <3> QED
      BY <1>1, <1>3, <3>1, <3>3, ChangesWritten
  <2> QED
    BY <1>1, <2>1, <2>2
<1> QED
  BY <1>4, <1>5

\* The watcher drops no event of a registration that is active, and a loss is noticed.
LEMMA WatcherKeepsChanges ==
  ASSUME ChangeInv, Route \/ Lose
  PROVE  DirtyInv' /\ AskedInv'
<1>1. UNCHANGED <<serial, latest, requests, held, ready, active, include, dirty, asked>>
  BY DEF Route, Lose, cookieVars, queryVars, stateVars, historyVars
<1>2. Asking' \subseteq Asking /\ Active' = Active
  BY <1>1 DEF Asking, Active
<1>3. ASSUME NEW r \in Active, NEW g \in include[r], NEW n \in Nat,
             lossy \/ Ahead(channel, disk, Concerning(r, g), n)
      PROVE  lossy' \/ Ahead(channel', disk', Concerning(r, g), n)
  <2>1. CASE Lose
    BY <2>1 DEF Lose
  <2>2. CASE Route
    <3>1. /\ disk # <<>> /\ disk' = Tail(disk) /\ lossy' = lossy
          /\ \/ channel' = Append(channel, Head(disk))
             \/ channel' = channel /\ ~InScope(Head(disk))
      BY <2>2 DEF Route
    <3>2. Head(disk) \in Concerning(r, g) => InScope(Head(disk))
      <4> SUFFICES ASSUME NEW p \in Matches[g] \ ExcludedBy[r], Head(disk) = File(p)
                   PROVE  InScope(Head(disk))
        BY DEF Concerning
      <4>1. Head(disk)[2] = p
        BY DEF File
      <4>2. g \in Hit(r, p)
        BY DEF Hit
      <4> QED
        BY <4>1, <4>2 DEF InScope
    <3> QED
      BY <1>3, <3>1, <3>2, AheadMove DEF ChangeInv, StreamTypeOK
  <2> QED
    BY <2>1, <2>2
<1> QED
  BY <1>1, <1>2, <1>3, ChangesStay

\* What is neither about the streams nor about what is unchanged.
LEMMA OthersKeepChanges ==
  ASSUME ChangeInv,
         \/ \E r \in Registration : WatchGlobs(r) \/ RequestFails(r) \/ WatchTimesOut(r)
         \/ \E q \in Query : QueryTimesOut(q)
         \/ \E m \in requests : ReceiveRequest(m)
         \/ UNCHANGED globVars
  PROVE  DirtyInv' /\ AskedInv'
<1>1. /\ UNCHANGED <<disk, channel, lossy, serial, latest, active, include, dirty, asked>>
      /\ Asking' \subseteq Asking
  BY DEF WatchGlobs, RequestFails, WatchTimesOut, QueryTimesOut, ReceiveRequest, globVars, diskVars,
     cookieVars, queryVars, stateVars, historyVars, Asking
<1>2. Active' = Active
  BY <1>1 DEF Active
<1> QED
  BY <1>1, <1>2, ChangesStay

\* A registration is removed, committed, or all of them are.  What is committed was not
\* confirmed before, so that nothing is known to have changed of it.
LEMMA CommitsKeepChanges ==
  ASSUME ChangeInv,
         \/ \E r \in Registration : HandleCancel(r)
         \/ HandleQuery \/ CommitRegistration \/ HandleLoss
  PROVE  DirtyInv' /\ AskedInv'
<1> USE GlobAssumption
<1>0. StateInv
  BY DEF ChangeInv, GlobInv, StateInv
<1>1. /\ UNCHANGED <<disk, channel, serial, latest, include, dirty, asked>>
      /\ Asking' \subseteq Asking
  BY DEF HandleCancel, HandleQuery, CommitRegistration, HandleLoss, Remove, Commit, diskVars,
     cookieVars, queryVars, stateVars, historyVars, Asking
<1>2. CASE HandleLoss
  <2>1. Active' = {}
    BY <1>2 DEF HandleLoss, Active
  <2> QED
    BY <1>1, <2>1, ChangesStay
<1>3. CASE (\E r \in Registration : HandleCancel(r)) \/ HandleQuery
  <2>1. lossy' = lossy /\ Active' \subseteq Active
    <3>1. (\E r \in Registration : Remove(r)) \/ UNCHANGED stateVars
      BY <1>3 DEF HandleCancel, HandleQuery, ChangeInv, GlobInv, CallInv, Caller, stateVars
    <3>2. \A r \in Registration : Remove(r) => Active' \subseteq Active
      BY <1>0 DEF Remove, Active, StateInv, TrackerTypeOK
    <3>3. UNCHANGED stateVars => Active' = Active
      BY DEF stateVars, Active
    <3> QED
      BY <1>3, <3>1, <3>2, <3>3 DEF HandleCancel, HandleQuery, diskVars
  <2> QED
    BY <1>1, <2>1, ChangesStay
<1>4. CASE CommitRegistration
  <2>1. lossy' = lossy /\ committing \in pending /\ Active' \subseteq Active \cup {committing}
    BY <1>0, <1>4 DEF CommitRegistration, Commit, diskVars, Active, StateInv, TrackerTypeOK
  <2>2. committing \in Registration /\ dirty[committing] = {}
    BY <2>1 DEF ChangeInv, GlobInv, TrackerTypeOK, ConfirmedInv
  <2> QED
    BY <1>1, <2>1, <2>2, ChangesStay
<1> QED
  BY <1>2, <1>3, <1>4

\* A file event takes the globs it matches, and is none of those that are left.
LEMMA FileKeepsChanges ==
  ASSUME ChangeInv, HandleFile
  PROVE  DirtyInv' /\ AskedInv'
<1>1. /\ UNCHANGED <<disk, lossy, serial, latest, requests, held, ready, dirty, asked>>
      /\ ~lossy /\ channel # <<>> /\ Head(channel)[1] = "file" /\ channel' = Tail(channel)
      /\ Invalidate(Head(channel)[2])
  BY DEF HandleFile, cookieVars, queryVars, historyVars
<1>2. Asking' \subseteq Asking
  BY <1>1 DEF Asking
<1> DEFINE p == Head(channel)[2]
           hit == [r \in Registration |-> IF r \in Active THEN Hit(r, p) ELSE {}]
<1>3. /\ include' = [r \in Registration |-> include[r] \ hit[r]]
      /\ active' = [h \in Hash |-> IF active[h] # None /\ hit[active[h]] # {}
                                        /\ include'[active[h]] = {}
                                   THEN None ELSE active[h]]
  BY <1>1 DEF Invalidate
<1>4. Active' \subseteq Active /\ Active \subseteq Registration
  <2> HIDE DEF hit
  <2> QED
    BY <1>3 DEF Active, ChangeInv, GlobInv, TrackerTypeOK
<1>5. ASSUME NEW r \in Active', NEW g \in include'[r]
      PROVE  r \in Active /\ g \in include[r] /\ Head(channel) \notin Concerning(r, g)
  <2>1. r \in Active /\ g \in include[r] /\ g \notin Hit(r, p)
    BY <1>3, <1>4, <1>5
  <2>2. ASSUME NEW o \in Matches[g] \ ExcludedBy[r], Head(channel) = File(o)
        PROVE  FALSE
    <3>1. o = p
      BY <2>2 DEF File
    <3> QED
      BY <2>1, <2>2, <3>1 DEF Hit
  <2> QED
    BY <2>1, <2>2 DEF Concerning
<1>6. StreamTypeOK
  BY DEF ChangeInv
<1> HIDE DEF p, hit
<1> QED
  BY <1>1, <1>2, <1>5, <1>6, ChangesStay, ChangesTaken

\* A cookie lets those requests go whose changes all had been handled before it.
LEMMA CookieKeepsChanges ==
  ASSUME ChangeInv, HandleCookie
  PROVE  DirtyInv' /\ AskedInv'
<1>1. /\ UNCHANGED <<disk, lossy, serial, requests, active, include, dirty, asked>>
      /\ ~lossy /\ channel # <<>> /\ Head(channel)[1] = "cookie" /\ channel' = Tail(channel)
      /\ latest' = Head(channel)[2] /\ ready' \subseteq held /\ held' \subseteq held
  BY DEF HandleCookie, stateVars, historyVars, Seen
<1>2. Asking' \subseteq Asking /\ Active' = Active
  BY <1>1 DEF Asking, Active
<1>3. \A r, g : Head(channel) \notin Concerning(r, g)
  BY <1>1 DEF Concerning, File
<1>4. StreamTypeOK /\ Head(channel) \in Events
  BY <1>1, TakenEvent DEF ChangeInv, StreamTypeOK
<1>5. latest' \in Nat /\ \A m \in Asking : m[2] \in Nat
  BY <1>1, <1>4 DEF Events, StreamTypeOK
<1>6. DirtyInv'
  BY <1>1, <1>2, <1>3, <1>4, ChangesTaken DEF ChangeInv, DirtyInv
<1>7. ASSUME NEW m \in Asking', m[1] \in Query,
             NEW r \in Active, NEW g \in include[r] \cap asked[m[1]][r]
      PROVE  m[2] > latest' /\ Ahead(channel', disk', Concerning(r, g), m[2])
  <2>1. m \in Asking /\ (lossy \/ Ahead(channel, disk, Concerning(r, g), m[2]))
    BY <1>2, <1>7 DEF ChangeInv, AskedInv
  <2>2. Ahead(channel', disk', Concerning(r, g), m[2]) /\ ~Lets(Head(channel), m[2])
    BY <1>1, <1>3, <1>4, <2>1, ChangesTaken
  <2>3. m[2] > latest'
    BY <1>1, <1>5, <2>1, <2>2 DEF Lets
  <2> QED
    BY <2>2, <2>3
<1>8. AskedInv'
  BY <1>1, <1>2, <1>7 DEF AskedInv
<1> QED
  BY <1>6, <1>8

-----------------------------------------------------------------------------
(* Their theorems.                                                         *)

\* Nothing has changed when nobody has called.
LEMMA ChangeInvInit == GlobInit => ChangeInv
<1> SUFFICES ASSUME GlobInit PROVE ChangeInv
  OBVIOUS
<1>1. GlobInv
  BY GlobInvInit
<1>2. StreamTypeOK
  <2>1. <<>> \in Seq(Events) /\ 0 \in Nat
    OBVIOUS
  <2>2. /\ dirty \in [Registration -> SUBSET Glob]
        /\ asked \in [Query -> [Registration -> SUBSET Glob]]
    BY DEF GlobInit
  <2>3. disk = <<>> /\ channel = <<>> /\ lossy = FALSE /\ serial = 0 /\ latest = 0 /\ Asking = {}
    BY DEF GlobInit, Asking
  <2> QED
    BY <2>1, <2>2, <2>3 DEF StreamTypeOK
<1>3. SerialInv /\ Active = {}
  BY DEF GlobInit, SerialInv, Rising, Active
<1>4. ConfirmedInv /\ DirtyInv /\ AskedInv
  BY <1>3 DEF GlobInit, ConfirmedInv, DirtyInv, AskedInv, Asking
<1> QED
  BY <1>1, <1>2, <1>3, <1>4 DEF ChangeInv

\* Every step keeps it.
LEMMA ChangeInvNext == ChangeInv /\ [GlobNext]_globVars => ChangeInv'
<1> SUFFICES ASSUME ChangeInv, [GlobNext]_globVars PROVE ChangeInv'
  OBVIOUS
<1>1. GlobInv'
  BY WatcherStep, CallerStep, TrackerStep DEF GlobNext, Caller, ChangeInv
<1>2. StreamTypeOK' /\ SerialInv' /\ ConfirmedInv'
  BY StreamStep, ConfirmedStep
<1>3. ASSUME NEW r \in Registration, RequestWatch(r) PROVE DirtyInv' /\ AskedInv'
  BY <1>3, SendKeepsChanges DEF RequestWatch, historyVars, Caller
<1>4. ASSUME NEW q \in Query, RequestChanges(q) PROVE DirtyInv' /\ AskedInv'
  BY <1>4, SendKeepsChanges DEF RequestChanges, Caller
<1>5. DirtyInv' /\ AskedInv'
  BY <1>3, <1>4, WriteKeepsChanges, WatcherKeepsChanges, OthersKeepChanges, CommitsKeepChanges,
     FileKeepsChanges, CookieKeepsChanges DEF GlobNext, Tracker
<1> QED
  BY <1>1, <1>2, <1>5 DEF ChangeInv

\* The inductive invariant of changes, events and cookies.
THEOREM ChangeInvariant == GlobSpec => []ChangeInv
  BY ChangeInvInit, ChangeInvNext, PTL DEF GlobSpec

\* A query is answered with the globs that did not change since their registration was
\* confirmed.
THEOREM ReportedGlobsAreUnchanged == GlobSpec => UnchangedIsTrue
<1> DEFINE Step == \A q \in Query : Answered(q) =>
                     LET r == active[AskedFor[q]]
                     IN  r # None => Unchanged(q) \cap asked[q][r] = {}
<1>1. ASSUME ChangeInv, [GlobNext]_globVars PROVE [Step]_globVars
  <2> USE GlobAssumption
  <2> SUFFICES ASSUME NEW q \in Query, Answered(q), active[AskedFor[q]] # None
               PROVE  include[active[AskedFor[q]]] \cap asked[q][active[AskedFor[q]]] = {}
    BY DEF Unchanged
  <2>1. q \in Caller /\ call'[q] # call[q] /\ call'[q] = "ok" /\ q \notin Registration
    BY DEF Answered, Caller
  <2>2. HandleQuery
    BY <1>1, <2>1 DEF GlobNext, Tracker, WriteFile, Route, Lose, WatchGlobs, RequestWatch,
       RequestFails, WatchTimesOut, RequestChanges, QueryTimesOut, SendRequest, HandleCancel,
       ReceiveRequest, HandleCookie, CommitRegistration, HandleFile, HandleLoss, Call, globVars,
       callVars, ChangeInv, GlobInv, CallTypeOK, TrackerTypeOK
  <2>3. PICK m \in ready : \/ UNCHANGED call
                            \/ Call(m[1], IF call[m[1]] = "sent" THEN "ok" ELSE call[m[1]])
    BY <2>2 DEF HandleQuery
  <2>4. m[1] = q
    BY <1>1, <2>1, <2>3 DEF Call, ChangeInv, GlobInv, CallTypeOK
  <2>5. m \in Asking /\ ~(m[2] > latest)
    <3>1. m \in Asking /\ m[2] <= latest
      BY <1>1 DEF Asking, ChangeInv, SerialInv
    <3>2. m[2] \in Nat /\ latest \in Nat
      BY <1>1, <3>1 DEF ChangeInv, StreamTypeOK
    <3> QED
      BY <3>1, <3>2
  <2>6. active[AskedFor[q]] \in Active
    BY DEF Active
  <2> QED
    BY <1>1, <2>4, <2>5, <2>6 DEF ChangeInv, AskedInv
<1>2. ChangeInv /\ [GlobNext]_globVars => [Step]_globVars
  BY <1>1
<1> QED
  BY <1>2, ChangeInvariant, PTL DEF GlobSpec, UnchangedIsTrue
=============================================================================
