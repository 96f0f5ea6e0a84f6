---------------------------- MODULE DaemonProofs ----------------------------
(***************************************************************************)
(* The life of the daemons, for any number of processes that start, crash, *)
(* connect, kill and clean; then the package watcher that a daemon hosts,  *)
(* for any number of workspaces, readers, changes and slots of the channel.*)
(***************************************************************************)
EXTENDS Daemon, PackageWatcher, TLAPS

-----------------------------------------------------------------------------
(* The daemons.                                                            *)


\* A daemon that created the pid file, and one that has the lock, finds its file
\* as it left it, unless another process took it away.
OwnerInv ==
  ~snatched => \A d \in Daemon :
    /\ daemon[d] \in {"bind", "serving", "closing"} => pidfile = d /\ written
    /\ daemon[d] = "write" => pidfile = d /\ ~written

\* No daemon has died, and nobody has cleaned.
Orderly == died = {} /\ \A c \in Cleaner : client[c] # "cleaned"

\* Then the pid file is always that of a daemon that is alive, so that nobody has
\* found it stale.
OrderlyInv ==
  Orderly =>
    /\ ~snatched
    /\ pidfile # None => daemon[pidfile] \in {"write", "bind", "serving", "closing"}
    /\ \A d \in Daemon : daemon[d] # "stale"
    /\ \A c \in Client : client[c] # "stale"

\* The server that a client is connected to has another version, and may be replaced.
Refused(c) == c \in CanKill /\ <<c, peer[c]>> \notin Matches

\* It has gone, and will not serve again.
HasGone(c) == daemon[peer[c]] \in {"closing", "dead"}

\* What a client knows of that server: one that is told to stop was refused, whatever it
\* answers; one whose owner is looked for was refused, or has gone.
KnowsPeer(c) ==
  /\ client[c] = "idle" => purpose[c] = "find"
  /\ client[c] \in {"hello", "stop", "gone", "ok"} =>
       peer[c] \in Daemon /\ daemon[peer[c]] \in {"serving", "closing", "dead"}
  /\ client[c] \in {"stop", "gone"} => Refused(c)
  /\ client[c] \in {"look", "stale"} /\ purpose[c] # "find" =>
       /\ peer[c] \in Daemon /\ daemon[peer[c]] \in {"serving", "closing", "dead"}
       /\ Refused(c) \/ (purpose[c] = "kill" /\ HasGone(c))

\* That of every client.
PeerInv == \A c \in Client : KnowsPeer(c)

-----------------------------------------------------------------------------
(* Types.                                                                  *)

\* The clients.
ClientTypeOK ==
  /\ client \in [Client -> {"idle", "look", "stale", "start", "pid", "sock", "hello",
                            "stop", "gone", "ok", "error", "cleaned"}]
  /\ purpose \in [Client -> {"find", "kill", "kill and wait"}]
  /\ pid \in [Client -> Daemon \cup {None}]
  /\ peer \in [Client -> Daemon \cup {None}]
  /\ tries \in [Client -> 0 .. RetryMax]

\* The files and the daemons.
WorldTypeOK ==
  /\ pidfile \in Daemon \cup {None} /\ socket \in Daemon \cup {None}
  /\ written \in BOOLEAN /\ snatched \in BOOLEAN
  /\ daemon \in [Daemon -> {"none", "starting", "stale", "create", "write", "bind", "serving",
                            "closing", "dead"}]
  /\ died \subseteq Daemon /\ crashes \in Nat

\* The inductive invariant of the daemons and their clients.
DaemonInv == ClientTypeOK /\ WorldTypeOK /\ OwnerInv /\ OrderlyInv /\ PeerInv

\* The type invariant in two halves.
LEMMA DaemonTypes == ClientTypeOK /\ WorldTypeOK => DaemonTypeOK
BY DEF DaemonTypeOK, ClientTypeOK, WorldTypeOK

\* The invariant holds when the clients start.
LEMMA DaemonInvInit == DaemonInit => DaemonInv
<1> SUFFICES ASSUME DaemonInit
             PROVE  DaemonInv
  OBVIOUS
<1> USE DaemonAssumption DEF DaemonInit
<1>1. ClientTypeOK
  BY DEF ClientTypeOK
<1>2. WorldTypeOK
  BY DEF WorldTypeOK
<1>3. OwnerInv
  BY DEF OwnerInv
<1>4. OrderlyInv
  BY DEF OrderlyInv
<1>5. PeerInv
  BY DEF PeerInv, KnowsPeer
<1>6. QED
  BY <1>1, <1>2, <1>3, <1>4, <1>5 DEF DaemonInv

\* The loop of connect begins another turn, or ends.
LEMMA ForgetTypes ==
  ASSUME ClientTypeOK, NEW c \in Client, NEW n \in 0 .. RetryMax, Forget(c, n),
         NEW from, NEW to \in {"look", "error"}, Goto(c, from, to)
  PROVE  ClientTypeOK'
<1>1. client' \in [Client -> {"idle", "look", "stale", "start", "pid", "sock", "hello",
                              "stop", "gone", "ok", "error", "cleaned"}]
  BY DEF ClientTypeOK, Goto
<1>2. purpose' \in [Client -> {"find", "kill", "kill and wait"}]
  BY DEF ClientTypeOK, Forget
<1>3. pid' \in [Client -> Daemon \cup {None}] /\ peer' \in [Client -> Daemon \cup {None}]
  BY DEF ClientTypeOK, Forget
<1>4. tries' \in [Client -> 0 .. RetryMax]
  BY DEF ClientTypeOK, Forget
<1>5. QED
  BY <1>1, <1>2, <1>3, <1>4 DEF ClientTypeOK

\* A turn of connect's loop ends, and the next one begins or there is none.
LEMMA RetryTypes ==
  ASSUME ClientTypeOK, NEW c \in Client, NEW from, Retry(c, from) \/ Fail(c, from)
  PROVE  ClientTypeOK'
<1>1. CASE Fail(c, from)
  <2>1. 0 \in 0 .. RetryMax
    BY DaemonAssumption
  <2>2. QED
    BY <1>1, <2>1, ForgetTypes DEF Fail
<1>2. CASE tries[c] < RetryMax /\ Goto(c, from, "look") /\ Forget(c, tries[c] + 1)
  <2>1. tries[c] \in 0 .. RetryMax
    BY DEF ClientTypeOK
  <2>2. tries[c] + 1 \in 0 .. RetryMax
    BY <1>2, <2>1, DaemonAssumption
  <2>3. QED
    BY <1>2, <2>2, ForgetTypes
<1>3. QED
  BY <1>1, <1>2 DEF Retry

\* A client moves on and nothing else changes.
LEMMA GotoTypes ==
  ASSUME ClientTypeOK, NEW c \in Client, NEW from,
         NEW to \in {"idle", "look", "stale", "start", "pid", "sock", "hello",
                     "stop", "gone", "ok", "error", "cleaned"},
         Goto(c, from, to), UNCHANGED <<purpose, pid, peer, tries>>
  PROVE  ClientTypeOK'
BY DEF ClientTypeOK, Goto

\* get_owner found nobody.
LEMMA NoOwnerTypes ==
  ASSUME ClientTypeOK, NEW c \in Client, NEW from, NoOwner(c, from)
  PROVE  ClientTypeOK'
<1>1. CASE Fail(c, from) \/ Retry(c, from)
  BY <1>1, RetryTypes
<1>2. CASE Goto(c, from, "start") /\ UNCHANGED <<purpose, pid, peer, tries>>
  BY <1>2, GotoTypes
<1>3. CASE /\ Goto(c, from, "gone")
           /\ purpose' = [purpose EXCEPT ![c] = "find"]
           /\ UNCHANGED <<pid, peer, tries>>
  BY <1>3 DEF ClientTypeOK, Goto
<1>4. QED
  BY <1>1, <1>2, <1>3 DEF NoOwner

\* The conjuncts of WorldTypeOK, one by one.
LEMMA WorldParts ==
  ASSUME pidfile' \in Daemon \cup {None}, socket' \in Daemon \cup {None},
         written' \in BOOLEAN, snatched' \in BOOLEAN,
         daemon' \in [Daemon -> {"none", "starting", "stale", "create", "write", "bind",
                                 "serving", "closing", "dead"}],
         died' \subseteq Daemon, crashes' \in Nat
  PROVE  WorldTypeOK'
BY Zenon DEF WorldTypeOK

\* Every step keeps the types.
LEMMA TypesStep ==
  ASSUME ClientTypeOK, WorldTypeOK, PeerInv, [DaemonNext]_daemonVars
  PROVE  ClientTypeOK' /\ WorldTypeOK'
<1>1. ASSUME NEW d \in Daemon, DaemonStep(d) \/ Crash(d)
      PROVE  ClientTypeOK' /\ WorldTypeOK'
  <2>1. ClientTypeOK'
    BY <1>1 DEF ClientTypeOK, DaemonStep, Crash
  <2>2. CASE DaemonStep(d)
    <3> USE DEF Startup, SetupFails, ReadOwner, RemoveStale, Create, WritePid, Bind, Close, Release,
                RemovePidfile
    <3>1. /\ Startup(d) \/ Close(d) \/ Release(d)
          /\ UNCHANGED <<died, crashes>>
      BY <2>2 DEF DaemonStep
    <3>2. pidfile' \in Daemon \cup {None} /\ socket' \in Daemon \cup {None}
      BY <3>1 DEF WorldTypeOK
    <3>3. daemon' \in [Daemon -> {"none", "starting", "stale", "create", "write", "bind",
                                  "serving", "closing", "dead"}]
      BY <3>1 DEF WorldTypeOK, At
    <3>4. written' \in BOOLEAN
      BY <3>1 DEF WorldTypeOK
    <3>5. snatched' \in BOOLEAN
      BY <3>1 DEF WorldTypeOK
    <3>6. died' \subseteq Daemon /\ crashes' \in Nat
      BY <3>1 DEF WorldTypeOK
    <3>7. QED
      BY <2>1, <3>2, <3>3, <3>4, <3>5, <3>6, WorldParts
  <2>3. CASE Crash(d)
    <3>1. crashes' \in Nat
      BY <2>3 DEF Crash, WorldTypeOK
    <3>2. died' \subseteq Daemon
      BY <2>3 DEF Crash, WorldTypeOK
    <3>3. daemon' \in [Daemon -> {"none", "starting", "stale", "create", "write", "bind",
                                  "serving", "closing", "dead"}]
      BY <2>3 DEF Crash, WorldTypeOK
    <3>4. pidfile' \in Daemon \cup {None} /\ socket' \in Daemon \cup {None}
      BY <2>3 DEF Crash, WorldTypeOK
    <3>5. written' \in BOOLEAN /\ snatched' \in BOOLEAN
      BY <2>3 DEF Crash, WorldTypeOK
    <3>6. QED
      BY <2>1, <3>1, <3>2, <3>3, <3>4, <3>5, WorldParts
  <2>4. QED
    BY <1>1, <2>2, <2>3
<1>2. ASSUME NEW c \in Client, Connect(c)
      PROVE  ClientTypeOK' /\ WorldTypeOK'
  <2>1. WorldTypeOK'
    BY <1>2 DEF Connect, World, Files, WorldTypeOK
  <2>2. 1 \in 0 .. RetryMax
    BY DaemonAssumption
  <2>3. tries' \in [Client -> 0 .. RetryMax]
    BY <1>2, <2>2 DEF Connect, ClientTypeOK
  <2>4. QED
    BY <1>2, <2>1, <2>3 DEF Connect, Goto, ClientTypeOK
<1>3. ASSUME NEW c \in Client, ConnectStep(c)
      PROVE  ClientTypeOK' /\ WorldTypeOK'
  <2>1. CASE LookForOwner(c)
    <3>1. WorldTypeOK'
      BY <2>1 DEF LookForOwner, WorldTypeOK, Files, Owned
    <3>2. ClientTypeOK'
      <4>1. CASE NoOwner(c, "look") \/ Fail(c, "look")
        BY <4>1, NoOwnerTypes, RetryTypes
      <4>2. CASE Goto(c, "look", "stale") /\ UNCHANGED <<purpose, pid, peer, tries>>
        BY <4>2 DEF ClientTypeOK, Goto
      <4>3. CASE /\ pid' = [pid EXCEPT ![c] = pidfile]
                 /\ Goto(c, "look", "pid")
                 /\ UNCHANGED <<purpose, peer, tries>>
        BY <4>3 DEF ClientTypeOK, WorldTypeOK, Goto
      <4>4. QED
        BY <2>1, <4>1, <4>2, <4>3 DEF LookForOwner
    <3>3. QED
      BY <3>1, <3>2
  <2>2. CASE ClearStale(c)
    <3>1. WorldTypeOK'
      BY <2>2 DEF ClearStale, WorldTypeOK, RemovePidfile
    <3>2. ClientTypeOK'
      BY <2>2, NoOwnerTypes, RetryTypes DEF ClearStale
    <3>3. QED
      BY <3>1, <3>2
  <2>3. CASE StartDaemon(c)
    <3>1. WorldTypeOK'
      BY <2>3 DEF StartDaemon, WorldTypeOK, Files, At
    <3>2. ClientTypeOK'
      <4>1. CASE Fail(c, "start")
        BY <4>1, RetryTypes
      <4>2. CASE /\ \E d \in Daemon : pid' = [pid EXCEPT ![c] = d]
                 /\ Goto(c, "start", "pid")
                 /\ UNCHANGED <<purpose, peer, tries>>
        BY <4>2 DEF ClientTypeOK, Goto
      <4>3. QED
        BY <2>3, <4>1, <4>2 DEF StartDaemon
    <3>3. QED
      BY <3>1, <3>2
  <2>4. CASE \/ WaitForPidfile(c) \/ OpenConnection(c) \/ Handshake(c)
             \/ WaitUntilGone(c) \/ WaitFails(c)
    <3>1. WorldTypeOK'
      BY <2>4 DEF WaitForPidfile, OpenConnection, Handshake, WaitUntilGone, WaitFails, World,
                  Files, WorldTypeOK
    <3>2. ClientTypeOK'
      <4>1. CASE \E from : Fail(c, from) \/ Retry(c, from)
        BY <4>1, RetryTypes
      <4>2. CASE /\ Goto(c, "pid", "sock") \/ Goto(c, "hello", "stop")
                 /\ UNCHANGED <<purpose, pid, peer, tries>>
        BY <4>2, GotoTypes
      <4>3. CASE /\ socket \in Serving
                 /\ Goto(c, "sock", "hello")
                 /\ peer' = [peer EXCEPT ![c] = socket]
                 /\ UNCHANGED <<purpose, pid, tries>>
        BY <4>3 DEF ClientTypeOK, Goto, Serving
      <4>4. CASE /\ Goto(c, "hello", "look") \/ Goto(c, "gone", "look")
                 /\ purpose' = [purpose EXCEPT ![c] = "kill"]
                 /\ UNCHANGED <<pid, peer, tries>>
        BY <4>4 DEF ClientTypeOK, Goto
      <4>5. CASE WaitForPidfile(c)
        BY <4>1, <4>2, <4>5 DEF WaitForPidfile
      <4>6. CASE OpenConnection(c)
        BY <4>1, <4>3, <4>6 DEF OpenConnection
      <4>7. CASE Handshake(c)
        <5>1. CASE /\ Goto(c, "hello", "ok")
                   /\ tries' = [tries EXCEPT ![c] = 0] /\ pid' = [pid EXCEPT ![c] = None]
                   /\ UNCHANGED <<purpose, peer>>
          <6>1. 0 \in 0 .. RetryMax
            BY DaemonAssumption
          <6>2. tries' \in [Client -> 0 .. RetryMax]
            BY <5>1, <6>1 DEF ClientTypeOK
          <6> QED
            BY <5>1, <6>2 DEF ClientTypeOK, Goto
        <5> QED
          BY <4>1, <4>2, <4>4, <4>7, <5>1 DEF Handshake
      <4>8. CASE WaitUntilGone(c) \/ WaitFails(c)
        BY <4>1, <4>4, <4>8 DEF WaitUntilGone, WaitFails
      <4>9. QED
        BY <2>4, <4>5, <4>6, <4>7, <4>8
    <3>3. QED
      BY <3>1, <3>2
  <2>5. CASE StopServer(c)
    BY <2>5 DEF StopServer, RequestShutdown, ClientTypeOK, WorldTypeOK, Goto, Files, At
  <2>6. QED
    BY <1>3, <2>1, <2>2, <2>3, <2>4, <2>5 DEF ConnectStep, Proceed
<1>4. ASSUME NEW c \in Client, StopBeforeClean(c)
      PROVE  ClientTypeOK' /\ WorldTypeOK'
  <2>1. WorldTypeOK'
    BY <1>4 DEF StopBeforeClean, RequestShutdown, WorldTypeOK, Files, At
  <2>2. QED
    BY <1>4, <2>1, RetryTypes DEF StopBeforeClean
<1>5. ASSUME NEW c \in Client, Clean(c)
      PROVE  ClientTypeOK' /\ WorldTypeOK'
  BY <1>5 DEF Clean, Goto, RemovePidfile, ClientTypeOK, WorldTypeOK
<1>6. CASE UNCHANGED daemonVars
  BY <1>6 DEF daemonVars, ClientTypeOK, WorldTypeOK
<1>7. QED
  BY <1>1, <1>2, <1>3, <1>4, <1>5, <1>6 DEF DaemonNext

-----------------------------------------------------------------------------
(* What a step does to the files and to the daemons.                       *)

\* The operations of a client, as the daemons see them.
LEMMA ClientStep ==
  ASSUME NEW c \in Client, Connect(c) \/ ConnectStep(c) \/ StopBeforeClean(c) \/ Clean(c)
  PROVE  \/ UNCHANGED <<pidfile, written, snatched, daemon, died>>
         \/ /\ \E d \in Daemon : At(d, "none", "starting")
            /\ UNCHANGED <<pidfile, written, snatched, died>>
         \/ /\ At(peer[c], "serving", "closing")
            /\ UNCHANGED <<pidfile, written, snatched, died>>
         \/ /\ daemon' = [daemon EXCEPT ![pidfile] = "dead"]
            /\ died' = died \cup {pidfile}
            /\ UNCHANGED <<pidfile, written, snatched>>
         \/ /\ client[c] = "stale" \/ (c \in Cleaner /\ Goto(c, "error", "cleaned"))
            /\ RemovePidfile(c)
            /\ UNCHANGED <<daemon, died>>
<1>1. CASE \/ Connect(c) \/ WaitForPidfile(c) \/ OpenConnection(c) \/ Handshake(c)
           \/ WaitUntilGone(c) \/ WaitFails(c)
  BY <1>1 DEF Connect, WaitForPidfile, OpenConnection, Handshake, WaitUntilGone, WaitFails,
              World, Files
<1>2. CASE LookForOwner(c)
  BY <1>2 DEF LookForOwner, Files
<1>3. CASE ClearStale(c)
  BY <1>3 DEF ClearStale
<1>4. CASE StartDaemon(c)
  BY <1>4 DEF StartDaemon, Files
<1>5. CASE StopServer(c)
  BY <1>5 DEF StopServer, RequestShutdown, Files
<1>6. CASE StopBeforeClean(c)
  BY <1>6 DEF StopBeforeClean, RequestShutdown, Files
<1>7. CASE Clean(c)
  BY <1>7 DEF Clean
<1>8. QED
  BY <1>1, <1>2, <1>3, <1>4, <1>5, <1>6, <1>7 DEF ConnectStep, Proceed

\* A client leaves the place it is in, and it finds a dead owner only if there is one.
LEMMA ClientMoves ==
  ASSUME NEW c \in Client, Connect(c) \/ ConnectStep(c) \/ StopBeforeClean(c) \/ Clean(c)
  PROVE  \E from \in {"idle", "look", "stale", "start", "pid", "sock", "hello", "stop",
                      "gone", "ok", "error"},
            to \in {"look", "stale", "start", "pid", "sock", "hello", "stop", "gone", "ok",
                    "error", "cleaned"} :
           Goto(c, from, to) /\ (to = "stale" => Stale)
<1> USE DEF Fail
<1>1. CASE \/ Connect(c) \/ Handshake(c) \/ StopServer(c) \/ WaitFails(c)
           \/ StopBeforeClean(c) \/ Clean(c)
  BY <1>1 DEF Connect, Handshake, StopServer, WaitFails, StopBeforeClean, Clean
<1>2. CASE WaitForPidfile(c) \/ OpenConnection(c) \/ WaitUntilGone(c)
  BY <1>2 DEF WaitForPidfile, OpenConnection, WaitUntilGone, Retry
<1>3. CASE LookForOwner(c)
  BY <1>3 DEF LookForOwner, NoOwner, Retry
<1>4. CASE ClearStale(c) \/ StartDaemon(c)
  BY <1>4 DEF ClearStale, StartDaemon, NoOwner, Retry
<1>5. QED
  BY <1>1, <1>2, <1>3, <1>4 DEF ConnectStep, Proceed

\* Nobody takes its file from a daemon that has the lock, or is about to, but one who
\* is seen to.
LEMMA SnatchIsSeen ==
  ASSUME WorldTypeOK, OwnerInv, NEW p, RemovePidfile(p), ~snatched',
         NEW d \in Daemon, daemon[d] \in {"write", "bind", "serving", "closing"}
  PROVE  d = p
<1>1. ~snatched /\ ~(pidfile # p /\ pidfile \in Alive)
  BY DEF RemovePidfile, WorldTypeOK
<1>2. pidfile = d
  BY <1>1 DEF OwnerInv
<1>3. d \in Alive
  BY DEF Alive
<1>4. QED
  BY <1>1, <1>2, <1>3

\* Every step keeps OwnerInv.
LEMMA OwnerStep ==
  ASSUME WorldTypeOK, OwnerInv, [DaemonNext]_daemonVars
  PROVE  OwnerInv'
<1>1. ASSUME NEW d \in Daemon, DaemonStep(d)
      PROVE  OwnerInv'
  <2>1. CASE SetupFails(d) \/ ReadOwner(d)
    BY <2>1 DEF SetupFails, ReadOwner, OwnerInv, WorldTypeOK, At
  <2>2. CASE RemoveStale(d)
    <3>1. CASE At(d, "stale", "dead") /\ UNCHANGED <<pidfile, written, snatched>>
      BY <3>1 DEF OwnerInv, WorldTypeOK, At
    <3>2. CASE At(d, "stale", "create") /\ RemovePidfile(d)
      <4> SUFFICES ASSUME ~snatched', NEW e \in Daemon,
                          daemon'[e] \in {"write", "bind", "serving", "closing"}
                   PROVE  FALSE
        BY DEF OwnerInv
      <4>1. e # d /\ daemon[e] = daemon'[e]
        BY <3>2 DEF At, WorldTypeOK
      <4>2. QED
        BY <3>2, <4>1, SnatchIsSeen
    <3>3. QED
      BY <2>2, <3>1, <3>2 DEF RemoveStale
  <2>3. CASE Create(d)
    <3>1. CASE /\ pidfile = None /\ At(d, "create", "write")
               /\ pidfile' = d /\ written' = FALSE /\ UNCHANGED snatched
      <4> SUFFICES ASSUME ~snatched', NEW e \in Daemon,
                          daemon'[e] \in {"write", "bind", "serving", "closing"}, e # d
                   PROVE  FALSE
        BY <3>1 DEF OwnerInv, At, WorldTypeOK
      <4>1. daemon[e] \in {"write", "bind", "serving", "closing"} /\ ~snatched
        BY <3>1 DEF At, WorldTypeOK
      <4>2. QED
        BY <3>1, <4>1, DaemonAssumption DEF OwnerInv
    <3>2. CASE At(d, "create", "dead") /\ UNCHANGED <<pidfile, written, snatched>>
      BY <3>2 DEF OwnerInv, WorldTypeOK, At
    <3>3. QED
      BY <2>3, <3>1, <3>2 DEF Create
  <2>4. CASE WritePid(d)
    BY <2>4 DEF WritePid, OwnerInv, WorldTypeOK, At
  <2>5. CASE /\ At(d, "bind", "serving") \/ At(d, "serving", "closing")
             /\ UNCHANGED <<pidfile, written, snatched>>
    BY <2>5 DEF OwnerInv, WorldTypeOK, At
  <2>6. CASE RemovePidfile(d) /\ (At(d, "bind", "dead") \/ At(d, "closing", "dead"))
    <3> SUFFICES ASSUME ~snatched', NEW e \in Daemon,
                        daemon'[e] \in {"write", "bind", "serving", "closing"}
                 PROVE  FALSE
      BY DEF OwnerInv
    <3>1. e # d /\ daemon[e] = daemon'[e]
      BY <2>6 DEF At, WorldTypeOK
    <3>2. QED
      BY <2>6, <3>1, SnatchIsSeen
  <2>7. CASE Bind(d) \/ Close(d) \/ Release(d)
    BY <2>5, <2>6, <2>7 DEF Bind, Close, Release
  <2>8. QED
    BY <1>1, <2>1, <2>2, <2>3, <2>4, <2>7 DEF DaemonStep, Startup
<1>2. ASSUME NEW d \in Daemon, Crash(d)
      PROVE  OwnerInv'
  BY <1>2 DEF Crash, OwnerInv, WorldTypeOK
<1>3. ASSUME NEW c \in Client,
             Connect(c) \/ ConnectStep(c) \/ StopBeforeClean(c) \/ Clean(c)
      PROVE  OwnerInv'
  <2>1. CASE UNCHANGED <<pidfile, written, snatched, daemon>>
    BY <2>1 DEF OwnerInv
  <2>2. CASE /\ \E d \in Daemon : At(d, "none", "starting")
             /\ UNCHANGED <<pidfile, written, snatched>>
    BY <2>2 DEF OwnerInv, WorldTypeOK, At
  <2>3. CASE /\ At(peer[c], "serving", "closing")
             /\ UNCHANGED <<pidfile, written, snatched>>
    BY <2>3 DEF OwnerInv, WorldTypeOK, At
  <2>4. CASE /\ daemon' = [daemon EXCEPT ![pidfile] = "dead"]
             /\ UNCHANGED <<pidfile, written, snatched>>
    BY <2>4 DEF OwnerInv, WorldTypeOK
  <2>5. CASE RemovePidfile(c) /\ UNCHANGED daemon
    <3> SUFFICES ASSUME ~snatched', NEW e \in Daemon,
                        daemon'[e] \in {"write", "bind", "serving", "closing"}
                 PROVE  FALSE
      BY DEF OwnerInv
    <3>1. e # c
      BY DaemonAssumption
    <3>2. QED
      BY <2>5, <3>1, SnatchIsSeen
  <2>6. QED
    BY <1>3, <2>1, <2>2, <2>3, <2>4, <2>5, ClientStep
<1>4. CASE UNCHANGED daemonVars
  BY <1>4 DEF daemonVars, OwnerInv
<1>5. QED
  BY <1>1, <1>2, <1>3, <1>4 DEF DaemonNext

-----------------------------------------------------------------------------
(* Good order.                                                             *)

\* What a step leaves in good order was in good order before.
LEMMA OrderlyBefore ==
  ASSUME ClientTypeOK, WorldTypeOK, [DaemonNext]_daemonVars, Orderly'
  PROVE  Orderly
<1>1. died = {}
  <2>1. died \subseteq died'
    <3>1. ASSUME NEW d \in Daemon, DaemonStep(d) \/ Crash(d)
          PROVE  died \subseteq died'
      BY <3>1 DEF DaemonStep, Crash
    <3>2. ASSUME NEW c \in Client,
                 Connect(c) \/ ConnectStep(c) \/ StopBeforeClean(c) \/ Clean(c)
          PROVE  died \subseteq died'
      BY <3>2, ClientStep
    <3>3. QED
      BY <3>1, <3>2 DEF DaemonNext, daemonVars
  <2>2. QED
    BY <2>1 DEF Orderly
<1>2. ASSUME NEW c \in Cleaner, client[c] = "cleaned"
      PROVE  client'[c] = "cleaned"
  <2>1. ASSUME NEW e \in Client,
               Connect(e) \/ ConnectStep(e) \/ StopBeforeClean(e) \/ Clean(e)
        PROVE  client'[c] = "cleaned"
    <3>1. PICK from \in {"idle", "look", "stale", "start", "pid", "sock", "hello", "stop",
                         "gone", "ok", "error"},
               to \in {"look", "stale", "start", "pid", "sock", "hello", "stop", "gone",
                       "ok", "error", "cleaned"} : Goto(e, from, to)
      BY <2>1, ClientMoves
    <3>2. e # c
      BY <1>2, <3>1 DEF Goto
    <3>3. QED
      BY <1>2, <3>1, <3>2, DaemonAssumption DEF Goto, ClientTypeOK
  <2>2. ASSUME NEW d \in Daemon, DaemonStep(d) \/ Crash(d)
        PROVE  client'[c] = "cleaned"
    BY <1>2, <2>2 DEF DaemonStep, Crash
  <2>3. QED
    BY <1>2, <2>1, <2>2 DEF DaemonNext, daemonVars
<1>3. QED
  BY <1>1, <1>2 DEF Orderly

\* What OrderlyInv says of the pid file and the daemons.
Held == pidfile # None => daemon[pidfile] \in {"write", "bind", "serving", "closing"}
NoneStale == \A d \in Daemon : daemon[d] # "stale"

\* Every step keeps OrderlyInv.
LEMMA OrderStep ==
  ASSUME ClientTypeOK, WorldTypeOK, OwnerInv, OrderlyInv, [DaemonNext]_daemonVars
  PROVE  OrderlyInv'
<1> SUFFICES ASSUME Orderly'
             PROVE  ~snatched' /\ Held' /\ NoneStale' /\ \A c \in Client : client'[c] # "stale"
  BY DEF OrderlyInv, Held, NoneStale
<1>1. ~snatched /\ Held /\ NoneStale /\ \A c \in Client : client[c] # "stale"
  BY OrderlyBefore DEF OrderlyInv, Held, NoneStale
<1>2. ~Stale
  BY <1>1 DEF Stale, Held, Alive, WorldTypeOK
<1>3. ASSUME NEW d \in Daemon, DaemonStep(d)
      PROVE  ~snatched' /\ Held' /\ NoneStale' /\ UNCHANGED client
  <2>1. UNCHANGED client
    BY <1>3 DEF DaemonStep
  <2>2. CASE SetupFails(d) \/ ReadOwner(d)
    <3>1. At(d, "starting", "create") \/ At(d, "starting", "dead")
      BY <1>2, <2>2 DEF SetupFails, ReadOwner
    <3>2. NoneStale' /\ Held'
      BY <1>1, <2>2, <3>1 DEF SetupFails, ReadOwner, NoneStale, Held, At, WorldTypeOK
    <3>3. QED
      BY <1>1, <2>1, <2>2, <3>2 DEF SetupFails, ReadOwner
  <2>3. CASE RemoveStale(d)
    BY <1>1, <2>3 DEF RemoveStale, At, NoneStale
  <2>4. CASE Create(d)
    <3>1. NoneStale' /\ Held'
      BY <1>1, <2>4 DEF Create, NoneStale, Held, At, WorldTypeOK
    <3>2. QED
      BY <1>1, <2>1, <2>4, <3>1 DEF Create
  <2>5. CASE /\ \/ At(d, "write", "bind") \/ At(d, "bind", "serving")
                \/ At(d, "serving", "closing")
             /\ UNCHANGED <<pidfile, snatched>>
    <3>1. NoneStale' /\ Held'
      BY <1>1, <2>5 DEF NoneStale, Held, At, WorldTypeOK
    <3>2. QED
      BY <1>1, <2>1, <2>5, <3>1
  <2>6. CASE RemovePidfile(d) /\ (At(d, "bind", "dead") \/ At(d, "closing", "dead"))
    <3>1. (At(d, "bind", "dead") \/ At(d, "closing", "dead")) /\ RemovePidfile(d)
      BY <2>6
    <3>2. pidfile = d
      BY <1>1, <3>1 DEF OwnerInv, At
    <3>3. ~snatched' /\ pidfile' = None
      BY <1>1, <3>1, <3>2 DEF RemovePidfile
    <3>4. NoneStale' /\ Held'
      BY <1>1, <3>1, <3>3 DEF NoneStale, Held, At, WorldTypeOK
    <3>5. QED
      BY <2>1, <3>3, <3>4
  <2>7. CASE WritePid(d) \/ Bind(d) \/ Close(d) \/ Release(d)
    BY <2>5, <2>6, <2>7 DEF WritePid, Bind, Close, Release
  <2>8. QED
    BY <1>3, <2>2, <2>3, <2>4, <2>7 DEF DaemonStep, Startup
<1>4. ASSUME NEW d \in Daemon, Crash(d)
      PROVE  FALSE
  BY <1>4 DEF Crash, Orderly
<1>5. ASSUME NEW c \in Client,
             Connect(c) \/ ConnectStep(c) \/ StopBeforeClean(c) \/ Clean(c)
      PROVE  ~snatched' /\ Held' /\ NoneStale' /\ \A e \in Client : client'[e] # "stale"
  <2>1. PICK from \in {"idle", "look", "stale", "start", "pid", "sock", "hello", "stop",
                       "gone", "ok", "error"},
             to \in {"look", "stale", "start", "pid", "sock", "hello", "stop", "gone",
                     "ok", "error", "cleaned"} : Goto(c, from, to) /\ (to = "stale" => Stale)
    BY <1>5, ClientMoves
  <2>2. \A e \in Client : client'[e] # "stale"
    BY <1>1, <1>2, <2>1 DEF Goto, ClientTypeOK
  <2>3. CASE UNCHANGED <<pidfile, written, snatched, daemon, died>>
    BY <1>1, <2>2, <2>3 DEF Held, NoneStale
  <2>4. CASE /\ \E d \in Daemon : At(d, "none", "starting")
             /\ UNCHANGED <<pidfile, written, snatched, died>>
    <3>1. NoneStale' /\ Held'
      BY <1>1, <2>4 DEF Held, NoneStale, At, WorldTypeOK
    <3>2. QED
      BY <1>1, <2>2, <2>4, <3>1
  <2>5. CASE /\ At(peer[c], "serving", "closing")
             /\ UNCHANGED <<pidfile, written, snatched, died>>
    <3>1. NoneStale' /\ Held'
      BY <1>1, <2>5 DEF Held, NoneStale, At, WorldTypeOK
    <3>2. QED
      BY <1>1, <2>2, <2>5, <3>1
  <2>6. CASE died' = died \cup {pidfile}
    BY <2>6 DEF Orderly
  <2>7. CASE client[c] = "stale"
    BY <1>1, <2>7
  <2>8. CASE c \in Cleaner /\ Goto(c, "error", "cleaned")
    BY <2>8 DEF Orderly, Goto, ClientTypeOK
  <2>9. QED
    BY <1>5, <2>3, <2>4, <2>5, <2>6, <2>7, <2>8, ClientStep
<1>6. CASE UNCHANGED daemonVars
  BY <1>1, <1>6 DEF daemonVars, Held, NoneStale
<1>7. QED
  BY <1>1, <1>3, <1>4, <1>5, <1>6 DEF DaemonNext

-----------------------------------------------------------------------------
(* The servers of the clients.                                             *)

\* A daemon that has served goes on to its end.
LEMMA ServedGoesOn ==
  ASSUME WorldTypeOK, [DaemonNext]_daemonVars, NEW d \in Daemon
  PROVE  /\ daemon[d] \in {"closing", "dead"} => daemon'[d] \in {"closing", "dead"}
         /\ daemon[d] = "serving" => daemon'[d] \in {"serving", "closing", "dead"}
<1>1. ASSUME NEW e \in Daemon, DaemonStep(e)
      PROVE  \E from, to : /\ At(e, from, to)
                           /\ from # "dead" /\ (from = "closing" => to = "dead")
                           /\ (from = "serving" => to = "closing")
  <2>1. CASE SetupFails(e) \/ ReadOwner(e) \/ Create(e)
    BY <2>1 DEF SetupFails, ReadOwner, Create
  <2>2. CASE RemoveStale(e) \/ WritePid(e) \/ Bind(e)
    BY <2>2 DEF RemoveStale, WritePid, Bind
  <2>3. CASE Close(e) \/ Release(e)
    BY <2>3 DEF Close, Release
  <2>4. QED
    BY <1>1, <2>1, <2>2, <2>3 DEF DaemonStep, Startup
<1>2. ASSUME NEW e \in Daemon, DaemonStep(e) \/ Crash(e)
      PROVE  /\ daemon[d] \in {"closing", "dead"} => daemon'[d] \in {"closing", "dead"}
             /\ daemon[d] = "serving" => daemon'[d] \in {"serving", "closing", "dead"}
  BY <1>1, <1>2 DEF Crash, At, WorldTypeOK
<1>3. ASSUME NEW c \in Client,
             Connect(c) \/ ConnectStep(c) \/ StopBeforeClean(c) \/ Clean(c)
      PROVE  /\ daemon[d] \in {"closing", "dead"} => daemon'[d] \in {"closing", "dead"}
             /\ daemon[d] = "serving" => daemon'[d] \in {"serving", "closing", "dead"}
  <2>1. \/ UNCHANGED daemon
        \/ \E e \in Daemon : At(e, "none", "starting")
        \/ At(peer[c], "serving", "closing")
        \/ daemon' = [daemon EXCEPT ![pidfile] = "dead"]
    BY <1>3, ClientStep
  <2>2. QED
    BY <2>1 DEF At, WorldTypeOK
<1>4. QED
  BY <1>2, <1>3 DEF DaemonNext, daemonVars

\* The operations of one client leave the others alone.
LEMMA OthersKeep ==
  ASSUME ClientTypeOK, NEW c \in Client,
         Connect(c) \/ ConnectStep(c) \/ StopBeforeClean(c) \/ Clean(c),
         NEW e \in Client, e # c
  PROVE  client'[e] = client[e] /\ purpose'[e] = purpose[e] /\ peer'[e] = peer[e]
<1> USE DEF Goto, Forget, Fail, Retry, ClientTypeOK
<1>1. CASE Connect(c) \/ Clean(c) \/ StopBeforeClean(c)
  BY <1>1 DEF Connect, Clean, StopBeforeClean
<1>2. CASE WaitForPidfile(c) \/ OpenConnection(c) \/ Handshake(c) \/ WaitUntilGone(c)
  BY <1>2 DEF WaitForPidfile, OpenConnection, Handshake, WaitUntilGone
<1>3. CASE LookForOwner(c) \/ ClearStale(c)
  BY <1>3 DEF LookForOwner, ClearStale, NoOwner
<1>4. CASE StartDaemon(c) \/ StopServer(c) \/ WaitFails(c)
  BY <1>4 DEF StartDaemon, StopServer, WaitFails
<1>5. QED
  BY <1>1, <1>2, <1>3, <1>4 DEF ConnectStep, Proceed

\* A client that gives up, or begins again, knows of no server.
LEMMA RetryKnows ==
  ASSUME ClientTypeOK, NEW c \in Client, NEW from, Retry(c, from) \/ Fail(c, from)
  PROVE  KnowsPeer(c)'
BY DEF KnowsPeer, Retry, Fail, Goto, Forget, ClientTypeOK

\* One that finds no owner goes on with what it knows.
LEMMA NoOwnerKnows ==
  ASSUME ClientTypeOK, NEW c \in Client, KnowsPeer(c), NEW from \in {"look", "stale"},
         NoOwner(c, from),
         peer[c] \in Daemon /\ daemon[peer[c]] \in {"serving", "closing", "dead"} =>
           daemon'[peer[c]] \in {"serving", "closing", "dead"}
  PROVE  KnowsPeer(c)'
<1>1. CASE Fail(c, from) \/ Retry(c, from)
  BY <1>1, RetryKnows
<1>2. CASE Goto(c, from, "start")
  BY <1>2 DEF Goto, ClientTypeOK, KnowsPeer
<1>3. CASE purpose[c] = "kill and wait" /\ Goto(c, from, "gone") /\ UNCHANGED peer
  <2>1. client[c] \in {"look", "stale"} /\ client'[c] = "gone" /\ peer'[c] = peer[c]
    BY <1>3 DEF Goto, ClientTypeOK
  <2>2. Refused(c) /\ peer[c] \in Daemon /\ daemon'[peer[c]] \in {"serving", "closing", "dead"}
    BY <1>3, <2>1 DEF KnowsPeer
  <2>3. QED
    BY <2>1, <2>2 DEF KnowsPeer, Refused
<1>4. QED
  BY <1>1, <1>2, <1>3 DEF NoOwner

\* Every step keeps PeerInv.
LEMMA PeerStep ==
  ASSUME ClientTypeOK, WorldTypeOK, PeerInv, [DaemonNext]_daemonVars
  PROVE  PeerInv'
<1> SUFFICES ASSUME NEW c \in Client
             PROVE  KnowsPeer(c)'
  BY DEF PeerInv
<1>1. KnowsPeer(c)
  BY DEF PeerInv
<1>2. ASSUME peer[c] \in Daemon, daemon[peer[c]] \in {"serving", "closing", "dead"}
      PROVE  daemon'[peer[c]] \in {"serving", "closing", "dead"}
  BY <1>2, ServedGoesOn
<1>3. ASSUME peer[c] \in Daemon, HasGone(c)
      PROVE  daemon'[peer[c]] \in {"closing", "dead"}
  BY <1>3, ServedGoesOn DEF HasGone
<1>4. CASE /\ client'[c] = client[c] \/ Goto(c, "look", "stale")
           /\ purpose'[c] = purpose[c] /\ peer'[c] = peer[c]
  BY <1>1, <1>2, <1>3, <1>4 DEF KnowsPeer, Refused, HasGone, Goto, ClientTypeOK
<1>5. ASSUME Connect(c) \/ ConnectStep(c) \/ StopBeforeClean(c) \/ Clean(c)
      PROVE  KnowsPeer(c)'
  <2>1. CASE \/ \E from : Fail(c, from) \/ Retry(c, from)
             \/ \E from \in {"look", "stale"} : NoOwner(c, from)
    BY <1>1, <1>2, <2>1, RetryKnows, NoOwnerKnows
  <2>2. CASE \E from : \E to \in {"start", "pid", "sock", "error", "cleaned"} : Goto(c, from, to)
    BY <2>2 DEF Goto, ClientTypeOK, KnowsPeer
  <2>3. CASE Connect(c)
    BY <1>1, <2>3 DEF Connect, Goto, ClientTypeOK, KnowsPeer
  <2>4. CASE LookForOwner(c)
    <3>1. CASE Goto(c, "look", "stale") /\ UNCHANGED <<purpose, peer>>
      BY <1>4, <3>1
    <3>2. CASE Goto(c, "look", "pid")
      BY <2>2, <3>2
    <3>3. CASE NoOwner(c, "look") \/ Fail(c, "look")
      BY <2>1, <3>3
    <3>4. QED
      BY <2>4, <3>1, <3>2, <3>3 DEF LookForOwner
  <2>5. CASE ClearStale(c) \/ WaitUntilGone(c)
    BY <2>1, <2>5 DEF ClearStale, WaitUntilGone
  <2>6. CASE StartDaemon(c) \/ WaitForPidfile(c)
    BY <2>1, <2>2, <2>6 DEF StartDaemon, WaitForPidfile
  <2>7. CASE OpenConnection(c)
    <3>1. CASE /\ socket \in Serving
               /\ Goto(c, "sock", "hello")
               /\ peer' = [peer EXCEPT ![c] = socket]
      <4>1. daemon'[socket] \in {"serving", "closing", "dead"} /\ socket \in Daemon
        BY <3>1, ServedGoesOn DEF Serving
      <4>2. QED
        BY <3>1, <4>1 DEF Goto, ClientTypeOK, KnowsPeer
    <3>2. QED
      BY <2>1, <2>7, <3>1 DEF OpenConnection
  <2>8. CASE Handshake(c)
    <3>1. CASE Goto(c, "hello", "ok") /\ UNCHANGED peer
      BY <1>1, <1>2, <3>1 DEF Goto, ClientTypeOK, KnowsPeer
    <3>2. CASE /\ <<c, peer[c]>> \notin Matches /\ c \in CanKill
               /\ Goto(c, "hello", "stop") /\ UNCHANGED peer
      BY <1>1, <1>2, <3>2 DEF Goto, ClientTypeOK, KnowsPeer, Refused
    <3>3. CASE /\ peer[c] \notin Serving
               /\ Goto(c, "hello", "look")
               /\ purpose' = [purpose EXCEPT ![c] = "kill"]
               /\ UNCHANGED peer
      <4>1. client[c] = "hello" /\ client'[c] = "look" /\ purpose'[c] = "kill"
        BY <3>3 DEF Goto, ClientTypeOK
      <4>2. peer[c] \in Daemon /\ HasGone(c)
        BY <1>1, <3>3, <4>1 DEF KnowsPeer, Serving, HasGone
      <4>3. daemon'[peer'[c]] \in {"closing", "dead"} /\ peer'[c] \in Daemon
        BY <1>3, <3>3, <4>2
      <4>4. QED
        BY <4>1, <4>3 DEF KnowsPeer, HasGone
    <3>4. QED
      BY <2>1, <2>8, <3>1, <3>2, <3>3 DEF Handshake
  <2>9. CASE StopServer(c) \/ WaitFails(c)
    <3>1. /\ client[c] \in {"stop", "gone"} /\ client'[c] \in {"look", "gone"}
          /\ peer'[c] = peer[c]
      BY <2>9 DEF StopServer, WaitFails, Goto, ClientTypeOK
    <3>2. /\ peer'[c] \in Daemon /\ daemon'[peer'[c]] \in {"serving", "closing", "dead"}
          /\ Refused(c)'
      BY <1>1, <1>2, <3>1 DEF KnowsPeer, Refused
    <3>3. QED
      BY <3>1, <3>2 DEF KnowsPeer
  <2>10. CASE StopBeforeClean(c) \/ Clean(c)
    BY <2>1, <2>2, <2>10 DEF StopBeforeClean, Clean
  <2>11. QED
    BY <1>5, <2>3, <2>4, <2>5, <2>6, <2>7, <2>8, <2>9, <2>10 DEF ConnectStep, Proceed
<1>6. ASSUME NEW d \in Daemon, DaemonStep(d) \/ Crash(d)
      PROVE  UNCHANGED <<client, purpose, peer>>
  BY <1>6 DEF DaemonStep, Crash
<1>7. ASSUME NEW e \in Client, e # c,
             Connect(e) \/ ConnectStep(e) \/ StopBeforeClean(e) \/ Clean(e)
      PROVE  KnowsPeer(c)'
  BY <1>4, <1>7, OthersKeep
<1>8. QED
  BY <1>4, <1>5, <1>6, <1>7 DEF DaemonNext, daemonVars

-----------------------------------------------------------------------------
(* The theorems.                                                           *)

\* Every step keeps the inductive invariant.
LEMMA DaemonInvStep == DaemonInv /\ [DaemonNext]_daemonVars => DaemonInv'
BY TypesStep, OwnerStep, OrderStep, PeerStep DEF DaemonInv

\* The inductive invariant holds of every behaviour.
THEOREM DaemonInvariant == DaemonSpec => []DaemonInv
<1>1. DaemonInit => DaemonInv
  BY DaemonInvInit
<1>2. DaemonInv /\ [DaemonNext]_daemonVars => DaemonInv'
  BY DaemonInvStep
<1>3. QED
  BY <1>1, <1>2, PTL DEF DaemonSpec

\* Every variable of the files, the daemons and the clients has its type.
THEOREM DaemonTypeCorrect == DaemonSpec => []DaemonTypeOK
<1>1. DaemonInv => DaemonTypeOK
  BY DaemonTypes DEF DaemonInv
<1>2. QED
  BY <1>1, DaemonInvariant, PTL

\* Pidlock::acquire: no two daemons have the lock, and the one that has it is in the
\* file, unless some process removed the file of a daemon that lives.
THEOREM OwnersExcludeEachOther == DaemonSpec => []OwnersExclude
<1>1. DaemonInv => OwnersExclude
  BY DEF DaemonInv, OwnerInv, OwnersExclude, Locked
<1>2. QED
  BY <1>1, DaemonInvariant, PTL

\* create_new, remove_file and Drop: as long as no daemon dies without removing its
\* file and nobody cleans, however many start, stop and look at once, none loses it.
THEOREM LiveFilesStay == DaemonSpec => []LiveFilesAreKept
<1>1. DaemonInv => LiveFilesAreKept
  BY DEF DaemonInv, OrderlyInv, Orderly, LiveFilesAreKept
<1>2. QED
  BY <1>1, DaemonInvariant, PTL

\* kill_dead_server kills the process that get_or_start_daemon returned, which may not be
\* the server, and only when the server has gone or has another version.
THEOREM KillsHitTheirTarget == DaemonSpec => KillsAreAimed
<1> DEFINE By(c, d) == /\ client[c] = "look" /\ pid[c] = d /\ peer[c] \in Daemon
                       /\ peer[c] \in Serving => c \in CanKill /\ <<c, peer[c]>> \notin Matches
           Aimed == \A d \in died' \ died : crashes' = crashes => \E c \in Client : By(c, d)
<1>1. DaemonInv /\ [DaemonNext]_daemonVars => [Aimed]_daemonVars
  <2> SUFFICES ASSUME DaemonInv, [DaemonNext]_daemonVars,
                      NEW d \in died' \ died, crashes' = crashes
               PROVE  \E c \in Client : By(c, d)
    OBVIOUS
  <2>1. ASSUME NEW e \in Daemon, DaemonStep(e)
        PROVE  FALSE
    BY <2>1 DEF DaemonStep
  <2>2. ASSUME NEW e \in Daemon, Crash(e)
        PROVE  FALSE
    <3>1. crashes \in Nat /\ crashes' = crashes + 1
      BY <2>2 DEF Crash, DaemonInv, WorldTypeOK
    <3>2. QED
      BY <3>1
  <2>3. ASSUME NEW c \in Client,
               Connect(c) \/ ConnectStep(c) \/ StopBeforeClean(c) \/ Clean(c)
        PROVE  By(c, d)
    <3>1. LookForOwner(c)
      <4>1. died' # died
        OBVIOUS
      <4>2. QED
        BY <2>3, <4>1 DEF Connect, StopBeforeClean, Clean, ConnectStep, Proceed, ClearStale,
                          StartDaemon, WaitForPidfile, OpenConnection, Handshake, StopServer,
                          WaitUntilGone, WaitFails, World
    <3>2. /\ client[c] = "look" /\ purpose[c] # "find" /\ pidfile \in KillTarget(c)
          /\ died' = died \cup {pidfile}
      BY <3>1 DEF LookForOwner
    <3>3. KnowsPeer(c)
      BY DEF DaemonInv, PeerInv
    <3>4. peer[c] \in Daemon /\ (Refused(c) \/ HasGone(c))
      BY <3>2, <3>3 DEF KnowsPeer
    <3>5. QED
      BY <3>2, <3>4 DEF KillTarget, Serving, Refused, HasGone
  <2>4. CASE UNCHANGED daemonVars
    BY <2>4 DEF daemonVars
  <2>5. QED
    BY <2>1, <2>2, <2>3, <2>4 DEF DaemonNext
<1>2. QED
  BY <1>1, DaemonInvariant, PTL DEF DaemonSpec, KillsAreAimed

-----------------------------------------------------------------------------
(* The package watcher.                                                    *)


(***************************************************************************)
(* The inductive invariant, by the part of the state each conjunct is      *)
(* about.  Only DiscoveryInv says more than a type: the task of the        *)
(* pending discovery is the only one, it exists as long as the watcher     *)
(* waits for it, and without one there is a list or an error.              *)
(***************************************************************************)
DiskInv ==
  /\ manifest \in Manifest
  /\ files \subseteq File
  /\ changes \in 0 .. MaxChanges

ChannelInv ==
  /\ raw \in Seq(Event)
  /\ events \in Seq(Event)
  /\ Len(events) <= Capacity
  /\ lagged \in BOOLEAN

DiscoveryInv ==
  /\ globs \in (SUBSET Workspace) \cup {NoGlobs}
  /\ pending \in BOOLEAN
  /\ rerun \in BOOLEAN
  /\ version \in Nat
  /\ tasks \subseteq Task
  /\ data \in (SUBSET File) \cup {NoData, Failed}
  /\ \A t \in tasks : t.version = version
  /\ \A t, u \in tasks : t = u
  /\ pending <=> tasks # {}
  /\ ~pending => data # NoData
  /\ \A t \in tasks : t.stage \in {"configs", "globs"} => t.found # Failed

ReaderInv ==
  /\ serial \in Nat
  /\ cookie_index \in Nat
  /\ reader \in [Reader -> {"idle", "cookie", "value", "borrow", "done", "gone"}]
  /\ wanted \in [Reader -> Nat]
  /\ got \in [Reader -> (SUBSET File) \cup {NoData, Failed}]

HistoryInv ==
  /\ unseen \subseteq Workspace
  /\ changed \in [Reader -> SUBSET (Workspace \cup {Root})]

WatcherInv == DiskInv /\ ChannelInv /\ DiscoveryInv /\ ReaderInv /\ HistoryInv

-----------------------------------------------------------------------------
(* Lemmas about the values.                                                *)

\* What the fields of an event are.
LEMMA EventFields ==
  ASSUME NEW e \in Event
  PROVE  /\ e.kind \in {"root", "error", "file", "cookie"}
         /\ e.kind = "file" => e.file \in File /\ e.file[1] \in Workspace
         /\ e.kind = "cookie" => e.serial \in Nat
  BY DEF Event, File

\* The events the model makes are events.
LEMMA EventsAreEvents ==
  /\ RootEvent \in Event
  /\ ErrorEvent \in Event
  /\ \A f \in File : FileEvent(f) \in Event
  /\ \A n \in Nat : CookieEvent(n) \in Event
  BY DEF Event, RootEvent, ErrorEvent, FileEvent, CookieEvent

\* The stages, results and starts of a discovery are tasks.
LEMMA TaskFields ==
  ASSUME NEW t \in Task
  PROVE  /\ t.version \in Nat
         /\ t.stage \in Stage
         /\ t.filter \in (SUBSET Workspace) \cup {NoGlobs}
         /\ t.found \in (SUBSET File) \cup {Failed}
  BY DEF Task

\* A discovery that was queued is a task, and has not read anything.
LEMMA DiscoveryIsTask ==
  ASSUME NEW v \in Nat
  PROVE  Discovery(v) \in Task /\ Discovery(v).version = v /\ Discovery(v).stage = "debounce"
  BY DEF Discovery, Task, Stage

\* No list is one of the marks for having none.
LEMMA ListsAreNoMarks ==
  /\ NoData # Failed
  /\ \A F \in SUBSET File : F # NoData /\ F # Failed
  BY WatcherAssumption DEF File

\* A channel with an event appended, or appended for the oldest, is no longer than it may be.
LEMMA Sent ==
  ASSUME ChannelInv, NEW e \in Event, SendEvent(e)
  PROVE  events' \in Seq(Event) /\ Len(events') <= Capacity /\ lagged' \in BOOLEAN
<1>1. Capacity \in Nat /\ Capacity > 0 /\ Len(events) \in Nat
  BY WatcherAssumption DEF ChannelInv
<1>2. CASE Len(events) = Capacity
  <2>1. events # <<>>
    BY <1>1, <1>2 DEF ChannelInv
  <2>2. Tail(events) \in Seq(Event) /\ Len(Tail(events)) = Len(events) - 1
    BY <2>1 DEF ChannelInv
  <2> QED
    BY <1>1, <1>2, <2>2 DEF SendEvent, ChannelInv
<1>3. CASE Len(events) # Capacity
  BY <1>1, <1>3 DEF SendEvent, ChannelInv
<1> QED
  BY <1>2, <1>3

-----------------------------------------------------------------------------
(* The discoveries.                                                        *)

\* A discovery queued when there is none is the only one.
LEMMA QueueStep ==
  ASSUME version \in Nat, globs \in (SUBSET Workspace) \cup {NoGlobs}, UNCHANGED globs,
         QueueRediscovery({})
  PROVE  DiscoveryInv'
<1>1. version' \in Nat /\ tasks' = {Discovery(version')}
  BY DEF QueueRediscovery
<1>2. pending' = TRUE /\ rerun' = FALSE /\ data' = NoData
  BY DEF QueueRediscovery
<1>3. /\ Discovery(version') \in Task
      /\ Discovery(version').version = version'
      /\ Discovery(version').stage = "debounce"
  BY <1>1, DiscoveryIsTask
<1> QED
  BY <1>1, <1>2, <1>3, Zenon DEF DiscoveryInv

\* An invalidation keeps the discovery that waits, or queues one.
LEMMA BumpStep ==
  ASSUME DiscoveryInv, BumpOrQueue, UNCHANGED globs
  PROVE  DiscoveryInv'
<1>1. CASE pending
  <2>1. UNCHANGED <<pending, version, tasks, data>> /\ rerun' \in BOOLEAN
    BY <1>1, Zenon DEF BumpOrQueue, Bumped, DiscoveryInv
  <2> QED
    BY <2>1, Zenon DEF DiscoveryInv
<1>2. CASE ~pending
  <2>1. QueueRediscovery({})
    BY <1>2, Zenon DEF BumpOrQueue, DiscoveryInv
  <2> QED
    BY <2>1, QueueStep DEF DiscoveryInv
<1> QED
  BY <1>1, <1>2

\* A list that is patched is a list.
LEMMA PatchStep ==
  ASSUME DiskInv, DiscoveryInv, UNCHANGED globs, ~pending, data # Failed,
         NEW w \in Workspace, PatchWorkspace(w)
  PROVE  DiscoveryInv'
<1>1. CASE BumpOrQueue
  BY <1>1, BumpStep
<1>2. CASE /\ data' = (data \ FilesOf(w, data)) \cup Packages({w}, files)
           /\ UNCHANGED <<pending, version, rerun, tasks>>
  <2>1. data \in SUBSET File
    BY Zenon DEF DiscoveryInv
  <2>2. data' \in SUBSET File
    BY <1>2, <2>1 DEF DiskInv, Packages
  <2>3. data' # NoData
    BY <2>2, ListsAreNoMarks
  <2> QED
    BY <1>2, <2>2, <2>3, Zenon DEF DiscoveryInv
<1> QED
  BY <1>1, <1>2, Zenon DEF PatchWorkspace

\* An event keeps the list one, and the discovery the only one.
LEMMA EventStep ==
  ASSUME DiskInv, DiscoveryInv, UNCHANGED globs, NEW e \in Event, HandleWorkspaceChanges(e)
  PROVE  DiscoveryInv'
<1>1. CASE pending
  <2>1. BumpOrQueue
    BY <1>1 DEF HandleWorkspaceChanges
  <2> QED
    BY <2>1, BumpStep
<1>2. CASE ~pending /\ data # Failed /\ e.kind = "file" /\ IsWorkspace(e.file[1])
  <2>1. PatchWorkspace(e.file[1])
    BY <1>2 DEF HandleWorkspaceChanges
  <2>2. e.file[1] \in Workspace
    BY <1>2, EventFields
  <2> QED
    BY <1>2, <2>1, <2>2, PatchStep
<1>3. CASE UNCHANGED <<pending, version, rerun, tasks, data>>
  BY <1>3 DEF DiscoveryInv
<1> QED
  BY <1>1, <1>2, <1>3, Zenon DEF HandleWorkspaceChanges

\* A task that takes its next stage is still the only one.
LEMMA AdvanceStep ==
  ASSUME DiscoveryInv, NEW t \in tasks, NEW u \in Task, Advance(t, u), u.version = t.version,
         u.stage \in {"configs", "globs"} => u.found # Failed
  PROVE  DiscoveryInv'
<1>1. tasks' = {u} /\ tasks # {}
  <2>1. tasks = {t}
    BY Zenon DEF DiscoveryInv
  <2> QED
    BY <2>1 DEF Advance
<1>2. UNCHANGED <<globs, pending, rerun, version, data>>
  BY DEF Advance, watcher
<1>3. u.version = version
  BY DEF DiscoveryInv
<1> QED
  BY <1>1, <1>2, <1>3, Zenon DEF DiscoveryInv

\* A result is a task in the stage "sent".
LEMMA ResultStep ==
  ASSUME DiscoveryInv, NEW t \in tasks, NEW filter \in (SUBSET Workspace) \cup {NoGlobs},
         NEW found \in (SUBSET File) \cup {Failed}, Result(t, filter, found)
  PROVE  DiscoveryInv'
<1> DEFINE u == [t EXCEPT !.stage = "sent", !.filter = filter, !.found = found]
<1>1. t \in Task
  BY DEF DiscoveryInv
<1>2. u \in Task /\ u.version = t.version /\ u.stage = "sent"
  BY <1>1 DEF Task, Stage
<1>3. Advance(t, u)
  BY DEF Result
<1> QED
  BY <1>2, <1>3, AdvanceStep

\* The steps of discover_packages.
LEMMA DiscoverStep ==
  ASSUME DiskInv, DiscoveryInv, NEW t \in tasks, Discover(t)
  PROVE  DiscoveryInv'
<1>1. t \in Task
  BY DEF DiscoveryInv
<1>2. /\ NoGlobs \in (SUBSET Workspace) \cup {NoGlobs}
      /\ Failed \in (SUBSET File) \cup {Failed}
      /\ manifest # Invalid => manifest \in SUBSET Workspace
  BY WatcherAssumption DEF DiskInv
<1>3. CASE Debounced(t)
  <2> DEFINE u == [t EXCEPT !.stage = "walk"]
  <2>1. u \in Task /\ u.version = t.version /\ u.stage = "walk"
    BY <1>1 DEF Task, Stage
  <2>2. Advance(t, u)
    BY <1>3 DEF Debounced
  <2> QED
    BY <2>1, <2>2, AdvanceStep
<1>4. CASE FindPackages(t)
  <2>1. CASE Result(t, NoGlobs, Failed)
    BY <1>2, <2>1, ResultStep
  <2>2. CASE /\ manifest # Invalid
             /\ Advance(t, [t EXCEPT !.stage = "configs",
                  !.found = (manifest \cap Manifested(files)) \X {"package.json"}])
    <3> DEFINE found == (manifest \cap Manifested(files)) \X {"package.json"}
    <3> DEFINE u == [t EXCEPT !.stage = "configs", !.found = found]
    <3>1. found \in SUBSET File
      BY <1>2, <2>2, WatcherAssumption DEF File
    <3>2. u \in Task /\ u.version = t.version /\ u.found = found
      BY <1>1, <3>1 DEF Task, Stage
    <3>3. u.found # Failed
      BY <3>1, <3>2, ListsAreNoMarks
    <3> QED
      BY <2>2, <3>2, <3>3, AdvanceStep
  <2>3. CASE Advance(t, [t EXCEPT !.stage = "globs", !.found = {}])
    <3> DEFINE u == [t EXCEPT !.stage = "globs", !.found = {}]
    <3>1. u \in Task /\ u.version = t.version /\ u.found = {}
      BY <1>1 DEF Task, Stage
    <3>2. u.found # Failed
      BY <3>1, ListsAreNoMarks
    <3> QED
      BY <2>3, <3>1, <3>2, AdvanceStep
  <2> QED
    BY <1>4, <2>1, <2>2, <2>3 DEF FindPackages
<1>5. CASE FindConfigs(t)
  <2> DEFINE names == {f[1] : f \in t.found}
             more  == {f \in files : f[1] \in names /\ f[2] # "package.json"}
             u     == [t EXCEPT !.stage = "globs", !.found = @ \cup more]
  <2>1. CASE Result(t, NoGlobs, Failed)
    BY <1>2, <2>1, ResultStep
  <2>2. CASE Advance(t, u)
    <3>1. t.stage = "configs" /\ t.found # Failed
      BY <1>5 DEF FindConfigs, DiscoveryInv
    <3>2. t.found \in SUBSET File /\ more \in SUBSET File
      BY <1>1, <3>1, TaskFields DEF DiskInv
    <3> HIDE DEF more
    <3>3. u \in Task /\ u.version = t.version /\ u.found = t.found \cup more
      BY <1>1, <3>2 DEF Task, Stage
    <3>4. u.found # Failed
      BY <3>2, <3>3, ListsAreNoMarks
    <3> QED
      BY <2>2, <3>3, <3>4, AdvanceStep
  <2> QED
    BY <1>5, <2>1, <2>2 DEF FindConfigs
<1>6. CASE ReadGlobs(t)
  <2>1. CASE Result(t, NoGlobs, Failed)
    BY <1>2, <2>1, ResultStep
  <2>2. CASE manifest # Invalid /\ Result(t, manifest, t.found)
    <3>1. t.found \in (SUBSET File) \cup {Failed}
      BY <1>1, TaskFields
    <3> QED
      BY <1>2, <2>2, <3>1, ResultStep
  <2> QED
    BY <1>6, <2>1, <2>2 DEF ReadGlobs
<1> QED
  BY <1>3, <1>4, <1>5, <1>6 DEF Discover

\* A result ends the discovery, or starts the one that follows.
LEMMA HandleResultStep ==
  ASSUME DiscoveryInv, NEW t \in tasks, HandleDiscoveryResult(t)
  PROVE  DiscoveryInv'
<1>1. pending /\ t.version = version /\ tasks \ {t} = {}
  BY Zenon DEF DiscoveryInv
<1>2. CASE rerun
  <2>1. QueueRediscovery({}) /\ UNCHANGED globs
    BY <1>1, <1>2 DEF HandleDiscoveryResult
  <2> QED
    BY <2>1, QueueStep DEF DiscoveryInv
<1>3. CASE ~rerun
  <2>1. /\ globs' = t.filter
        /\ data' = t.found
        /\ pending' = FALSE
        /\ tasks' = {}
        /\ UNCHANGED <<version, rerun>>
    BY <1>1, <1>3 DEF HandleDiscoveryResult
  <2>2. /\ t.filter \in (SUBSET Workspace) \cup {NoGlobs}
        /\ t.found \in (SUBSET File) \cup {Failed}
    BY TaskFields DEF DiscoveryInv
  <2>3. data' # NoData
    BY <2>1, <2>2, ListsAreNoMarks
  <2> QED
    BY <2>1, <2>2, <2>3, Zenon DEF DiscoveryInv
<1> QED
  BY <1>2, <1>3

-----------------------------------------------------------------------------
(* The steps of the other parts.                                           *)

\* The file system keeps to its values.
LEMMA DiskStep == DiskInv /\ WatcherNext => DiskInv'
<1> SUFFICES ASSUME DiskInv, WatcherNext
             PROVE  DiskInv'
  OBVIOUS
<1> USE DEF DiskInv
<1>1. CASE \E f \in File : ChangeFile(f)
  BY <1>1, WatcherAssumption DEF ChangeFile, Changing
<1>2. CASE \E m \in Manifest : ChangeManifest(m)
  BY <1>2, WatcherAssumption DEF ChangeManifest, Changing
<1>3. CASE BackendError
  BY <1>3, WatcherAssumption DEF BackendError
<1>4. CASE RouteEvent
  BY <1>4 DEF RouteEvent, disk
<1>5. CASE \E t \in tasks : Discover(t)
  BY <1>5 DEF Discover, Debounced, FindPackages, FindConfigs, ReadGlobs, Result, Advance, disk
<1>6. CASE WatchProcess
  BY <1>6 DEF WatchProcess, HandleFileEvent, HandleLag, HandleDiscoveryResult, disk
<1>7. CASE \E r \in Reader : CookieRequest(r) \/ Read(r) \/ GiveUp(r)
  BY <1>7 DEF CookieRequest, Read, CookieReady, ValueReady, Borrow, GiveUp, ReaderStep, disk
<1> QED
  BY <1>1, <1>2, <1>3, <1>4, <1>5, <1>6, <1>7 DEF WatcherNext

\* Events stay events on their way, and the channel within its capacity.
LEMMA ChannelStep == ChannelInv /\ ReaderInv /\ WatcherNext => ChannelInv'
<1> SUFFICES ASSUME ChannelInv, ReaderInv, WatcherNext
             PROVE  ChannelInv'
  OBVIOUS
<1>1. CASE \E f \in File : ChangeFile(f)
  BY <1>1, EventsAreEvents DEF ChannelInv, ChangeFile, Changing, channel
<1>2. CASE \E m \in Manifest : ChangeManifest(m)
  BY <1>2, EventsAreEvents DEF ChannelInv, ChangeManifest, Changing, channel
<1>3. CASE BackendError
  BY <1>3, EventsAreEvents DEF ChannelInv, BackendError, channel
<1>4. CASE RouteEvent
  <2>1. raw # <<>> /\ raw \in Seq(Event) /\ raw' = Tail(raw)
    BY <1>4 DEF RouteEvent, ChannelInv
  <2>2. Head(raw) \in Event /\ raw' \in Seq(Event)
    BY <2>1
  <2>3. SendEvent(Head(raw)) \/ UNCHANGED channel
    BY <1>4 DEF RouteEvent
  <2>4. CASE SendEvent(Head(raw))
    BY <2>2, <2>4, Sent DEF ChannelInv
  <2>5. CASE UNCHANGED channel
    BY <2>2, <2>5 DEF ChannelInv, channel
  <2> QED
    BY <2>3, <2>4, <2>5
<1>5. CASE \E t \in tasks : Discover(t)
  BY <1>5 DEF ChannelInv, Discover, Debounced, FindPackages, FindConfigs, ReadGlobs, Result,
     Advance, channel
<1>6. CASE WatchProcess
  <2>1. CASE HandleFileEvent
    <3>1. raw' = raw /\ lagged' = lagged /\ events # <<>> /\ events' = Tail(events)
      BY <2>1 DEF HandleFileEvent
    <3>2. Tail(events) \in Seq(Event) /\ Len(Tail(events)) = Len(events) - 1
      BY <3>1 DEF ChannelInv
    <3>3. Capacity \in Nat /\ Len(events) \in Nat
      BY WatcherAssumption DEF ChannelInv
    <3> QED
      BY <3>1, <3>2, <3>3 DEF ChannelInv
  <2>2. CASE HandleLag
    BY <2>2 DEF HandleLag, ChannelInv
  <2>3. CASE \E t \in tasks : HandleDiscoveryResult(t)
    BY <2>3 DEF HandleDiscoveryResult, ChannelInv, channel
  <2> QED
    BY <1>6, <2>1, <2>2, <2>3 DEF WatchProcess
<1>7. CASE \E r \in Reader : CookieRequest(r) \/ Read(r) \/ GiveUp(r)
  <2>1. CASE \E r \in Reader : CookieRequest(r)
    BY <2>1, EventsAreEvents DEF ChannelInv, ReaderInv, CookieRequest, channel
  <2>2. CASE \E r \in Reader : Read(r) \/ GiveUp(r)
    BY <2>2 DEF ChannelInv, Read, CookieReady, ValueReady, Borrow, GiveUp, ReaderStep, channel
  <2> QED
    BY <1>7, <2>1, <2>2
<1> QED
  BY <1>1, <1>2, <1>3, <1>4, <1>5, <1>6, <1>7 DEF WatcherNext

\* The discovery stays the only one.
LEMMA DiscoveryStep == DiskInv /\ ChannelInv /\ DiscoveryInv /\ WatcherNext => DiscoveryInv'
<1> SUFFICES ASSUME DiskInv, ChannelInv, DiscoveryInv, WatcherNext
             PROVE  DiscoveryInv'
  OBVIOUS
<1>1. CASE UNCHANGED <<watcher, tasks>>
  BY <1>1 DEF DiscoveryInv, watcher
<1>2. CASE \E t \in tasks : Discover(t)
  BY <1>2, DiscoverStep
<1>3. CASE HandleFileEvent
  <2>1. Head(events) \in Event /\ UNCHANGED globs
    BY <1>3 DEF HandleFileEvent, ChannelInv
  <2>2. BumpOrQueue \/ HandleWorkspaceChanges(Head(events))
    BY <1>3 DEF HandleFileEvent
  <2> QED
    BY <2>1, <2>2, BumpStep, EventStep
<1>4. CASE HandleLag
  BY <1>4, BumpStep DEF HandleLag
<1>5. CASE \E t \in tasks : HandleDiscoveryResult(t)
  BY <1>5, HandleResultStep
<1>6. CASE (\E f \in File : ChangeFile(f)) \/ (\E m \in Manifest : ChangeManifest(m))
  BY <1>1, <1>6 DEF ChangeFile, ChangeManifest, Changing
<1>7. CASE BackendError \/ RouteEvent
  BY <1>1, <1>7 DEF BackendError, RouteEvent
<1>8. CASE \E r \in Reader : CookieRequest(r) \/ Read(r) \/ GiveUp(r)
  BY <1>1, <1>8 DEF CookieRequest, Read, CookieReady, ValueReady, Borrow, GiveUp, ReaderStep
<1> QED
  BY <1>2, <1>3, <1>4, <1>5, <1>6, <1>7, <1>8 DEF WatcherNext, WatchProcess

\* Readers get lists or errors, or find that there is none.
LEMMA ReaderStepInv == ChannelInv /\ DiscoveryInv /\ ReaderInv /\ WatcherNext => ReaderInv'
<1> SUFFICES ASSUME ChannelInv, DiscoveryInv, ReaderInv, WatcherNext
             PROVE  ReaderInv'
  OBVIOUS
<1>1. CASE UNCHANGED <<cookie_index, serial, readers>>
  BY <1>1 DEF ReaderInv, readers
<1>2. CASE HandleFileEvent
  <2>1. Head(events) \in Event
    BY <1>2 DEF HandleFileEvent, ChannelInv
  <2>2. cookie_index' \in Nat
    BY <1>2, <2>1, EventFields DEF HandleFileEvent, ReaderInv
  <2> QED
    BY <1>2, <2>2 DEF HandleFileEvent, ReaderInv, readers
<1>3. CASE HandleLag \/ \E t \in tasks : HandleDiscoveryResult(t)
  BY <1>1, <1>3 DEF HandleLag, HandleDiscoveryResult
<1>4. CASE \E r \in Reader : CookieRequest(r)
  BY <1>4 DEF CookieRequest, ReaderInv, watcher
<1>5. CASE \E r \in Reader : CookieReady(r) \/ ValueReady(r) \/ GiveUp(r)
  BY <1>5 DEF CookieReady, ValueReady, GiveUp, ReaderStep, ReaderInv, watcher
<1>6. CASE \E r \in Reader : Borrow(r)
  BY <1>6 DEF Borrow, ReaderStep, ReaderInv, DiscoveryInv, watcher
<1>7. CASE (\E f \in File : ChangeFile(f)) \/ (\E m \in Manifest : ChangeManifest(m))
  BY <1>1, <1>7 DEF ChangeFile, ChangeManifest, Changing, watcher
<1>8. CASE BackendError \/ RouteEvent
  BY <1>1, <1>8 DEF BackendError, RouteEvent, watcher
<1>9. CASE \E t \in tasks : Discover(t)
  BY <1>1, <1>9 DEF Discover, Debounced, FindPackages, FindConfigs, ReadGlobs, Result, Advance,
     watcher
<1> QED
  BY <1>2, <1>3, <1>4, <1>5, <1>6, <1>7, <1>8, <1>9 DEF WatcherNext, WatchProcess, Read

\* The history names workspaces.
LEMMA HistoryStep == ChannelInv /\ HistoryInv /\ WatcherNext => HistoryInv'
<1> SUFFICES ASSUME ChannelInv, HistoryInv, WatcherNext
             PROVE  HistoryInv'
  OBVIOUS
<1> USE DEF HistoryInv
<1>1. CASE UNCHANGED <<unseen, changed>>
  BY <1>1
<1>2. ASSUME NEW x \in Workspace \cup {Root}, Changing(x)
      PROVE  HistoryInv'
  BY <1>2 DEF Changing
<1>3. CASE \E f \in File : ChangeFile(f)
  BY <1>2, <1>3 DEF ChangeFile, File
<1>4. CASE \E m \in Manifest : ChangeManifest(m)
  BY <1>2, <1>4 DEF ChangeManifest
<1>5. CASE RouteEvent
  <2>1. Head(raw) \in Event
    BY <1>5 DEF RouteEvent, ChannelInv
  <2>2. CASE ~InScope(Head(raw)) /\ unseen' = unseen \cup {Head(raw).file[1]}
    BY <1>5, <2>1, <2>2, EventFields DEF RouteEvent, InScope
  <2> QED
    BY <1>1, <1>5, <2>2 DEF RouteEvent
<1>6. CASE \E t \in tasks : Discover(t)
  BY <1>6 DEF Discover, Debounced, FindPackages, FindConfigs, ReadGlobs, Result, Advance
<1>7. CASE WatchProcess \/ BackendError
  BY <1>1, <1>7 DEF WatchProcess, HandleFileEvent, HandleLag, HandleDiscoveryResult, BackendError
<1>8. CASE \E r \in Reader : CookieRequest(r) \/ Read(r) \/ GiveUp(r)
  BY <1>8 DEF CookieRequest, Read, CookieReady, ValueReady, Borrow, GiveUp, ReaderStep
<1> QED
  BY <1>3, <1>4, <1>5, <1>6, <1>7, <1>8 DEF WatcherNext

-----------------------------------------------------------------------------
(* What the watcher knows.                                                 *)

(***************************************************************************)
(* A discovery that has read the disk, and a list that was published, are  *)
(* right about the workspaces W as long as nothing about them has changed  *)
(* since, at whatever stage the change came.                               *)
(***************************************************************************)
NamesIn(F) == {f[1] : f \in F}

RightAbout(W, F) == \A w \in W : FilesOf(w, F) = FilesOf(w, Packages(manifest, files))

TaskKnows(t, W) ==
  /\ t.stage = "configs" =>
       /\ manifest # Invalid
       /\ t.found = NamesIn(t.found) \X {"package.json"}
       /\ NamesIn(t.found) \subseteq manifest
       /\ \A w \in W : w \in NamesIn(t.found) <=> w \in manifest \cap Manifested(files)
  /\ t.stage \in {"globs", "sent"} /\ t.found # Failed /\ manifest # Invalid =>
       NamesIn(t.found) \subseteq manifest /\ RightAbout(W, t.found)
  /\ t.stage = "sent" /\ t.found # Failed => manifest # Invalid /\ t.filter = manifest

ListKnows(W) ==
  /\ manifest # Invalid
  /\ globs = manifest
  /\ NamesIn(data) \subseteq manifest
  /\ RightAbout(W, data)

Knows(W) ==
  /\ ~rerun => \A t \in tasks : TaskKnows(t, W)
  /\ Published => ListKnows(W)

\* Nothing was lost, and no change of the root files is on its way.
Calm == ~lagged /\ \A e \in InFlight : e.kind # "root"

\* What the watcher does not know, it will hear of.
FreshInv ==
  Calm => \A W \in SUBSET Workspace :
    W \cap unseen = {} /\ (\A w \in W : ~Awaited(w)) => Knows(W)

\* An event that, if it tells of a change, tells of one in X; and a cookie with a
\* serial from n on.
Later(e, X) ==
  /\ e.kind = "root" => Root \in X
  /\ e.kind = "file" => e.file[1] \in X

Marks(e, n) == e.kind = "cookie" /\ e.serial >= n

\* In the sequence s followed by t, only changes in X come after cookie n.
Ordered(s, t, n, X) ==
  /\ \A i, j \in DOMAIN s : i < j /\ Marks(s[i], n) => Later(s[j], X)
  /\ \A i \in DOMAIN s, j \in DOMAIN t : Marks(s[i], n) => Later(t[j], X)
  /\ \A i, j \in DOMAIN t : i < j /\ Marks(t[i], n) => Later(t[j], X)

\* What comes after the cookie of a reader was changed after its request.
OrderInv ==
  /\ \A e \in InFlight : e.kind = "cookie" => e.serial <= serial
  /\ cookie_index <= serial
  /\ \A r \in Reader : reader[r] # "idle" => Ordered(events, raw, wanted[r], changed[r])

\* The cookie of r was handled.
Answerable(r) ==
  \/ reader[r] \in {"value", "borrow"}
  \/ reader[r] = "cookie" /\ cookie_index >= wanted[r]

\* By then the watcher knows all that was changed before the request.
CookieInv ==
  \A r \in Reader : Answerable(r) /\ Root \notin changed[r] =>
    \A W \in SUBSET Workspace : W \cap (changed[r] \cup unseen) = {} => Knows(W)

\* There is no list while a discovery is awaited.
ListInv == pending => data = NoData

KnowledgeInv == FreshInv /\ OrderInv /\ CookieInv /\ ListInv /\ AnswersAreFresh

\* What is in a sequence of events.
LEMMA AppendedEvents ==
  ASSUME NEW s \in Seq(Event), NEW e
  PROVE  ToSet(Append(s, e)) = ToSet(s) \cup {e}
  BY DEF ToSet

\* The head and the tail of a sequence of events.
LEMMA TakenEvents ==
  ASSUME NEW s \in Seq(Event), s # <<>>
  PROVE  /\ ToSet(s) = ToSet(Tail(s)) \cup {Head(s)}
         /\ Tail(s) \in Seq(Event)
         /\ \A i \in DOMAIN Tail(s) : i + 1 \in DOMAIN s /\ Tail(s)[i] = s[i + 1]
         /\ 1 \in DOMAIN s /\ Head(s) = s[1]
<1>1. /\ Len(s) \in Nat /\ Len(s) > 0 /\ DOMAIN s = 1 .. Len(s)
      /\ Tail(s) \in Seq(Event) /\ Len(Tail(s)) = Len(s) - 1 /\ Head(s) = s[1]
  OBVIOUS
<1>2. DOMAIN Tail(s) = 1 .. Len(s) - 1 /\ \A i \in 1 .. Len(s) - 1 : Tail(s)[i] = s[i + 1]
  BY <1>1
<1>3. \A i \in DOMAIN s : i = 1 \/ (i - 1 \in DOMAIN Tail(s) /\ Tail(s)[i - 1] = s[i])
  <2> TAKE i \in DOMAIN s
  <2>1. CASE i # 1
    <3>1. i - 1 \in 1 .. Len(s) - 1 /\ (i - 1) + 1 = i
      BY <1>1, <2>1
    <3>2. Tail(s)[i - 1] = s[(i - 1) + 1]
      BY <1>2, <3>1, Zenon
    <3>3. i - 1 \in DOMAIN Tail(s)
      BY <1>2, <3>1
    <3>4. Tail(s)[i - 1] = s[i]
      BY <3>1, <3>2
    <3> QED
      BY <3>3, <3>4
  <2> QED
    BY <2>1
<1>4. \A i \in DOMAIN Tail(s) : i + 1 \in DOMAIN s /\ Tail(s)[i] = s[i + 1]
  BY <1>1, <1>2
<1>5. ToSet(s) \subseteq ToSet(Tail(s)) \cup {Head(s)}
  <2>1. \A i \in DOMAIN s : s[i] \in ToSet(Tail(s)) \cup {Head(s)}
    <3> TAKE i \in DOMAIN s
    <3>1. CASE i = 1
      BY <1>1, <3>1
    <3>2. CASE i - 1 \in DOMAIN Tail(s) /\ Tail(s)[i - 1] = s[i]
      BY <3>2 DEF ToSet
    <3> QED
      BY <1>3, <3>1, <3>2
  <2> QED
    BY <2>1 DEF ToSet
<1>6. ToSet(Tail(s)) \subseteq ToSet(s) /\ Head(s) \in ToSet(s)
  BY <1>1, <1>4 DEF ToSet
<1> QED
  BY <1>1, <1>4, <1>5, <1>6

\* Files are pairs.
LEMMA FilePairs ==
  \A f \in File : f = <<f[1], f[2]>> /\ f[1] \in Workspace /\ f[2] \in FileName
  BY DEF File

\* The watcher knows what it knew unless the files or its own state change.
LEMMA KnowsFrame ==
  ASSUME NEW W, Knows(W), UNCHANGED <<manifest, files, globs, pending, rerun, tasks, data>>
  PROVE  Knows(W)'
  BY DEF Knows, TaskKnows, ListKnows, RightAbout, Published

\* A discovery that is queued, bumped or to be repeated has read nothing that counts.
LEMMA BumpKnows ==
  ASSUME DiscoveryInv, NEW W, BumpOrQueue
  PROVE  Knows(W)'
<1>1. CASE pending /\ ~Bumped
  BY <1>1 DEF BumpOrQueue, Knows, Published
<1>2. CASE pending /\ Bumped
  <2>1. \A t \in tasks : t.stage = "debounce"
    BY <1>2 DEF Bumped, DiscoveryInv
  <2> QED
    BY <1>2, <2>1 DEF BumpOrQueue, Knows, Published, TaskKnows
<1>3. CASE ~pending
  <2>1. tasks = {}
    BY <1>3 DEF DiscoveryInv
  <2>2. tasks' = {Discovery(version')} /\ pending'
    BY <1>3, <2>1 DEF BumpOrQueue, QueueRediscovery
  <2>3. Discovery(version').stage = "debounce"
    BY DEF Discovery
  <2> QED
    BY <2>2, <2>3 DEF Knows, Published, TaskKnows
<1> QED
  BY <1>1, <1>2, <1>3

\* A step of a discovery keeps what it knows, and reads all there is to find.
LEMMA DiscoverKnows ==
  ASSUME DiskInv, DiscoveryInv, NEW t \in tasks, Discover(t), NEW W \in SUBSET Workspace,
         Knows(W) \/ FindPackages(t)
  PROVE  Knows(W)'
<1>1. /\ tasks = {t} /\ pending /\ t \in Task
      /\ t.found \in (SUBSET File) \cup {Failed}
  BY TaskFields DEF DiscoveryInv
<1>2. ASSUME NEW u, Advance(t, u), ~rerun => TaskKnows(u, W)
      PROVE  Knows(W)'
  <2>1. tasks' = {u}
    BY <1>1, <1>2 DEF Advance
  <2>2. UNCHANGED <<manifest, files, globs, pending, rerun, data>>
    BY <1>2 DEF Advance, disk, watcher
  <2>3. TaskKnows(u, W)' <=> TaskKnows(u, W)
    BY <2>2 DEF TaskKnows, RightAbout
  <2> QED
    BY <1>1, <1>2, <2>1, <2>2, <2>3 DEF Knows, Published
<1>3. ASSUME Result(t, NoGlobs, Failed)
      PROVE  Knows(W)'
  <2> DEFINE u == [t EXCEPT !.stage = "sent", !.filter = NoGlobs, !.found = Failed]
  <2>1. u.stage = "sent" /\ u.found = Failed
    BY <1>1 DEF Task
  <2>2. TaskKnows(u, W)
    BY <2>1 DEF TaskKnows
  <2>3. Advance(t, u)
    BY <1>3 DEF Result
  <2> QED
    BY <1>2, <2>2, <2>3
<1>4. CASE Debounced(t)
  <2> DEFINE u == [t EXCEPT !.stage = "walk"]
  <2>1. u.stage = "walk"
    BY <1>1 DEF Task
  <2>2. TaskKnows(u, W)
    BY <2>1 DEF TaskKnows
  <2> QED
    BY <1>2, <1>4, <2>2 DEF Debounced
<1>5. CASE FindPackages(t)
  <2>1. CASE manifest = Invalid /\ Advance(t, [t EXCEPT !.stage = "globs", !.found = {}])
    <3> DEFINE u == [t EXCEPT !.stage = "globs", !.found = {}]
    <3>1. u.stage = "globs"
      BY <1>1 DEF Task
    <3>2. TaskKnows(u, W)
      BY <2>1, <3>1 DEF TaskKnows
    <3> QED
      BY <1>2, <2>1, <3>2
  <2>2. CASE /\ manifest # Invalid
             /\ Advance(t, [t EXCEPT !.stage = "configs",
                  !.found = (manifest \cap Manifested(files)) \X {"package.json"}])
    <3> DEFINE names == manifest \cap Manifested(files)
               found == names \X {"package.json"}
               u     == [t EXCEPT !.stage = "configs", !.found = found]
    <3>1. u.stage = "configs" /\ u.found = found
      BY <1>1 DEF Task
    <3>2. NamesIn(found) = names
      <4>1. \A w \in names : <<w, "package.json">> \in found /\ <<w, "package.json">>[1] = w
        OBVIOUS
      <4>2. \A w \in names : w \in {f[1] : f \in found}
        BY <4>1
      <4> QED
        BY <4>2 DEF NamesIn
    <3> HIDE DEF names
    <3>3. names = manifest \cap Manifested(files)
      BY DEF names
    <3>4. TaskKnows(u, W)
      BY <2>2, <3>1, <3>2, <3>3 DEF TaskKnows
    <3>5. Advance(t, u)
      BY <2>2, <3>3
    <3> QED
      BY <1>2, <3>4, <3>5
  <2> QED
    BY <1>3, <1>5, <2>1, <2>2 DEF FindPackages
<1>6. ASSUME Knows(W), ~rerun
      PROVE  TaskKnows(t, W)
  BY <1>1, <1>6 DEF Knows
<1>7. CASE FindConfigs(t)
  <2> DEFINE names == NamesIn(t.found)
             more  == {f \in files : f[1] \in names /\ f[2] # "package.json"}
             all   == t.found \cup more
             u     == [t EXCEPT !.stage = "globs", !.found = @ \cup more]
  <2>1. Knows(W) /\ t.stage = "configs" /\ t.found \in SUBSET File
    BY <1>1, <1>7 DEF FindConfigs, FindPackages, DiscoveryInv
  <2>2. CASE Result(t, NoGlobs, Failed)
    BY <1>3, <2>2
  <2>3. CASE Advance(t, u)
    <3>1. u.stage = "globs" /\ u.found = all
      BY <1>1 DEF Task
    <3>2. ASSUME ~rerun, manifest # Invalid
          PROVE  NamesIn(all) \subseteq manifest /\ RightAbout(W, all)
      <4>1. /\ t.found = names \X {"package.json"} /\ names \subseteq manifest
            /\ \A w \in W : w \in names <=> w \in manifest \cap Manifested(files)
        BY <1>6, <2>1, <3>2 DEF TaskKnows
      <4> HIDE DEF names
      <4>2. NamesIn(all) \subseteq manifest
        BY <4>1 DEF NamesIn
      <4>3. ASSUME NEW w \in W
            PROVE  FilesOf(w, all) = FilesOf(w, Packages(manifest, files))
        <5>1. CASE w \in names
          <6>1. w \in manifest \cap Manifested(files)
            BY <4>1, <5>1
          <6>2. \A f \in files : f = <<f[1], f[2]>>
            BY FilePairs DEF DiskInv
          <6>3. \A f : f \in FilesOf(w, Packages(manifest, files)) <=> f \in files /\ f[1] = w
            BY <6>1 DEF FilesOf, Packages
          <6>4. \A f \in t.found : f[1] = w => f = <<w, "package.json">>
            BY <4>1
          <6>5. <<w, "package.json">> \in files /\ <<w, "package.json">> \in t.found
            BY <4>1, <5>1, <6>1 DEF Manifested
          <6>6. \A f \in files : f[1] = w /\ f[2] = "package.json" => f = <<w, "package.json">>
            BY <6>2
          <6>7. \A f : f \in FilesOf(w, all) <=> f \in files /\ f[1] = w
            BY <5>1, <6>4, <6>5, <6>6 DEF FilesOf
          <6> QED
            BY <6>3, <6>7
        <5>2. CASE w \notin names
          <6>1. w \notin manifest \cap Manifested(files)
            BY <4>1, <5>2
          <6>2. FilesOf(w, all) = {}
            BY <4>1, <5>2 DEF FilesOf
          <6>3. FilesOf(w, Packages(manifest, files)) = {}
            BY <6>1 DEF FilesOf, Packages
          <6> QED
            BY <6>2, <6>3
        <5> QED
          BY <5>1, <5>2
      <4> QED
        BY <4>2, <4>3 DEF RightAbout
    <3>3. ~rerun => TaskKnows(u, W)
      BY <3>1, <3>2 DEF TaskKnows
    <3> QED
      BY <1>2, <2>3, <3>3
  <2> QED
    BY <1>7, <2>2, <2>3 DEF FindConfigs, NamesIn
<1>8. CASE ReadGlobs(t)
  <2>1. Knows(W) /\ t.stage = "globs"
    BY <1>8 DEF ReadGlobs, FindPackages
  <2>2. CASE Result(t, NoGlobs, Failed)
    BY <1>3, <2>2
  <2>3. CASE manifest # Invalid /\ Result(t, manifest, t.found)
    <3> DEFINE u == [t EXCEPT !.stage = "sent", !.filter = manifest, !.found = t.found]
    <3>1. u.stage = "sent" /\ u.filter = manifest /\ u.found = t.found
      BY <1>1 DEF Task
    <3>2. ~rerun => TaskKnows(u, W)
      BY <1>6, <2>1, <2>3, <3>1 DEF TaskKnows
    <3>3. Advance(t, u)
      BY <2>3 DEF Result
    <3> QED
      BY <1>2, <3>2, <3>3
  <2> QED
    BY <1>8, <2>2, <2>3 DEF ReadGlobs
<1> QED
  BY <1>4, <1>5, <1>7, <1>8 DEF Discover

\* Publishing a result publishes what was known.
LEMMA ResultKnows ==
  ASSUME DiscoveryInv, NEW t \in tasks, HandleDiscoveryResult(t),
         NEW W \in SUBSET Workspace, Knows(W)
  PROVE  Knows(W)'
<1>1. pending /\ t.version = version /\ tasks = {t} /\ t.stage = "sent"
  BY DEF DiscoveryInv, HandleDiscoveryResult
<1>2. UNCHANGED <<manifest, files>>
  BY DEF HandleDiscoveryResult, disk
<1>3. CASE rerun
  <2>1. tasks' = {Discovery(version')} /\ pending'
    BY <1>1, <1>3 DEF HandleDiscoveryResult, QueueRediscovery
  <2>2. Discovery(version').stage = "debounce"
    BY DEF Discovery
  <2> QED
    BY <2>1, <2>2 DEF Knows, Published, TaskKnows
<1>4. CASE ~rerun
  <2>1. tasks' = {} /\ globs' = t.filter /\ data' = t.found
    BY <1>1, <1>4 DEF HandleDiscoveryResult
  <2>2. TaskKnows(t, W)
    BY <1>4 DEF Knows
  <2>3. data' # Failed => ListKnows(W)'
    BY <1>1, <1>2, <2>1, <2>2 DEF TaskKnows, ListKnows, RightAbout
  <2> QED
    BY <2>1, <2>3 DEF Knows, Published
<1> QED
  BY <1>3, <1>4

\* An event that is handled makes the watcher start over, or brings its list up to
\* date for the workspace of the event.
LEMMA EventKnows ==
  ASSUME DiskInv, DiscoveryInv, NEW e \in Event, UNCHANGED <<manifest, files, globs>>,
         \/ e.kind \in {"root", "error"} /\ BumpOrQueue
         \/ e.kind \in {"file", "cookie"} /\ HandleWorkspaceChanges(e),
         NEW W \in SUBSET Workspace, NEW V \in SUBSET Workspace,
         \A w \in W : w \in V \/ (e.kind = "file" /\ e.file[1] = w),
         e.kind = "root" \/ Knows(V)
  PROVE  Knows(W)'
<1>1. CASE BumpOrQueue
  BY <1>1, BumpKnows
<1>2. CASE /\ ~pending /\ e.kind \in {"file", "cookie"}
           /\ ~(data # Failed /\ e.kind = "file" /\ IsWorkspace(e.file[1]))
           /\ UNCHANGED <<pending, version, rerun, tasks, data>>
  <2>1. tasks = {} /\ Knows(V)
    BY <1>2 DEF DiscoveryInv
  <2>2. ASSUME data # Failed
        PROVE  ListKnows(W)
    <3>1. ListKnows(V)
      BY <1>2, <2>1, <2>2 DEF Knows, Published
    <3>2. ASSUME e.kind = "file", NEW w, w = e.file[1]
          PROVE  FilesOf(w, data) = FilesOf(w, Packages(manifest, files))
      <4>1. w \notin globs
        BY <1>2, <2>2, <3>2 DEF IsWorkspace
      <4>2. FilesOf(w, data) = {}
        BY <3>1, <4>1 DEF ListKnows, FilesOf, NamesIn
      <4>3. FilesOf(w, Packages(manifest, files)) = {}
        BY <3>1, <4>1 DEF ListKnows, FilesOf, Packages
      <4> QED
        BY <4>2, <4>3
    <3> QED
      BY <3>1, <3>2 DEF ListKnows, RightAbout
  <2> QED
    BY <1>2, <2>1, <2>2 DEF Knows, Published, ListKnows, RightAbout
<1>3. CASE /\ ~pending /\ data # Failed /\ e.kind = "file" /\ IsWorkspace(e.file[1])
           /\ data' = (data \ FilesOf(e.file[1], data)) \cup Packages({e.file[1]}, files)
           /\ UNCHANGED <<pending, version, rerun, tasks>>
  <2> DEFINE w == e.file[1]
  <2>1. tasks = {} /\ Knows(V) /\ data \in SUBSET File /\ w \in Workspace
    BY <1>3, EventFields DEF DiscoveryInv
  <2> HIDE DEF w
  <2>2. data' = (data \ FilesOf(w, data)) \cup Packages({w}, files)
    BY <1>3 DEF w
  <2>3. ListKnows(V)
    BY <1>3, <2>1 DEF Knows, Published
  <2>4. w \in manifest
    <3>1. CASE w \in globs
      BY <2>3, <3>1 DEF ListKnows
    <3>2. CASE w \in Manifested(data)
      <4>1. <<w, "package.json">> \in data /\ <<w, "package.json">>[1] = w
        BY <3>2 DEF Manifested
      <4>2. w \in NamesIn(data)
        BY <4>1 DEF NamesIn
      <4> QED
        BY <2>3, <4>2 DEF ListKnows
    <3> QED
      BY <1>3, <3>1, <3>2 DEF IsWorkspace, w
  <2>5. NamesIn(data') \subseteq manifest
    BY <2>2, <2>3, <2>4 DEF NamesIn, ListKnows, Packages
  <2>6. FilesOf(w, data') = FilesOf(w, Packages(manifest, files))
    BY <2>2, <2>4 DEF FilesOf, Packages
  <2>7. \A v : v # w => FilesOf(v, data') = FilesOf(v, data)
    BY <2>2 DEF FilesOf, Packages
  <2>8. \A v \in W : v = w \/ v \in V
    BY DEF w
  <2>9. \A v \in W : FilesOf(v, data') = FilesOf(v, Packages(manifest, files))
    BY <2>3, <2>6, <2>7, <2>8 DEF ListKnows, RightAbout
  <2>10. ListKnows(W)'
    BY <2>3, <2>5, <2>9 DEF ListKnows, RightAbout
  <2> QED
    BY <1>3, <2>1, <2>10 DEF Knows
<1> QED
  BY <1>1, <1>2, <1>3, Zenon DEF HandleWorkspaceChanges, PatchWorkspace

\* A change of a file changes nothing of the packages of other workspaces.
LEMMA FilesElsewhere ==
  ASSUME NEW f \in File, ChangeFile(f)
  PROVE  /\ \A w \in Workspace : w # f[1] =>
              (w \in Manifested(files') <=> w \in Manifested(files))
         /\ \A w \in Workspace : w # f[1] =>
              FilesOf(w, Packages(manifest, files')) = FilesOf(w, Packages(manifest, files))
<1>1. files' = files \ {f} \/ files' = files \cup {f}
  BY DEF ChangeFile
<1>2. \A w \in Workspace : w # f[1] => (w \in Manifested(files') <=> w \in Manifested(files))
  BY <1>1, FilePairs DEF Manifested
<1>3. \A w \in Workspace : w # f[1] =>
        FilesOf(w, Packages(manifest, files')) = FilesOf(w, Packages(manifest, files))
  BY <1>1, <1>2 DEF FilesOf, Packages
<1> QED
  BY <1>2, <1>3

\* A change of a file leaves what is known of other workspaces.
LEMMA ChangeKnows ==
  ASSUME NEW f \in File, ChangeFile(f), NEW W \in SUBSET Workspace, Knows(W), f[1] \notin W
  PROVE  Knows(W)'
<1>1. UNCHANGED <<manifest, globs, pending, rerun, tasks, data>>
  BY DEF ChangeFile, Changing, watcher
<1>3. \A w \in W : w \in Manifested(files') <=> w \in Manifested(files)
  BY FilesElsewhere
<1>4. \A w \in W : FilesOf(w, Packages(manifest, files')) = FilesOf(w, Packages(manifest, files))
  BY FilesElsewhere
<1>5. \A F : RightAbout(W, F)' <=> RightAbout(W, F)
  BY <1>1, <1>4 DEF RightAbout
<1>6. \A t : TaskKnows(t, W) => TaskKnows(t, W)'
  BY <1>1, <1>3, <1>5 DEF TaskKnows
<1>7. ListKnows(W) => ListKnows(W)'
  BY <1>1, <1>4 DEF ListKnows, RightAbout
<1> QED
  BY <1>1, <1>6, <1>7 DEF Knows, Published

-----------------------------------------------------------------------------
(* The order of the events.                                                *)

\* The order survives when events are appended, handed on, dropped and taken.
LEMMA OrderedAppend ==
  ASSUME NEW s \in Seq(Event), NEW t \in Seq(Event), NEW e, NEW n, NEW X, NEW Y,
         X \subseteq Y, Ordered(s, t, n, X), Later(e, Y)
  PROVE  Ordered(s, Append(t, e), n, Y)
<1> DEFINE u == Append(t, e)
<1>1. /\ Len(t) \in Nat /\ DOMAIN t = 1 .. Len(t) /\ DOMAIN u = 1 .. Len(t) + 1
      /\ u[Len(t) + 1] = e /\ \A i \in 1 .. Len(t) : u[i] = t[i]
  OBVIOUS
<1> HIDE DEF u
<1>2. \A d : Later(d, X) => Later(d, Y)
  BY DEF Later
<1>3. \A j \in DOMAIN u : (j \in DOMAIN t /\ u[j] = t[j]) \/ (j = Len(t) + 1 /\ u[j] = e)
  <2> TAKE j \in DOMAIN u
  <2>1. j \in 1 .. Len(t) \/ j = Len(t) + 1
    BY <1>1
  <2> QED
    BY <1>1, <2>1
<1>4. \A i \in DOMAIN s, j \in DOMAIN u : Marks(s[i], n) => Later(u[j], Y)
  BY <1>2, <1>3 DEF Ordered
<1>5. \A i, j \in DOMAIN u : i < j => i \in DOMAIN t
  BY <1>1
<1>6. \A i, j \in DOMAIN u : i < j /\ Marks(u[i], n) => Later(u[j], Y)
  BY <1>1, <1>2, <1>3, <1>5 DEF Ordered
<1> QED
  BY <1>2, <1>4, <1>6 DEF Ordered, u

\* What follows a cookie, once it is at the head, is later than X.
LEMMA OrderedTake ==
  ASSUME NEW s \in Seq(Event), NEW t \in Seq(Event), NEW n, NEW X,
         s # <<>>, Ordered(s, t, n, X)
  PROVE  /\ Ordered(Tail(s), t, n, X)
         /\ Marks(Head(s), n) => \A e \in ToSet(Tail(s)) \cup ToSet(t) : Later(e, X)
<1>1. /\ \A i \in DOMAIN Tail(s) : i + 1 \in DOMAIN s /\ Tail(s)[i] = s[i + 1]
      /\ 1 \in DOMAIN s /\ Head(s) = s[1] /\ DOMAIN Tail(s) \subseteq Nat \ {0}
  BY TakenEvents
<1>2. \A i, j \in DOMAIN Tail(s) : i < j => i + 1 < j + 1
  BY <1>1
<1>3. Ordered(Tail(s), t, n, X)
  BY <1>1, <1>2 DEF Ordered
<1>4. \A i \in DOMAIN Tail(s) : 1 < i + 1
  BY <1>1
<1>5. ASSUME Marks(Head(s), n), NEW e \in ToSet(Tail(s)) \cup ToSet(t)
      PROVE  Later(e, X)
  BY <1>1, <1>4, <1>5 DEF Ordered, ToSet
<1> QED
  BY <1>3, <1>5

\* The order is kept when an event is filtered out on its way.
LEMMA OrderedSkip ==
  ASSUME NEW s \in Seq(Event), NEW t \in Seq(Event), NEW n, NEW X,
         t # <<>>, Ordered(s, t, n, X)
  PROVE  Ordered(s, Tail(t), n, X)
<1>1. /\ \A i \in DOMAIN Tail(t) : i + 1 \in DOMAIN t /\ Tail(t)[i] = t[i + 1]
      /\ DOMAIN Tail(t) \subseteq Nat \ {0}
  BY TakenEvents
<1>2. \A i, j \in DOMAIN Tail(t) : i < j => i + 1 < j + 1
  BY <1>1
<1> QED
  BY <1>1, <1>2 DEF Ordered

\* ... when an event moves on to the next channel,
LEMMA OrderedMove ==
  ASSUME NEW s \in Seq(Event), NEW t \in Seq(Event), NEW n, NEW X,
         t # <<>>, Ordered(s, t, n, X)
  PROVE  Ordered(Append(s, Head(t)), Tail(t), n, X)
<1> DEFINE u == Append(s, Head(t))
<1>1. /\ Len(s) \in Nat /\ DOMAIN s = 1 .. Len(s) /\ DOMAIN u = 1 .. Len(s) + 1
      /\ u[Len(s) + 1] = Head(t) /\ \A i \in 1 .. Len(s) : u[i] = s[i]
  OBVIOUS
<1> HIDE DEF u
<1>2. /\ \A i \in DOMAIN Tail(t) : i + 1 \in DOMAIN t /\ Tail(t)[i] = t[i + 1]
      /\ 1 \in DOMAIN t /\ Head(t) = t[1] /\ DOMAIN Tail(t) \subseteq Nat \ {0}
  BY TakenEvents
<1>3. \A j \in DOMAIN u : (j \in DOMAIN s /\ u[j] = s[j]) \/ (j = Len(s) + 1 /\ u[j] = t[1])
  <2> TAKE j \in DOMAIN u
  <2>1. j \in 1 .. Len(s) \/ j = Len(s) + 1
    BY <1>1
  <2> QED
    BY <1>1, <1>2, <2>1
<1>4. \A i, j \in DOMAIN u : i < j => i \in DOMAIN s
  BY <1>1
<1>5. \A i, j \in DOMAIN u : i < j /\ Marks(u[i], n) => Later(u[j], X)
  BY <1>1, <1>2, <1>3, <1>4 DEF Ordered
<1>6. \A i \in DOMAIN Tail(t) : 1 < i + 1
  BY <1>2
<1>7. \A i \in DOMAIN u, j \in DOMAIN Tail(t) : Marks(u[i], n) => Later(Tail(t)[j], X)
  BY <1>2, <1>3, <1>6 DEF Ordered
<1>8. \A i, j \in DOMAIN Tail(t) : i < j => i + 1 < j + 1
  BY <1>2
<1>9. \A i, j \in DOMAIN Tail(t) : i < j /\ Marks(Tail(t)[i], n) => Later(Tail(t)[j], X)
  BY <1>2, <1>8 DEF Ordered
<1> QED
  BY <1>5, <1>7, <1>9 DEF Ordered, u

\* Nothing comes after a cookie that is written last.
LEMMA OrderedLast ==
  ASSUME NEW s \in Seq(Event), NEW t \in Seq(Event), NEW e, NEW n, NEW X,
         \A d \in ToSet(s) \cup ToSet(t) : ~Marks(d, n)
  PROVE  Ordered(s, Append(t, e), n, X)
<1> DEFINE u == Append(t, e)
<1>1. /\ Len(t) \in Nat /\ DOMAIN t = 1 .. Len(t) /\ DOMAIN u = 1 .. Len(t) + 1
      /\ \A i \in 1 .. Len(t) : u[i] = t[i]
  OBVIOUS
<1> HIDE DEF u
<1>2. \A i, j \in DOMAIN u : i < j => i \in DOMAIN t /\ u[i] = t[i]
  BY <1>1
<1>3. /\ \A i \in DOMAIN s : ~Marks(s[i], n)
      /\ \A i \in DOMAIN t : ~Marks(t[i], n)
  BY DEF ToSet
<1> QED
  BY <1>2, <1>3 DEF Ordered, u

-----------------------------------------------------------------------------
(* Every step keeps the knowledge.                                         *)

\* ... and when more is counted as changed after the cookie.
LEMMA OrderedGrows ==
  ASSUME NEW s, NEW t, NEW n, NEW X, NEW Y, X \subseteq Y, Ordered(s, t, n, X)
  PROVE  Ordered(s, t, n, Y)
<1>1. \A d : Later(d, X) => Later(d, Y)
  BY DEF Later
<1> QED
  BY <1>1 DEF Ordered

\* The parts of the knowledge that a step leaves alone.
LEMMA OrderFrame ==
  ASSUME OrderInv, UNCHANGED <<raw, events, serial, cookie_index, wanted>>,
         \A r \in Reader : reader'[r] # "idle" => reader[r] # "idle",
         \A r \in Reader : changed[r] \subseteq changed'[r]
  PROVE  OrderInv'
<1>1. \A r \in Reader : reader'[r] # "idle" => Ordered(events, raw, wanted[r], changed'[r])
  BY OrderedGrows DEF OrderInv
<1> QED
  BY <1>1 DEF OrderInv, InFlight

\* What was answered, when neither the disk nor the readers change.
LEMMA AnswersFrame ==
  ASSUME AnswersAreFresh, UNCHANGED <<manifest, files, reader, got, changed>>
  PROVE  AnswersAreFresh'
  BY DEF AnswersAreFresh, Current

\* An event appended: the events on their way, and their order.
LEMMA AppendOrder ==
  ASSUME ChannelInv, OrderInv, NEW e \in Event, raw' = Append(raw, e), UNCHANGED events
  PROVE  /\ InFlight' = InFlight \cup {e}
         /\ \A r \in Reader : reader[r] # "idle" => \A Y :
              changed[r] \subseteq Y /\ Later(e, Y) => Ordered(events', raw', wanted[r], Y)
<1>1. raw \in Seq(Event) /\ events \in Seq(Event)
  BY DEF ChannelInv
<1>2. InFlight' = InFlight \cup {e}
  BY <1>1, AppendedEvents DEF InFlight
<1>3. ASSUME NEW r \in Reader, reader[r] # "idle", NEW Y, changed[r] \subseteq Y, Later(e, Y)
      PROVE  Ordered(events', raw', wanted[r], Y)
  <2>1. Ordered(events, raw, wanted[r], changed[r])
    BY <1>3 DEF OrderInv
  <2>2. Ordered(events, Append(raw, e), wanted[r], Y)
    BY <1>1, <1>3, <2>1, OrderedAppend
  <2> QED
    BY <2>2
<1> QED
  BY <1>2, <1>3

\* A file changes: its event is on its way before any later cookie.
LEMMA FileChangeStep ==
  ASSUME WatcherInv, KnowledgeInv, NEW f \in File, ChangeFile(f)
  PROVE  KnowledgeInv'
<1> USE DEF KnowledgeInv, WatcherInv
<1> DEFINE e == FileEvent(f)
<1>1. /\ UNCHANGED <<manifest, events, lagged, unseen, serial, cookie_index>>
      /\ UNCHANGED <<reader, wanted, got, pending, data>>
      /\ raw' = Append(raw, e)
      /\ changed' = [r \in Reader |-> IF reader[r] = "idle" THEN {} ELSE changed[r] \cup {f[1]}]
  BY DEF ChangeFile, Changing, channel, watcher, readers
<1>2. e \in Event /\ e.kind = "file" /\ e.file = f
  BY EventsAreEvents DEF FileEvent
<1> HIDE DEF e
<1>3. /\ InFlight' = InFlight \cup {e}
      /\ \A r \in Reader : reader[r] # "idle" => \A Y :
           changed[r] \subseteq Y /\ Later(e, Y) => Ordered(events', raw', wanted[r], Y)
  BY <1>1, <1>2, AppendOrder
<1>4. \A W \in SUBSET Workspace : Knows(W) /\ f[1] \notin W => Knows(W)'
  BY ChangeKnows
<1>5. FreshInv'
  BY <1>1, <1>2, <1>3, <1>4 DEF FreshInv, Calm, Awaited
<1>6. OrderInv'
  <2>1. \A r \in Reader : reader'[r] # "idle" => Ordered(events', raw', wanted'[r], changed'[r])
    BY <1>1, <1>2, <1>3 DEF Later
  <2> QED
    BY <1>1, <1>2, <1>3, <2>1 DEF OrderInv
<1>7. CookieInv'
  <2>1. \A r \in Reader : Answerable(r)' => Answerable(r) /\ changed'[r] = changed[r] \cup {f[1]}
    BY <1>1 DEF Answerable
  <2> QED
    BY <1>1, <1>4, <2>1 DEF CookieInv
<1>8. ListInv'
  BY <1>1 DEF ListInv
<1>9. AnswersAreFresh'
  <2>1. \A w \in Workspace : w # f[1] =>
          FilesOf(w, Packages(manifest, files')) = FilesOf(w, Packages(manifest, files))
    BY FilesElsewhere
  <2>2. \A r \in Reader : reader[r] = "done" => changed'[r] = changed[r] \cup {f[1]}
    BY <1>1
  <2> QED
    BY <1>1, <2>1, <2>2 DEF AnswersAreFresh, Current
<1> QED
  BY <1>5, <1>6, <1>7, <1>8, <1>9

\* The root files change: their event is on its way.
LEMMA ManifestChangeStep ==
  ASSUME WatcherInv, KnowledgeInv, NEW m \in Manifest, ChangeManifest(m)
  PROVE  KnowledgeInv'
<1> USE DEF KnowledgeInv, WatcherInv
<1>1. /\ UNCHANGED <<files, events, lagged, unseen, serial, cookie_index>>
      /\ UNCHANGED <<reader, wanted, got, pending, data>>
      /\ raw' = Append(raw, RootEvent)
      /\ changed' = [r \in Reader |-> IF reader[r] = "idle" THEN {} ELSE changed[r] \cup {Root}]
  BY DEF ChangeManifest, Changing, channel, watcher, readers
<1>2. RootEvent \in Event /\ RootEvent.kind = "root"
  BY EventsAreEvents DEF RootEvent
<1>3. /\ InFlight' = InFlight \cup {RootEvent}
      /\ \A r \in Reader : reader[r] # "idle" => \A Y :
           changed[r] \subseteq Y /\ Later(RootEvent, Y) => Ordered(events', raw', wanted[r], Y)
  BY <1>1, <1>2, AppendOrder
<1>4. FreshInv'
  BY <1>2, <1>3 DEF FreshInv, Calm
<1>5. OrderInv'
  <2>1. \A r \in Reader : reader'[r] # "idle" => Ordered(events', raw', wanted'[r], changed'[r])
    BY <1>1, <1>2, <1>3 DEF Later
  <2> QED
    BY <1>1, <1>2, <1>3, <2>1 DEF OrderInv
<1>6. CookieInv'
  BY <1>1 DEF CookieInv, Answerable
<1>7. ListInv'
  BY <1>1 DEF ListInv
<1>8. AnswersAreFresh'
  BY <1>1 DEF AnswersAreFresh
<1> QED
  BY <1>4, <1>5, <1>6, <1>7, <1>8

\* The backend reports an error.
LEMMA ErrorStep ==
  ASSUME WatcherInv, KnowledgeInv, BackendError
  PROVE  KnowledgeInv'
<1> USE DEF KnowledgeInv, WatcherInv
<1>1. /\ UNCHANGED <<manifest, files, events, lagged, unseen, serial, cookie_index, changed>>
      /\ UNCHANGED <<reader, wanted, got, globs, pending, rerun, tasks, data>>
      /\ raw' = Append(raw, ErrorEvent)
  BY DEF BackendError, channel, watcher, readers
<1>2. ErrorEvent \in Event /\ ErrorEvent.kind = "error"
  BY EventsAreEvents DEF ErrorEvent
<1>3. /\ InFlight' = InFlight \cup {ErrorEvent}
      /\ \A r \in Reader : reader[r] # "idle" => \A Y :
           changed[r] \subseteq Y /\ Later(ErrorEvent, Y) => Ordered(events', raw', wanted[r], Y)
  BY <1>1, <1>2, AppendOrder
<1>4. \A W : Knows(W) => Knows(W)'
  BY <1>1, KnowsFrame
<1>5. FreshInv'
  BY <1>1, <1>3, <1>4 DEF FreshInv, Calm, Awaited
<1>6. OrderInv'
  <2>1. \A r \in Reader : reader'[r] # "idle" => Ordered(events', raw', wanted'[r], changed'[r])
    BY <1>1, <1>2, <1>3 DEF Later
  <2> QED
    BY <1>1, <1>2, <1>3, <2>1 DEF OrderInv
<1>7. CookieInv' /\ ListInv'
  BY <1>1, <1>4 DEF CookieInv, Answerable, ListInv
<1>8. AnswersAreFresh'
  BY <1>1, AnswersFrame
<1> QED
  BY <1>5, <1>6, <1>7, <1>8

\* A reader asks: what is on its way is ahead of its cookie.
LEMMA CookieRequestStep ==
  ASSUME WatcherInv, KnowledgeInv, NEW q \in Reader, CookieRequest(q)
  PROVE  KnowledgeInv'
<1> USE DEF KnowledgeInv, WatcherInv
<1> DEFINE e == CookieEvent(serial + 1)
<1>1. /\ UNCHANGED <<manifest, files, events, lagged, unseen, cookie_index, changed>>
      /\ UNCHANGED <<got, globs, pending, rerun, tasks, data>>
      /\ serial' = serial + 1 /\ raw' = Append(raw, e)
      /\ reader[q] = "idle"
      /\ reader' = [reader EXCEPT ![q] = "cookie"]
      /\ wanted' = [wanted EXCEPT ![q] = serial + 1]
  BY DEF CookieRequest, disk, channel, watcher
<1>2. serial \in Nat /\ e \in Event /\ e.kind = "cookie" /\ e.serial = serial + 1
  BY EventsAreEvents DEF CookieEvent, ReaderInv
<1> HIDE DEF e
<1>3. /\ InFlight' = InFlight \cup {e}
      /\ \A r \in Reader : reader[r] # "idle" => \A Y :
           changed[r] \subseteq Y /\ Later(e, Y) => Ordered(events', raw', wanted[r], Y)
  BY <1>1, <1>2, AppendOrder
<1>4. \A r \in Reader : r # q => reader'[r] = reader[r] /\ wanted'[r] = wanted[r]
  BY <1>1 DEF ReaderInv
<1>5. reader'[q] = "cookie" /\ wanted'[q] = serial + 1
  BY <1>1 DEF ReaderInv
<1>6. \A W : Knows(W) => Knows(W)'
  BY <1>1, KnowsFrame
<1>7. FreshInv'
  BY <1>1, <1>2, <1>3, <1>6 DEF FreshInv, Calm, Awaited
<1>8. OrderInv'
  <2>1. \A d \in InFlight : d \in Event
    BY DEF InFlight, ToSet, ChannelInv
  <2>2. \A d \in InFlight : d.kind = "cookie" => d.serial \in Nat /\ d.serial <= serial
    BY <2>1, EventFields DEF OrderInv
  <2>3. \A d \in ToSet(events) \cup ToSet(raw) : ~Marks(d, serial + 1)
    BY <1>2, <2>2 DEF Marks, InFlight
  <2>4. Ordered(events', raw', wanted'[q], changed'[q])
    <3>1. Ordered(events, Append(raw, e), serial + 1, changed[q])
      BY <2>3, OrderedLast DEF ChannelInv
    <3> QED
      BY <1>1, <1>5, <3>1
  <2>5. \A r \in Reader : r # q /\ reader'[r] # "idle" =>
          Ordered(events', raw', wanted'[r], changed'[r])
    BY <1>1, <1>2, <1>3, <1>4 DEF Later
  <2>6. \A d \in InFlight' : d.kind = "cookie" => d.serial <= serial'
    BY <1>1, <1>2, <1>3, <2>2
  <2>7. cookie_index' <= serial'
    BY <1>1, <1>2 DEF OrderInv, ReaderInv
  <2> QED
    BY <2>4, <2>5, <2>6, <2>7 DEF OrderInv
<1>9. CookieInv'
  <2>1. ~Answerable(q)'
    BY <1>1, <1>2, <1>5 DEF Answerable, OrderInv, ReaderInv
  <2>2. \A r \in Reader : r # q /\ Answerable(r)' => Answerable(r)
    BY <1>1, <1>4 DEF Answerable
  <2> QED
    BY <1>1, <1>6, <2>1, <2>2 DEF CookieInv
<1>10. ListInv'
  BY <1>1 DEF ListInv
<1>11. AnswersAreFresh'
  BY <1>1, <1>4, <1>5 DEF AnswersAreFresh, Current
<1> QED
  BY <1>7, <1>8, <1>9, <1>10, <1>11

\* An event that was sent is still on its way, unless one was lost for it; one that
\* was filtered out is counted as unseen.
LEMMA RouteStep ==
  ASSUME WatcherInv, KnowledgeInv, RouteEvent
  PROVE  KnowledgeInv'
<1> USE DEF KnowledgeInv, WatcherInv
<1> DEFINE h == Head(raw)
<1>1. /\ UNCHANGED <<manifest, files, serial, cookie_index, changed>>
      /\ UNCHANGED <<reader, wanted, got, globs, pending, rerun, tasks, data>>
      /\ raw # <<>> /\ raw' = Tail(raw)
      /\ \/ SendEvent(h) /\ UNCHANGED unseen
         \/ /\ ~InScope(h)
            /\ unseen' = unseen \cup {h.file[1]}
            /\ UNCHANGED channel
  BY DEF RouteEvent, disk, watcher, readers
<1>2. /\ raw \in Seq(Event) /\ events \in Seq(Event) /\ h \in Event
      /\ ToSet(raw) = ToSet(raw') \cup {h} /\ raw' \in Seq(Event)
  BY <1>1, TakenEvents DEF ChannelInv
<1>3. \A W : Knows(W) => Knows(W)'
  BY <1>1, KnowsFrame
<1>4. unseen \subseteq unseen'
  BY <1>1
<1>5. CookieInv' /\ ListInv'
  BY <1>1, <1>3, <1>4 DEF CookieInv, Answerable, ListInv
<1>6. AnswersAreFresh'
  BY <1>1, AnswersFrame
<1>7. Capacity \in Nat \ {0}
  BY WatcherAssumption
<1>8. CASE SendEvent(h) /\ UNCHANGED unseen /\ Len(events) # Capacity
  <2>1. events' = Append(events, h) /\ lagged' = lagged
    BY <1>8 DEF SendEvent, ChannelInv
  <2>2. InFlight' = InFlight
    BY <1>2, <2>1, AppendedEvents DEF InFlight
  <2>3. FreshInv'
    BY <1>3, <1>8, <2>1, <2>2 DEF FreshInv, Calm, Awaited
  <2>4. \A r \in Reader : reader[r] # "idle" => Ordered(events', raw', wanted[r], changed[r])
    BY <1>1, <1>2, <2>1, OrderedMove DEF OrderInv
  <2>5. OrderInv'
    BY <1>1, <2>2, <2>4 DEF OrderInv
  <2> QED
    BY <1>5, <1>6, <2>3, <2>5
<1>9. CASE SendEvent(h) /\ UNCHANGED unseen /\ Len(events) = Capacity
  <2>1. events' = Append(Tail(events), h) /\ lagged'
    BY <1>9 DEF SendEvent, ChannelInv
  <2>2. events # <<>> /\ Tail(events) \in Seq(Event) /\ ToSet(Tail(events)) \subseteq ToSet(events)
    <3>1. events # <<>>
      BY <1>2, <1>7, <1>9
    <3> QED
      BY <1>2, <3>1, TakenEvents
  <2>3. InFlight' \subseteq InFlight
    <3>1. ToSet(events') = ToSet(Tail(events)) \cup {h}
      BY <2>1, <2>2, AppendedEvents
    <3> HIDE DEF h
    <3> QED
      BY <1>2, <2>2, <3>1 DEF InFlight
  <2>4. FreshInv'
    BY <2>1 DEF FreshInv, Calm
  <2>5. ASSUME NEW r \in Reader, reader[r] # "idle"
        PROVE  Ordered(events', raw', wanted[r], changed[r])
    <3>1. Ordered(Tail(events), raw, wanted[r], changed[r])
      BY <1>2, <2>2, <2>5, OrderedTake DEF OrderInv
    <3> QED
      BY <1>1, <1>2, <2>1, <2>2, <3>1, OrderedMove
  <2>6. OrderInv'
    BY <1>1, <2>3, <2>5 DEF OrderInv
  <2> QED
    BY <1>5, <1>6, <2>4, <2>6
<1>10. CASE ~InScope(h) /\ unseen' = unseen \cup {h.file[1]} /\ UNCHANGED channel
  <2>1. h.kind = "file" /\ events' = events /\ lagged' = lagged
    BY <1>10 DEF InScope, channel
  <2>2. InFlight = InFlight' \cup {h}
    BY <1>2, <2>1 DEF InFlight
  <2>3. FreshInv'
    BY <1>3, <1>10, <2>1, <2>2 DEF FreshInv, Calm, Awaited
  <2>4. \A r \in Reader : reader[r] # "idle" => Ordered(events', raw', wanted[r], changed[r])
    BY <1>1, <1>2, <2>1, OrderedSkip DEF OrderInv
  <2>5. OrderInv'
    BY <1>1, <2>2, <2>4 DEF OrderInv
  <2> QED
    BY <1>5, <1>6, <2>3, <2>5
<1> QED
  BY <1>1, <1>8, <1>9, <1>10

\* An event that is handled is made good in the list, or by a new discovery; by the
\* time its cookie is handled, a reader's changes before it are known.
LEMMA HandleEventStep ==
  ASSUME WatcherInv, KnowledgeInv, HandleFileEvent
  PROVE  KnowledgeInv'
<1> USE DEF KnowledgeInv, WatcherInv
<1> DEFINE e == Head(events)
<1>1. /\ UNCHANGED <<manifest, files, raw, lagged, unseen, serial, changed, reader, wanted, got>>
      /\ UNCHANGED globs
      /\ ~lagged /\ events # <<>> /\ events' = Tail(events)
      /\ \/ e.kind \in {"root", "error"} /\ BumpOrQueue
         \/ e.kind \in {"file", "cookie"} /\ HandleWorkspaceChanges(e)
      /\ cookie_index' = IF e.kind = "cookie" THEN e.serial ELSE cookie_index
  BY DEF HandleFileEvent, disk, readers
<1>2. /\ events \in Seq(Event) /\ raw \in Seq(Event) /\ e \in Event
      /\ ToSet(events) = ToSet(events') \cup {e}
  BY <1>1, TakenEvents DEF ChannelInv
<1> HIDE DEF e
<1>3. InFlight = InFlight' \cup {e}
  BY <1>1, <1>2 DEF InFlight
<1>4. ASSUME NEW W \in SUBSET Workspace, NEW V \in SUBSET Workspace,
             \A w \in W : w \in V \/ (e.kind = "file" /\ e.file[1] = w),
             e.kind = "root" \/ Knows(V)
      PROVE  Knows(W)'
  BY <1>1, <1>2, <1>4, EventKnows
<1>5. FreshInv'
  <2> SUFFICES ASSUME Calm', NEW W \in SUBSET Workspace, W \cap unseen' = {},
                      \A w \in W : ~Awaited(w)'
               PROVE  Knows(W)'
    BY DEF FreshInv
  <2>1. CASE e.kind = "root"
    BY <1>4, <2>1
  <2>2. CASE e.kind # "root"
    <3> DEFINE V == {w \in W : e.kind = "file" => e.file[1] # w}
    <3>1. Calm
      BY <1>1, <1>3, <2>2 DEF Calm
    <3>2. \A w \in V : ~Awaited(w)
      BY <1>3 DEF Awaited
    <3>3. Knows(V)
      BY <1>1, <3>1, <3>2 DEF FreshInv
    <3> QED
      BY <1>4, <3>3
  <2> QED
    BY <2>1, <2>2
<1>6. ASSUME NEW r \in Reader, reader[r] # "idle"
      PROVE  /\ Ordered(events', raw', wanted'[r], changed'[r])
             /\ Marks(e, wanted[r]) => \A d \in InFlight' : Later(d, changed[r])
  BY <1>1, <1>2, <1>6, OrderedTake DEF OrderInv, InFlight, e
<1>7. OrderInv'
  <2>1. cookie_index' <= serial
    BY <1>1, <1>3 DEF OrderInv
  <2> QED
    BY <1>1, <1>3, <1>6, <2>1 DEF OrderInv
<1>8. CookieInv'
  <2> SUFFICES ASSUME NEW r \in Reader, Answerable(r)', Root \notin changed[r],
                      NEW W \in SUBSET Workspace, W \cap (changed[r] \cup unseen) = {}
               PROVE  Knows(W)'
    BY <1>1 DEF CookieInv
  <2>1. CASE Answerable(r)
    <3>1. Knows(W)
      BY <2>1 DEF CookieInv
    <3> QED
      BY <1>4, <3>1
  <2>2. CASE ~Answerable(r)
    <3>1. reader[r] = "cookie" /\ Marks(e, wanted[r])
      BY <1>1, <2>2 DEF Answerable, Marks
    <3>2. \A d \in InFlight' : Later(d, changed[r])
      BY <1>6, <3>1
    <3>3. Calm'
      BY <1>1, <3>2 DEF Calm, Later
    <3>4. \A w \in W : ~Awaited(w)'
      BY <3>2 DEF Awaited, Later
    <3> QED
      BY <1>1, <1>5, <3>3, <3>4 DEF FreshInv
  <2> QED
    BY <2>1, <2>2
<1>9. ListInv'
  BY <1>1 DEF ListInv, BumpOrQueue, QueueRediscovery, HandleWorkspaceChanges, PatchWorkspace
<1>10. AnswersAreFresh'
  BY <1>1, AnswersFrame
<1> QED
  BY <1>5, <1>7, <1>8, <1>9, <1>10

\* The watcher hears of the events it lost, and discovers everything anew.
LEMMA LagStep ==
  ASSUME WatcherInv, KnowledgeInv, HandleLag
  PROVE  KnowledgeInv'
<1> USE DEF KnowledgeInv, WatcherInv
<1>1. /\ UNCHANGED <<manifest, files, raw, events, unseen, serial, cookie_index, changed>>
      /\ UNCHANGED <<reader, wanted, got>>
      /\ BumpOrQueue
  BY DEF HandleLag, disk, readers
<1>2. \A W : Knows(W)'
  BY <1>1, BumpKnows
<1>3. FreshInv' /\ CookieInv'
  BY <1>2 DEF FreshInv, CookieInv
<1>4. OrderInv' /\ AnswersAreFresh'
  BY <1>1, OrderFrame, AnswersFrame
<1>5. ListInv'
  BY <1>1 DEF ListInv, BumpOrQueue, QueueRediscovery
<1> QED
  BY <1>3, <1>4, <1>5

\* A discovery advances, or its result is handled.
LEMMA DiscoveryKnowledgeStep ==
  ASSUME WatcherInv, KnowledgeInv, NEW t \in tasks, Discover(t) \/ HandleDiscoveryResult(t)
  PROVE  KnowledgeInv'
<1> USE DEF KnowledgeInv, WatcherInv
<1>1. /\ UNCHANGED <<manifest, files, raw, events, lagged, serial, cookie_index, changed>>
      /\ UNCHANGED <<reader, wanted, got>>
  BY DEF Discover, Debounced, FindPackages, FindConfigs, ReadGlobs, Result, Advance,
     HandleDiscoveryResult, disk, channel, watcher, readers
<1>2. (Discover(t) /\ FindPackages(t)) \/ unseen' = unseen
  BY DEF Discover, Debounced, FindConfigs, ReadGlobs, HandleDiscoveryResult
<1>3. \A W \in SUBSET Workspace : Knows(W) \/ unseen' # unseen => Knows(W)'
  BY <1>2, DiscoverKnows, ResultKnows
<1>4. FreshInv'
  BY <1>1, <1>3 DEF FreshInv, Calm, Awaited, InFlight
<1>5. CookieInv'
  BY <1>1, <1>3 DEF CookieInv, Answerable
<1>6. OrderInv' /\ AnswersAreFresh'
  BY <1>1, OrderFrame, AnswersFrame
<1>7. ListInv'
  BY DEF ListInv, HandleDiscoveryResult, QueueRediscovery, Discover, Debounced, FindPackages,
     FindConfigs, ReadGlobs, Result, Advance, watcher
<1> QED
  BY <1>4, <1>5, <1>6, <1>7

\* A list is borrowed only when its reader may rely on it.
LEMMA ReadersKnowledgeStep ==
  ASSUME WatcherInv, KnowledgeInv, NEW q \in Reader, Read(q) \/ GiveUp(q)
  PROVE  KnowledgeInv'
<1> USE DEF KnowledgeInv, WatcherInv
<1>1. /\ UNCHANGED <<manifest, files, raw, events, lagged, serial, cookie_index, wanted, unseen>>
      /\ UNCHANGED <<globs, pending, rerun, tasks, data>>
  BY DEF Read, CookieReady, ValueReady, Borrow, GiveUp, ReaderStep, disk, channel, watcher
<1>2. /\ \A r \in Reader : r # q => /\ reader'[r] = reader[r] /\ got'[r] = got[r]
                                   /\ changed'[r] = changed[r]
      /\ changed[q] \subseteq changed'[q]
      /\ reader[q] # "idle" /\ reader'[q] \in {"value", "borrow", "done", "gone"}
  BY DEF Read, CookieReady, ValueReady, Borrow, GiveUp, ReaderStep, ReaderInv, HistoryInv
<1>3. \A W : Knows(W) => Knows(W)'
  BY <1>1, KnowsFrame
<1>4. FreshInv'
  BY <1>1, <1>3 DEF FreshInv, Calm, Awaited, InFlight
<1>5. OrderInv'
  BY <1>1, <1>2, OrderFrame
<1>6. Answerable(q)' => Answerable(q)
  BY <1>2 DEF Read, CookieReady, ValueReady, Borrow, GiveUp, ReaderStep, ReaderInv, Answerable
<1>7. \A r \in Reader : Answerable(r)' => Answerable(r) /\ changed[r] \subseteq changed'[r]
  BY <1>1, <1>2, <1>6 DEF Answerable
<1>8. CookieInv'
  BY <1>1, <1>3, <1>7 DEF CookieInv
<1>9. ListInv'
  BY <1>1 DEF ListInv
<1>10. AnswersAreFresh'
  <2>1. CASE Borrow(q)
    <3>1. /\ reader[q] = "borrow" /\ got'[q] = data /\ changed'[q] = changed[q] \cup unseen
      BY <2>1 DEF Borrow, ReaderStep, ReaderInv, HistoryInv
    <3>2. ASSUME data \notin {NoData, Failed}, Root \notin changed'[q]
          PROVE  \A w \in Workspace \ changed'[q] : Current(w, data)
      <4> DEFINE W == Workspace \ changed'[q]
      <4>1. Answerable(q) /\ Root \notin changed[q] /\ W \in SUBSET Workspace
              /\ W \cap (changed[q] \cup unseen) = {}
        BY <3>1, <3>2 DEF Answerable
      <4>2. Knows(W)
        BY <4>1 DEF CookieInv
      <4>3. Published
        BY <3>2 DEF Published, ListInv
      <4> QED
        BY <4>2, <4>3 DEF Knows, ListKnows, RightAbout, Current
    <3> QED
      BY <1>1, <1>2, <3>1, <3>2 DEF AnswersAreFresh, Current
  <2>2. CASE reader'[q] # "done"
    BY <1>1, <1>2, <2>2 DEF AnswersAreFresh, Current
  <2> QED
    BY <2>1, <2>2 DEF Read, CookieReady, ValueReady, GiveUp, ReaderStep, ReaderInv
<1> QED
  BY <1>4, <1>5, <1>8, <1>9, <1>10

-----------------------------------------------------------------------------
(* The theorems.                                                           *)

\* The inductive invariant of the package watcher.
THEOREM WatcherInvariant == WatcherSpec => []WatcherInv
<1>1. WatcherInit => WatcherInv
  <2> SUFFICES ASSUME WatcherInit
               PROVE  WatcherInv
    OBVIOUS
  <2>1. DiskInv
    BY WatcherAssumption DEF WatcherInit, DiskInv
  <2>2. ChannelInv
    <3>1. Len(events) = 0 /\ Capacity \in Nat
      BY WatcherAssumption DEF WatcherInit
    <3>2. raw \in Seq(Event) /\ events \in Seq(Event)
      <4>1. \A T : <<>> \in Seq(T)
        OBVIOUS
      <4> QED
        BY <4>1, Zenon DEF WatcherInit
    <3>3. Len(events) <= Capacity
      BY <3>1
    <3>4. lagged \in BOOLEAN
      BY DEF WatcherInit
    <3> QED
      BY <3>2, <3>3, <3>4, Zenon DEF ChannelInv
  <2>3. DiscoveryInv
    <3>1. Discovery(1) \in Task /\ Discovery(1).version = 1 /\ Discovery(1).stage = "debounce"
      BY DiscoveryIsTask
    <3> QED
      BY <3>1 DEF WatcherInit, DiscoveryInv
  <2>4. ReaderInv
    BY DEF WatcherInit, ReaderInv
  <2>5. HistoryInv
    BY DEF WatcherInit, HistoryInv
  <2> QED
    BY <2>1, <2>2, <2>3, <2>4, <2>5 DEF WatcherInv
<1>2. WatcherInv /\ [WatcherNext]_watcherVars => WatcherInv'
  <2>1. CASE WatcherNext
    BY <2>1, DiskStep, ChannelStep, DiscoveryStep, ReaderStepInv, HistoryStep DEF WatcherInv
  <2>2. CASE UNCHANGED watcherVars
    <3>1. DiskInv' /\ ChannelInv' /\ HistoryInv' <=> DiskInv /\ ChannelInv /\ HistoryInv
      BY <2>2 DEF DiskInv, ChannelInv, HistoryInv, watcherVars, disk, channel
    <3>2. ReaderInv' <=> ReaderInv
      BY <2>2 DEF ReaderInv, watcherVars, watcher, readers
    <3>3. DiscoveryInv' <=> DiscoveryInv
      BY <2>2 DEF DiscoveryInv, watcherVars, watcher
    <3> QED
      BY <3>1, <3>2, <3>3 DEF WatcherInv
  <2> QED
    BY <2>1, <2>2
<1> QED
  BY <1>1, <1>2, PTL DEF WatcherSpec

\* Type correctness of the package watcher: the channel stays within its capacity,
\* and a list that was patched is a list.
THEOREM WatcherTypeCorrect == WatcherSpec => []WatcherTypeOK
<1>1. WatcherInv => WatcherTypeOK
  BY DEF WatcherInv, DiskInv, ChannelInv, DiscoveryInv, ReaderInv, HistoryInv, WatcherTypeOK
<1> QED
  BY <1>1, WatcherInvariant, PTL

\* Whatever events, errors and lost events arrive during a discovery, it is the
\* only one, and a watcher that waits for one has one.
THEOREM DiscoveriesDoNotOverlap == WatcherSpec => []OneDiscovery
<1>1. WatcherInv => OneDiscovery
  BY Zenon DEF WatcherInv, DiscoveryInv, OneDiscovery
<1> QED
  BY <1>1, WatcherInvariant, PTL

\* The inductive invariant of what the watcher knows.
THEOREM KnowledgeInvariant == WatcherSpec => []KnowledgeInv
<1>1. WatcherInit => KnowledgeInv
  <2> SUFFICES ASSUME WatcherInit
               PROVE  KnowledgeInv
    OBVIOUS
  <2>1. InFlight = {}
    BY DEF WatcherInit, InFlight, ToSet
  <2>2. \A W : Knows(W)
    BY DEF WatcherInit, Knows, Published, TaskKnows, Discovery
  <2>3. FreshInv /\ CookieInv
    BY <2>2 DEF FreshInv, CookieInv
  <2>4. OrderInv
    BY <2>1 DEF WatcherInit, OrderInv
  <2>5. ListInv /\ AnswersAreFresh
    BY DEF WatcherInit, ListInv, AnswersAreFresh
  <2> QED
    BY <2>3, <2>4, <2>5 DEF KnowledgeInv
<1>2. WatcherInv /\ KnowledgeInv /\ [WatcherNext]_watcherVars => KnowledgeInv'
  <2> SUFFICES ASSUME WatcherInv, KnowledgeInv, [WatcherNext]_watcherVars
               PROVE  KnowledgeInv'
    OBVIOUS
  <2>1. CASE WatcherNext
    BY <2>1, FileChangeStep, ManifestChangeStep, ErrorStep, RouteStep, CookieRequestStep,
       HandleEventStep, LagStep, DiscoveryKnowledgeStep, ReadersKnowledgeStep
       DEF WatcherNext, WatchProcess
  <2>2. CASE UNCHANGED watcherVars
    <3>1. UNCHANGED <<manifest, files, raw, events, lagged, globs, pending, rerun, data>>
      BY <2>2 DEF watcherVars, disk, channel, watcher
    <3>2. UNCHANGED <<cookie_index, tasks, serial, reader, wanted, got, unseen, changed>>
      BY <2>2 DEF watcherVars, watcher, readers
    <3>3. \A W : Knows(W) => Knows(W)'
      BY <3>1, <3>2, KnowsFrame
    <3>4. FreshInv' /\ CookieInv' /\ ListInv'
      BY <3>1, <3>2, <3>3 DEF KnowledgeInv, FreshInv, CookieInv, ListInv, Calm, Awaited,
         InFlight, Answerable
    <3>5. OrderInv' /\ AnswersAreFresh'
      BY <3>1, <3>2, OrderFrame, AnswersFrame DEF KnowledgeInv
    <3> QED
      BY <3>4, <3>5 DEF KnowledgeInv
  <2> QED
    BY <2>1, <2>2
<1> QED
  BY <1>1, <1>2, WatcherInvariant, PTL DEF WatcherSpec

\* A list that readers can see agrees with the disk on every workspace, but those
\* with events the watcher has still to handle or that were filtered out, whatever
\* changed while it was discovered and whatever was patched since.
THEOREM PublishedListIsCurrent == WatcherSpec => []PublishedIsCurrent
<1>1. WatcherInv /\ KnowledgeInv => PublishedIsCurrent
  <2> SUFFICES ASSUME KnowledgeInv, Published, ~StartsOver, NEW w \in Workspace \ unseen,
                      ~Awaited(w)
               PROVE  Current(w, data)
    BY DEF PublishedIsCurrent
  <2>1. Calm
    BY DEF Calm, StartsOver
  <2>2. Knows({w})
    BY <2>1 DEF KnowledgeInv, FreshInv
  <2> QED
    BY <2>2 DEF Knows, ListKnows, RightAbout, Current
<1> QED
  BY <1>1, WatcherInvariant, KnowledgeInvariant, PTL

\* A reader's list shows every change made before its cookie, but those that were
\* filtered out, though events of other readers and lost events come between.
THEOREM ReadersGetFreshLists == WatcherSpec => []AnswersAreFresh
  BY KnowledgeInvariant, PTL DEF KnowledgeInv
=============================================================================
