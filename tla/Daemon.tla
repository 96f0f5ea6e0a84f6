------------------------------- MODULE Daemon -------------------------------
(***************************************************************************)
(* How clients find, start, replace and clean the daemon of a repository:  *)
(* crates/turborepo-pidlock/src/lib.rs, and connector.rs, endpoint.rs,     *)
(* lifecycle.rs and the serve function of server.rs in                     *)
(* crates/turborepo-daemon/src.                                            *)
(*                                                                         *)
(* They share two files: the pid file, created by the daemon that has the  *)
(* lock and written in a step of its own, and the socket.  A process reads *)
(* the pid file, finds that its owner is gone, and removes the file: by    *)
(* then it may be that of another daemon.  Time is not modelled, a timeout *)
(* may expire whenever it is awaited.  The socket is that of unix.         *)
(***************************************************************************)
EXTENDS Naturals

CONSTANTS Daemon,    \* the processes that are or may become daemons, by pid
          Running,   \* those that run when the clients start
          Client,    \* the commands that connect to the daemon
          CanStart, CanKill,   \* DaemonConnector's can_start_server, can_kill_server
          Cleaner,   \* commands that clean its files: daemon clean, daemon restart
          Matches,   \* the pairs of a client and a daemon with compatible versions
          None,
          RetryMax,  \* CONNECT_RETRY_MAX
          MaxCrashes \* bound: daemons that die

ASSUME DaemonAssumption ==
  /\ Running \subseteq Daemon /\ \A d, e \in Running : d = e
  /\ Client \cap Daemon = {}
  /\ CanStart \cup CanKill \cup Cleaner \subseteq Client
  /\ Matches \subseteq Client \X Daemon
  /\ None \notin Daemon
  /\ RetryMax \in Nat \ {0} /\ MaxCrashes \in Nat

VARIABLES
  pidfile,  \* the daemon that created the pid file, None if there is none
  written,  \* its pid is in the file
  socket,   \* the daemon that bound the socket file, None if there is none
  daemon,   \* where each daemon is
  client,   \* where each client is
  purpose,  \* why a client asks for the owner: "find", or to "kill" it
  pid,      \* the daemon that get_or_start_daemon returned to each client
  peer,     \* the daemon that each client is connected to
  tries,    \* of connect's loop
  crashes,
  died,     \* history: the daemons that crashed or were killed
  snatched  \* history: the pid file of a live daemon was removed by another process

daemonVars == <<pidfile, written, socket, daemon, client, purpose, pid, peer, tries, crashes,
                died, snatched>>

(***************************************************************************)
(* daemon: "none" no such process; "starting"; "stale" it read the pid of  *)
(*   a dead process; "create" there was no owner; "write" it created the   *)
(*   pid file; "bind"; "serving"; "closing"; "dead".                       *)
(* client: "idle"; "look" get_owner; "stale" as above; "start"; "pid" and  *)
(*   "sock" it waits for the file, "sock" and connects; "hello"; "stop"    *)
(*   and "gone" kill_live_server, before and after the request; and what   *)
(*   connect returned, "ok" or "error"; "cleaned".                         *)
(***************************************************************************)
Alive   == {d \in Daemon : daemon[d] \notin {"none", "dead"}}
Locked  == {d \in Daemon : daemon[d] \in {"bind", "serving", "closing"}}
Serving == {d \in Daemon : daemon[d] = "serving"}

DaemonTypeOK ==
  /\ {pidfile, socket} \subseteq Daemon \cup {None} /\ {written, snatched} \subseteq BOOLEAN
  /\ daemon \in [Daemon -> {"none", "starting", "stale", "create", "write", "bind", "serving",
                            "closing", "dead"}]
  /\ client \in [Client -> {"idle", "look", "stale", "start", "pid", "sock", "hello",
                            "stop", "gone", "ok", "error", "cleaned"}]
  /\ purpose \in [Client -> {"find", "kill", "kill and wait"}]
  /\ {pid, peer} \subseteq [Client -> Daemon \cup {None}]
  /\ tries \in [Client -> 0 .. RetryMax]
  /\ died \subseteq Daemon

DaemonInit ==
  /\ pidfile \in IF Running = {} THEN {None} ELSE Running
  /\ written = (Running # {})
  /\ socket = pidfile
  /\ daemon = [d \in Daemon |-> IF d \in Running THEN "serving" ELSE "none"]
  /\ client = [c \in Client |-> "idle"]
  /\ purpose = [c \in Client |-> "find"]
  /\ pid = [c \in Client |-> None] /\ peer = pid
  /\ tries = [c \in Client |-> 0]
  /\ crashes = 0
  /\ died = {}
  /\ snatched = FALSE

-----------------------------------------------------------------------------
(* The pid file.                                                           *)

\* Mutant: a file without a pid counts as stale.
StaleUnwritten == pidfile # None /\ (written => pidfile \notin Alive)

\* get_owner: the pid in the file is that of no process.
Stale == pidfile # None /\ written /\ pidfile \notin Alive

\* get_owner returns an error for a file without a pid.
Owned      == pidfile # None /\ written /\ pidfile \in Alive
Unreadable == pidfile # None /\ ~written /\ ~Stale

RemovePidfile(p) ==
  /\ pidfile' = None
  /\ written' = FALSE
  /\ snatched' = (snatched \/ (pidfile # p /\ pidfile \in Alive))

-----------------------------------------------------------------------------
(* The daemon: Pidlock::acquire, listen_socket, serve.                     *)

At(d, from, to) == daemon[d] = from /\ daemon' = [daemon EXCEPT ![d] = to]

\* The file watching cannot be set up, which ends the daemon before it asks for the lock.
SetupFails(d) ==
  /\ At(d, "starting", "dead")
  /\ UNCHANGED <<pidfile, written, socket, snatched>>

ReadOwner(d) ==
  /\ \/ pidfile = None /\ At(d, "starting", "create")
     \/ Stale /\ At(d, "starting", "stale")
     \/ Owned /\ At(d, "starting", "dead")
     \/ Unreadable /\ At(d, "starting", "dead")
  /\ UNCHANGED <<pidfile, written, socket, snatched>>

\* To remove a file that is gone is an error.
RemoveStale(d) ==
  /\ \/ pidfile # None /\ At(d, "stale", "create") /\ RemovePidfile(d)
     \/ pidfile = None /\ At(d, "stale", "dead") /\ UNCHANGED <<pidfile, written, snatched>>
  /\ UNCHANGED socket

\* Mutant: the file is opened whether it exists or not.
CreateOrOpen(d) ==
  /\ At(d, "create", "write")
  /\ pidfile' = d /\ written' = FALSE
  /\ UNCHANGED <<socket, snatched>>

\* create_new
Create(d) ==
  /\ \/ /\ pidfile = None
        /\ At(d, "create", "write")
        /\ pidfile' = d /\ written' = FALSE
     \/ /\ pidfile # None
        /\ At(d, "create", "dead")
        /\ UNCHANGED <<pidfile, written>>
  /\ UNCHANGED <<socket, snatched>>

WritePid(d) ==
  /\ At(d, "write", "bind")
  /\ written' = (written \/ pidfile = d)
  /\ UNCHANGED <<pidfile, socket, snatched>>

\* The socket file is removed, whosever it is, and bound.  An error drops the lock;
\* the file may be gone by then, or bound already.
Bind(d) ==
  \/ /\ At(d, "bind", "serving")
     /\ socket' = d
     /\ UNCHANGED <<pidfile, written, snatched>>
  \/ /\ At(d, "bind", "dead")
     /\ socket' \in {socket, None, d}
     /\ RemovePidfile(d)

\* The idle timeout, an interrupt, or the root of the repository is gone.
Close(d) ==
  /\ At(d, "serving", "closing")
  /\ UNCHANGED <<pidfile, written, socket, snatched>>

\* Mutant: the process exits, and the lock is not dropped.
ReleaseNothing(d) ==
  /\ At(d, "closing", "dead")
  /\ UNCHANGED <<pidfile, written, socket, snatched>>

\* The lock is dropped: the file is removed by its path, if there is one.
Release(d) ==
  /\ At(d, "closing", "dead")
  /\ RemovePidfile(d)
  /\ UNCHANGED socket

Startup(d) ==
  SetupFails(d) \/ ReadOwner(d) \/ RemoveStale(d) \/ Create(d) \/ WritePid(d) \/ Bind(d)

DaemonStep(d) ==
  /\ Startup(d) \/ Close(d) \/ Release(d)
  /\ UNCHANGED <<client, purpose, pid, peer, tries, crashes, died>>

Crash(d) ==
  /\ crashes < MaxCrashes
  /\ crashes' = crashes + 1
  /\ d \in Alive
  /\ daemon' = [daemon EXCEPT ![d] = "dead"]
  /\ died' = died \cup {d}
  /\ UNCHANGED <<pidfile, written, socket, client, purpose, pid, peer, tries, snatched>>

-----------------------------------------------------------------------------
(* The client: connect and what it calls.                                  *)

Goto(c, from, to) == client[c] = from /\ client' = [client EXCEPT ![c] = to]

Files == <<pidfile, written, socket, snatched>>
World == <<Files, daemon, crashes, died>>

Connect(c) ==
  /\ Goto(c, "idle", "look")
  /\ tries' = [tries EXCEPT ![c] = 1]
  /\ UNCHANGED <<World, purpose, pid, peer>>

\* What the client knows after the n-th turn of the loop has ended.
Forget(c, n) ==
  /\ tries' = [tries EXCEPT ![c] = n]
  /\ purpose' = [purpose EXCEPT ![c] = "find"]
  /\ pid' = [pid EXCEPT ![c] = None]
  /\ peer' = [peer EXCEPT ![c] = None]

Fail(c, from) == Goto(c, from, "error") /\ Forget(c, 0)

\* The loop's next turn, if there is one.
Retry(c, from) ==
  \/ tries[c] < RetryMax /\ Goto(c, from, "look") /\ Forget(c, tries[c] + 1)
  \/ tries[c] = RetryMax /\ Fail(c, from)

\* There is no owner: start_daemon, or nothing is left to kill.
NoOwner(c, from) ==
  \/ /\ purpose[c] = "find"
     /\ IF c \in CanStart
        THEN Goto(c, from, "start") /\ UNCHANGED <<purpose, pid, peer, tries>>
        ELSE Fail(c, from)
  \/ purpose[c] = "kill" /\ Retry(c, from)
  \/ /\ purpose[c] = "kill and wait"
     /\ Goto(c, from, "gone")
     /\ purpose' = [purpose EXCEPT ![c] = "find"]
     /\ UNCHANGED <<pid, peer, tries>>

\* Mutant: kill_dead_server kills whoever owns the pid file.
KillTargets(c) == Alive

\* kill_dead_server kills the owner only if it is the process that was found.  Another
\* owner is an error, or is taken for none if it started after the processes were listed.
KillTarget(c) == {pid[c]}

LookForOwner(c) ==
  /\ client[c] = "look"
  /\ \/ /\ Stale
        /\ Goto(c, "look", "stale")
        /\ UNCHANGED <<daemon, died, purpose, pid, peer, tries>>
     \/ /\ pidfile = None
        /\ NoOwner(c, "look")
        /\ UNCHANGED <<daemon, died>>
     \/ /\ Unreadable
        /\ Fail(c, "look")
        /\ UNCHANGED <<daemon, died>>
     \/ /\ Owned /\ purpose[c] = "find"
        /\ pid' = [pid EXCEPT ![c] = pidfile]
        /\ Goto(c, "look", "pid")
        /\ UNCHANGED <<daemon, died, purpose, peer, tries>>
     \/ /\ Owned /\ purpose[c] # "find" /\ pidfile \in KillTarget(c)
        /\ daemon' = [daemon EXCEPT ![pidfile] = "dead"]
        /\ died' = died \cup {pidfile}
        /\ NoOwner(c, "look")
     \/ /\ Owned /\ purpose[c] # "find" /\ pidfile \notin KillTarget(c)
        /\ Fail(c, "look") \/ NoOwner(c, "look")
        /\ UNCHANGED <<daemon, died>>
  /\ UNCHANGED <<Files, crashes>>

ClearStale(c) ==
  /\ client[c] = "stale"
  /\ \/ pidfile # None /\ RemovePidfile(c) /\ NoOwner(c, "stale")
     \/ /\ pidfile = None
        /\ Fail(c, "stale")
        /\ UNCHANGED <<pidfile, written, snatched>>
  /\ UNCHANGED <<socket, daemon, crashes, died>>

\* A process that cannot be spawned is an error.
StartDaemon(c) ==
  /\ \/ /\ \E d \in Daemon : At(d, "none", "starting") /\ pid' = [pid EXCEPT ![c] = d]
        /\ Goto(c, "start", "pid")
        /\ UNCHANGED <<purpose, peer, tries>>
     \/ Fail(c, "start") /\ UNCHANGED daemon
  /\ UNCHANGED <<Files, crashes, died>>

\* wait_for_socket: any pid file, then any socket.  An error of the watcher is a retry,
\* the timeout ends connect.
WaitForPidfile(c) ==
  /\ \/ /\ pidfile # None /\ Goto(c, "pid", "sock")
        /\ UNCHANGED <<purpose, pid, peer, tries>>
     \/ Retry(c, "pid") \/ Fail(c, "pid")
  /\ UNCHANGED World

\* A socket that is gone or that nobody serves, or an error of the watcher, is a retry.
OpenConnection(c) ==
  /\ \/ /\ socket \in Serving
        /\ Goto(c, "sock", "hello")
        /\ peer' = [peer EXCEPT ![c] = socket]
        /\ UNCHANGED <<purpose, pid, tries>>
     \/ Retry(c, "sock") \/ Fail(c, "sock")
  /\ UNCHANGED World

\* A server that is gone is unavailable; one that does not answer is an error.
Handshake(c) ==
  /\ \/ /\ peer[c] \in Serving /\ <<c, peer[c]>> \in Matches
        /\ Goto(c, "hello", "ok")
        /\ tries' = [tries EXCEPT ![c] = 0]
        /\ pid' = [pid EXCEPT ![c] = None]
        /\ UNCHANGED <<purpose, peer>>
     \/ /\ peer[c] \in Serving /\ <<c, peer[c]>> \notin Matches /\ c \in CanKill
        /\ Goto(c, "hello", "stop")
        /\ UNCHANGED <<purpose, pid, peer, tries>>
     \/ /\ peer[c] \notin Serving
        /\ Goto(c, "hello", "look")
        /\ purpose' = [purpose EXCEPT ![c] = "kill"]
        /\ UNCHANGED <<pid, peer, tries>>
     \/ Fail(c, "hello")
  /\ UNCHANGED World

\* The shutdown request, which may arrive and its answer be lost or late.
RequestShutdown(d) == At(d, "serving", "closing") \/ UNCHANGED daemon

\* kill_live_server: whatever the error of the request, kill_dead_server is next.
StopServer(c) ==
  /\ client[c] = "stop"
  /\ RequestShutdown(peer[c])
  /\ \/ /\ daemon'[peer[c]] = "closing"
        /\ Goto(c, "stop", "gone")
        /\ UNCHANGED purpose
     \/ /\ Goto(c, "stop", "look")
        /\ purpose' = [purpose EXCEPT ![c] = "kill and wait"]
  /\ UNCHANGED <<Files, crashes, died, pid, peer, tries>>

\* Mutant: it waits without a timeout.
WaitUntilGoneForever(c) ==
  /\ pidfile = None /\ Retry(c, "gone")
  /\ UNCHANGED World

\* It waits until the pid file is deleted; the timeout ends connect.
WaitUntilGone(c) ==
  /\ \/ pidfile = None /\ Retry(c, "gone")
     \/ Fail(c, "gone")
  /\ UNCHANGED World

\* That wait fails, which the timeout is not: kill_dead_server.
WaitFails(c) ==
  /\ Goto(c, "gone", "look")
  /\ purpose' = [purpose EXCEPT ![c] = "kill"]
  /\ UNCHANGED <<World, pid, peer, tries>>

\* What a client goes on to do, its timeouts included.
Proceed(c) ==
  \/ LookForOwner(c) \/ ClearStale(c) \/ StartDaemon(c) \/ WaitForPidfile(c)
  \/ OpenConnection(c) \/ Handshake(c) \/ StopServer(c) \/ WaitUntilGone(c)

ConnectStep(c) == Proceed(c) \/ WaitFails(c)

\* clean_daemon, and a restart that fails: the server is told to stop, and the
\* files are removed whatever it answered.
StopBeforeClean(c) ==
  /\ c \in Cleaner
  /\ Fail(c, "ok")
  /\ RequestShutdown(peer[c])
  /\ UNCHANGED <<Files, crashes, died>>

Clean(c) ==
  /\ c \in Cleaner
  /\ Goto(c, "error", "cleaned")
  /\ RemovePidfile(c)
  /\ socket' = None
  /\ UNCHANGED <<daemon, crashes, died, purpose, pid, peer, tries>>

DaemonNext ==
  \/ \E d \in Daemon : DaemonStep(d) \/ Crash(d)
  \/ \E c \in Client : Connect(c) \/ ConnectStep(c) \/ StopBeforeClean(c) \/ Clean(c)

DaemonSpec == DaemonInit /\ [][DaemonNext]_daemonVars

\* The processes run, and every wait has a timeout.  A daemon need not be closed, and
\* the wait for the end of a server need not fail.
FairDaemonSpec ==
  /\ DaemonSpec
  /\ WF_daemonVars(/\ \E d \in Daemon : Startup(d) \/ Release(d)
                   /\ UNCHANGED <<client, purpose, pid, peer, tries, crashes, died>>)
  /\ WF_daemonVars(\E c \in Client : Proceed(c))

-----------------------------------------------------------------------------
(* Properties.                                                             *)

\* A daemon that has the lock is the one in the pid file, so that no two have it,
\* unless the file of a live daemon was removed by another process.
OwnersExclude ==
  ~snatched => \A d \in Locked : pidfile = d /\ written

\* That happens only when a daemon has died without its file, or in a clean: the
\* races of processes that start and stop in good order cannot take a file away.
LiveFilesAreKept ==
  snatched => died # {} \/ \E c \in Cleaner : client[c] = "cleaned"

\* A daemon is killed only by a client that found it in the pid file, or started it,
\* before it connected, and whose server it may replace: one that has gone, or one of
\* another version, which may still serve.
KillsAreAimed ==
  [][\A d \in died' \ died : crashes' = crashes =>
       \E c \in Client :
         /\ client[c] = "look" /\ pid[c] = d /\ peer[c] \in Daemon
         /\ peer[c] \in Serving => c \in CanKill /\ <<c, peer[c]>> \notin Matches]_daemonVars

\* connect returns.
ClientsReturn ==
  \A c \in Client : client[c] = "look" ~> client[c] \in {"ok", "error", "cleaned"}

\* A daemon that is told to stop releases its pid file.
StoppedIsReleased ==
  \A d \in Daemon : daemon[d] = "closing" ~> pidfile # d \/ d \in died

\* pidlock: "A lock is considered "acquired" when a file exists on disk at the path
\* specified, containing the process id of the locking process."
AcquiredMeansInFile ==
  \A d \in Locked : pidfile = d /\ written
=============================================================================
