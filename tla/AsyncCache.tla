----------------------------- MODULE AsyncCache -----------------------------
(***************************************************************************)
(* The write-behind cache of crates/turborepo-cache/src/async_cache.rs.    *)
(*                                                                         *)
(* put, wait and start_shutdown/shutdown send a request to one worker loop *)
(* over a channel of Workers slots.  The loop starts one writer task per   *)
(* write, at most Workers at a time; a flush waits for the writers that    *)
(* run; a shutdown ends the loop, drops the channel with the requests      *)
(* still in it, and reports when the writers are through.                  *)
(*                                                                         *)
(* A request is one call of put (Write), wait (Flush) or start_shutdown    *)
(* (Shutdown).  The uploads themselves (CacheMultiplexer::put) are the     *)
(* environment: a writer ends, with or without an error.                   *)
(***************************************************************************)
EXTENDS Naturals, Sequences, FiniteSets

CONSTANTS Write, Flush, Shutdown,   \* the calls of put, wait, start_shutdown
          Workers                   \* CacheOpts::workers

ASSUME CacheAssumption == /\ Workers \in Nat \ {0}
                          /\ Write \cap Flush = {}
                          /\ Write \cap Shutdown = {}
                          /\ Flush \cap Shutdown = {}
                          /\ "none" \notin Write \cup Flush \cup Shutdown

Request == Write \cup Flush \cup Shutdown

VARIABLES
  accepted,   \* the requests the channel took, in order
  received,   \* how many of them the loop has received
  open,       \* the receiving end has not been dropped
  handles,    \* some AsyncCache handle, thus some sender, is alive
  loop,       \* where the worker loop is
  current,    \* the request the loop is handling, or "none"
  status,     \* what each call knows
  writing     \* the writer tasks that run; each owns a permit

cacheVars == <<accepted, received, open, handles, loop, current, status, writing>>

(***************************************************************************)
(* loop: "receiving"; "acquiring" a permit for a write; "flushing"; "left" *)
(*   the while loop; "closing" the channel is dropped; "draining" the      *)
(*   writers; "done".                                                      *)
(* status: "idle" not called; "sending" awaiting a slot; "accepted" (put   *)
(*   has returned Ok then); "refused" CacheShuttingDown; "started" the     *)
(*   shutdown's first oneshot arrived; "done": the write ended, wait       *)
(*   returned Ok, or the shutdown's second oneshot arrived; "lost" the     *)
(*   write was dropped.                                                    *)
(***************************************************************************)
LoopState == {"receiving", "acquiring", "flushing", "left", "closing", "draining", "done"}
CallState == {"idle", "sending", "accepted", "refused", "started", "done", "lost"}

CacheTypeOK ==
  /\ accepted \in Seq(Request)
  /\ received \in 0 .. Len(accepted)
  /\ open \in BOOLEAN
  /\ handles \in BOOLEAN
  /\ loop \in LoopState
  /\ current \in Request \cup {"none"}
  /\ status \in [Request -> CallState]
  /\ writing \subseteq Write

CacheInit ==
  /\ accepted = <<>>
  /\ received = 0
  /\ open = TRUE
  /\ handles = TRUE
  /\ loop = "receiving"
  /\ current = "none"
  /\ status = [r \in Request |-> "idle"]
  /\ writing = {}

Queued  == {accepted[i] : i \in received + 1 .. Len(accepted)}
Permits == Workers - Cardinality(writing)

-----------------------------------------------------------------------------
(* The callers.                                                            *)

CallCache(r) ==
  /\ handles
  /\ status[r] = "idle"
  /\ status' = [status EXCEPT ![r] = "sending"]
  /\ UNCHANGED <<accepted, received, open, handles, loop, current, writing>>

\* writer_sender.send(..).await
Send(r) ==
  /\ status[r] = "sending"
  /\ open
  /\ Len(accepted) - received < Workers
  /\ accepted' = Append(accepted, r)
  /\ status' = [status EXCEPT ![r] = "accepted"]
  /\ UNCHANGED <<received, open, handles, loop, current, writing>>

\* The send fails: the receiver is gone.
Refuse(r) ==
  /\ status[r] = "sending"
  /\ ~open
  /\ status' = [status EXCEPT ![r] = "refused"]
  /\ UNCHANGED <<accepted, received, open, handles, loop, current, writing>>

\* The last handle is dropped, which no pending call allows.
DropHandles ==
  /\ handles
  /\ \A r \in Request : status[r] # "sending"
  /\ \A f \in Flush : status[f] # "accepted"
  /\ \A s \in Shutdown : status[s] # "accepted"
  /\ handles' = FALSE
  /\ UNCHANGED <<accepted, received, open, loop, current, status, writing>>

-----------------------------------------------------------------------------
(* The worker loop.                                                        *)

\* Mutant: a flush is queued behind the writers like a write.
ReceiveFlushAsWrite ==
  /\ loop = "receiving"
  /\ received < Len(accepted)
  /\ received' = received + 1
  /\ current' = accepted[received + 1]
  /\ loop' = IF current' \in Shutdown THEN "left" ELSE "acquiring"
  /\ UNCHANGED <<accepted, open, handles, status, writing>>

\* Mutant: the loop ends with its senders, not with its requests.
ReceiveWhileHandles ==
  /\ loop = "receiving"
  /\ \/ /\ handles
        /\ received < Len(accepted)
        /\ received' = received + 1
        /\ current' = accepted[received + 1]
        /\ loop' = CASE current' \in Write    -> "acquiring"
                     [] current' \in Flush    -> "flushing"
                     [] current' \in Shutdown -> "left"
     \/ /\ ~handles
        /\ loop' = "left"
        /\ UNCHANGED <<received, current>>
  /\ UNCHANGED <<accepted, open, handles, status, writing>>

\* write_consumer.recv() yields a request, or None without senders.
Receive ==
  /\ loop = "receiving"
  /\ \/ /\ received < Len(accepted)
        /\ received' = received + 1
        /\ current' = accepted[received + 1]
        /\ loop' = CASE current' \in Write    -> "acquiring"
                     [] current' \in Flush    -> "flushing"
                     [] current' \in Shutdown -> "left"
     \/ /\ received = Len(accepted)
        /\ ~handles
        /\ loop' = "left"
        /\ UNCHANGED <<received, current>>
  /\ UNCHANGED <<accepted, open, handles, status, writing>>

\* Mutant: the permit is dropped before the writer is spawned.
StartWriterUnbounded ==
  /\ loop = "acquiring"
  /\ writing' = writing \cup {current}
  /\ loop' = "receiving"
  /\ current' = "none"
  /\ UNCHANGED <<accepted, received, open, handles, status>>

\* acquire_owned().await, then the writer is spawned with the permit.
StartWriter ==
  /\ loop = "acquiring"
  /\ Permits > 0
  /\ writing' = writing \cup {current}
  /\ loop' = "receiving"
  /\ current' = "none"
  /\ UNCHANGED <<accepted, received, open, handles, status>>

\* Mutant: the writers are not waited for.
FlushedAtOnce ==
  /\ loop = "flushing"
  /\ status' = [status EXCEPT ![current] = "done"]
  /\ loop' = "receiving"
  /\ current' = "none"
  /\ UNCHANGED <<accepted, received, open, handles, writing>>

\* Mutant: the loop keeps the flush callback.
FlushedKeepsCallback ==
  /\ loop = "flushing"
  /\ writing = {}
  /\ loop' = "receiving"
  /\ current' = "none"
  /\ UNCHANGED <<accepted, received, open, handles, status, writing>>

\* workers.next() yields None; the flush callback is dropped.
Flushed ==
  /\ loop = "flushing"
  /\ writing = {}
  /\ status' = [status EXCEPT ![current] = "done"]
  /\ loop' = "receiving"
  /\ current' = "none"
  /\ UNCHANGED <<accepted, received, open, handles, writing>>

\* drop(write_consumer): the requests still queued are dropped, with the
\* oneshots in them.  wait() takes that for Ok(()).
DropReceiver ==
  /\ loop = "left"
  /\ open' = FALSE
  /\ received' = Len(accepted)
  /\ status' = [r \in Request |->
                  IF r \notin Queued  THEN status[r]
                  ELSE IF r \in Write THEN "lost"
                  ELSE IF r \in Flush THEN "done"
                  ELSE "refused"]
  /\ loop' = "closing"
  /\ UNCHANGED <<accepted, handles, current, writing>>

\* closing.send(..): start_shutdown returns.
Started ==
  /\ loop = "closing"
  /\ status' = IF current = "none" THEN status
               ELSE [status EXCEPT ![current] = "started"]
  /\ loop' = "draining"
  /\ UNCHANGED <<accepted, received, open, handles, current, writing>>

\* Mutant: the writers are not waited for.
ClosedAtOnce ==
  /\ loop = "draining"
  /\ status' = IF current = "none" THEN status
               ELSE [status EXCEPT ![current] = "done"]
  /\ loop' = "done"
  /\ UNCHANGED <<accepted, received, open, handles, current, writing>>

\* workers.next() yields None; callback.send(()): shutdown returns.
Closed ==
  /\ loop = "draining"
  /\ writing = {}
  /\ status' = IF current = "none" THEN status
               ELSE [status EXCEPT ![current] = "done"]
  /\ loop' = "done"
  /\ UNCHANGED <<accepted, received, open, handles, current, writing>>

WorkerLoop == Receive \/ StartWriter \/ Flushed \/ DropReceiver \/ Started \/ Closed

\* A writer ends and drops its permit.
EndWriter(w) ==
  /\ w \in writing
  /\ writing' = writing \ {w}
  /\ status' = [status EXCEPT ![w] = "done"]
  /\ UNCHANGED <<accepted, received, open, handles, loop, current>>

CacheNext ==
  \/ \E r \in Request : CallCache(r) \/ Send(r) \/ Refuse(r)
  \/ DropHandles
  \/ WorkerLoop
  \/ \E w \in Write : EndWriter(w)

CacheSpec == CacheInit /\ [][CacheNext]_cacheVars

\* tokio polls every task that was woken, an upload ends (http.rs retries a
\* bounded number of times), and senders get their slots in turn.
CacheFairness ==
  /\ \A r \in Request : SF_cacheVars(Send(r)) /\ WF_cacheVars(Refuse(r))
  /\ WF_cacheVars(WorkerLoop)
  /\ \A w \in Write : WF_cacheVars(EndWriter(w))

FairCacheSpec == CacheSpec /\ CacheFairness

-----------------------------------------------------------------------------
(* Properties.                                                             *)

\* r was accepted before q.
Before(r, q) ==
  \E j \in 1 .. Len(accepted) : \E i \in 1 .. j - 1 :
     accepted[i] = r /\ accepted[j] = q

\* put answered Ok, and the write is still to come.
Pending(w) == status[w] = "accepted"

\* At most Workers uploads run at a time.
UploadsBounded == Cardinality(writing) <= Workers

\* A write put answered Ok for is dropped only if a shutdown was accepted before
\* it: what is sent after the last flush, or before the handles are dropped, is
\* written.
LostOnlyBehindShutdown ==
  \A w \in Write : status[w] = "lost" => \E s \in Shutdown : Before(s, w)

\* wait returns only when every write accepted before it has ended, unless a
\* shutdown came between.
FlushCoversEarlierWrites ==
  \A f \in Flush, w \in Write :
    status[f] = "done" /\ Before(w, f) /\ ~(\E s \in Shutdown : Before(s, f)) =>
      status[w] = "done"

\* A shutdown that reports completion leaves no upload running, no accepted
\* write unaccounted for, and lost none accepted before it.
ShutdownCoversWrites ==
  \A s \in Shutdown : status[s] = "done" =>
    /\ writing = {}
    /\ \A w \in Write : ~Pending(w)
    /\ \A w \in Write : Before(w, s) => status[w] = "done"

\* Every call returns and every accepted write ends or is lost, with the channel
\* full, the permits taken and the loop awaiting one.
CallsReturn ==
  /\ \A w \in Write : status[w] = "sending" ~> status[w] \in {"refused", "done", "lost"}
  /\ \A r \in Flush \cup Shutdown :
       status[r] = "sending" ~> status[r] \in {"refused", "done"}
=============================================================================
