---------------------------- MODULE SignalHandler ----------------------------
(***************************************************************************)
(* The signal handler of crates/turborepo-signals/src/lib.rs.              *)
(*                                                                         *)
(* A worker task waits for the first of a signal of the operating system,  *)
(* an in-process signal (the TUI's Ctrl-C) and a close.  It publishes the  *)
(* reason, wakes those who wait for the start of the shutdown, alerts the  *)
(* subscribers, and lives until every alerted subscriber has dropped its   *)
(* guard; meanwhile it counts further signals.  close and done wait for    *)
(* the end of the worker.                                                  *)
(*                                                                         *)
(* Signals, subscribers and callers are the environment.                   *)
(***************************************************************************)
EXTENDS Naturals, FiniteSets

CONSTANTS Subscriber,    \* the calls of subscribe
          Closer,        \* the calls of close
          Starter,       \* the calls of started
          SignalStarter, \* the calls of signal_started
          MaxSignals     \* bound on the signals that arrive

ASSUME SignalAssumption == /\ MaxSignals \in Nat
                           /\ Starter \cap SignalStarter = {}

Waiter == Starter \cup SignalStarter

VARIABLES
  worker,       \* where the worker is
  chosen,       \* its local shutdown_reason
  reason,       \* SignalHandler::shutdown_reason
  is_closing,   \* HandlerState::is_closing
  sub,          \* the subscribers
  arrived,      \* signals sent so far
  pending,      \* of those, the ones nobody has read
  ended,        \* the signal source ends behind its pending signals
  signals,      \* the retained count
  handles,      \* a SignalHandler is alive
  slot,         \* the close channel holds a message
  closer,       \* the calls of close
  waiter,       \* the calls of started and signal_started
  reached       \* the Notified futures notify_waiters has reached

signalVars == <<worker, chosen, reason, is_closing, sub, arrived, pending, ended,
                signals, handles, slot, closer, waiter, reached>>

(***************************************************************************)
(* sub: "none"; "refused"; "waiting" its oneshot is in the state; "gone"   *)
(*   it was dropped before; "alerted" its guard, listened for or not, is   *)
(*   alive; "released".                                                    *)
(* pending: by source, "os" is the signal source, "tui" notify_signal.     *)
(* waiter: "created" the Notified future exists; "checked" there was no    *)
(*   reason yet; "parked" awaits the future; "never" awaits pending().     *)
(***************************************************************************)
Reason      == {"none", "signal", "close"}
Source      == {"os", "tui"}
WorkerState == {"selecting", "storing", "notifying", "alerting", "waiting", "done"}
SubState    == {"none", "refused", "waiting", "gone", "alerted", "released"}
CloserState == {"idle", "sending", "waiting", "returned"}
WaiterState == {"idle", "created", "checked", "parked", "never", "returned"}

SignalTypeOK ==
  /\ worker \in WorkerState
  /\ chosen \in Reason /\ reason \in Reason
  /\ is_closing \in BOOLEAN
  /\ sub \in [Subscriber -> SubState]
  /\ arrived \in 0 .. MaxSignals
  /\ pending \in [Source -> Nat]
  /\ ended \in BOOLEAN
  /\ signals \in Nat
  /\ handles \in BOOLEAN
  /\ slot \in BOOLEAN
  /\ closer \in [Closer -> CloserState]
  /\ waiter \in [Waiter -> WaiterState]
  /\ reached \subseteq Waiter

SignalInit ==
  /\ worker = "selecting"
  /\ chosen = "none" /\ reason = "none"
  /\ is_closing = FALSE
  /\ sub = [s \in Subscriber |-> "none"]
  /\ arrived = 0
  /\ pending = [i \in Source |-> 0]
  /\ ended = FALSE
  /\ signals = 0
  /\ handles = TRUE
  /\ slot = FALSE
  /\ closer = [k \in Closer |-> "idle"]
  /\ waiter = [o \in Waiter |-> "idle"]
  /\ reached = {}

workerVars == <<worker, chosen, reason, is_closing, signals>>
envVars    == <<arrived, ended, handles>>
callVars   == <<closer, waiter, reached>>

-----------------------------------------------------------------------------
(* Signals arrive, the source ends, the handles are dropped.               *)

SignalArrives(i) ==
  /\ arrived < MaxSignals
  /\ i = "os" => ~ended
  /\ i = "tui" => handles
  /\ arrived' = arrived + 1
  /\ pending' = [pending EXCEPT ![i] = @ + 1]
  /\ UNCHANGED <<workerVars, sub, ended, handles, slot, callVars>>

SourceEnds ==
  /\ ~ended
  /\ ended' = TRUE
  /\ UNCHANGED <<workerVars, sub, arrived, pending, handles, slot, callVars>>

DropHandles ==
  /\ handles
  /\ \A k \in Closer : closer[k] \in {"idle", "returned"}
  /\ \A o \in Waiter : waiter[o] \in {"idle", "returned"}
  /\ handles' = FALSE
  /\ UNCHANGED <<workerVars, sub, arrived, pending, ended, slot, callVars>>

-----------------------------------------------------------------------------
(* The worker.                                                             *)

\* Mutant: the arm does not count the signal.
ReadUncounted(i) ==
  /\ pending[i] > 0
  /\ pending' = [pending EXCEPT ![i] = @ - 1]
  /\ UNCHANGED signals

Read(i) ==
  /\ pending[i] > 0
  /\ pending' = [pending EXCEPT ![i] = @ - 1]
  /\ signals' = signals + 1

\* Mutant: the source of the signal is kept for the reason.
SelectRaw ==
  /\ worker = "selecting"
  /\ worker' = "storing"
  /\ \E i \in Source : Read(i) /\ chosen' = i
  /\ UNCHANGED <<reason, is_closing, sub, slot, envVars, callVars>>

\* The first select!: whichever is ready.
Select ==
  /\ worker = "selecting"
  /\ worker' = "storing"
  /\ \/ /\ \E i \in Source : Read(i)
        /\ chosen' = "signal"
        /\ UNCHANGED slot
     \/ /\ \/ ended /\ pending["os"] = 0 /\ UNCHANGED slot
           \/ ~handles /\ UNCHANGED slot
           \/ slot /\ slot' = FALSE
        /\ chosen' = "close"
        /\ UNCHANGED <<pending, signals>>
  /\ UNCHANGED <<reason, is_closing, sub, envVars, callVars>>

StoreReason ==
  /\ worker = "storing"
  /\ reason' = chosen
  /\ worker' = "notifying"
  /\ UNCHANGED <<chosen, is_closing, signals, sub, pending, slot, envVars, callVars>>

\* Mutant: only callers that already await are woken, as if they created the
\* future after the check.
NotifyWaitersParked ==
  /\ worker = "notifying"
  /\ reached' = reached \cup {o \in Waiter : waiter[o] = "parked"}
  /\ worker' = "alerting"
  /\ UNCHANGED <<chosen, reason, is_closing, signals, sub, pending, slot, envVars,
                 closer, waiter>>

\* notify_waiters wakes the Notified futures that exist.
NotifyWaiters ==
  /\ worker = "notifying"
  /\ reached' = reached \cup {o \in Waiter : waiter[o] \in {"created", "checked", "parked"}}
  /\ worker' = "alerting"
  /\ UNCHANGED <<chosen, reason, is_closing, signals, sub, pending, slot, envVars,
                 closer, waiter>>

\* Mutant: the state is not marked as closing.
AlertSubscribersUnmarked ==
  /\ worker = "alerting"
  /\ sub' = [s \in Subscriber |-> IF sub[s] = "waiting" THEN "alerted" ELSE sub[s]]
  /\ worker' = "waiting"
  /\ UNCHANGED <<chosen, reason, is_closing, signals, pending, slot, envVars, callVars>>

\* Under the mutex: no more subscribers, and an alert for each of those there.
AlertSubscribers ==
  /\ worker = "alerting"
  /\ is_closing' = TRUE
  /\ sub' = [s \in Subscriber |-> IF sub[s] = "waiting" THEN "alerted" ELSE sub[s]]
  /\ worker' = "waiting"
  /\ UNCHANGED <<chosen, reason, signals, pending, slot, envVars, callVars>>

Guarded == \E s \in Subscriber : sub[s] = "alerted"

\* The second select! counts signals, if it was one that started the shutdown.
CountSignal ==
  /\ worker = "waiting"
  /\ chosen = "signal"
  /\ \E i \in Source : Read(i)
  /\ UNCHANGED <<worker, chosen, reason, is_closing, sub, slot, envVars, callVars>>

\* Mutant: the callback of a subscriber that was dropped is awaited too.
WorkerEndsAfterGone ==
  /\ worker = "waiting"
  /\ \A s \in Subscriber : sub[s] \notin {"alerted", "gone"}
  /\ worker' = "done"
  /\ slot' = FALSE
  /\ UNCHANGED <<chosen, reason, is_closing, signals, sub, pending, envVars, callVars>>

\* callbacks is empty: the worker returns and drops the close receiver.
WorkerEnds ==
  /\ worker = "waiting"
  /\ ~Guarded
  /\ worker' = "done"
  /\ slot' = FALSE
  /\ UNCHANGED <<chosen, reason, is_closing, signals, sub, pending, envVars, callVars>>

Worker ==
  \/ Select
  \/ StoreReason
  \/ NotifyWaiters
  \/ AlertSubscribers
  \/ CountSignal
  \/ WorkerEnds

-----------------------------------------------------------------------------
(* Subscribers.                                                            *)

Subscribe(s) ==
  /\ handles
  /\ sub[s] = "none"
  /\ sub' = [sub EXCEPT ![s] = IF is_closing THEN "refused" ELSE "waiting"]
  /\ UNCHANGED <<workerVars, pending, slot, envVars, callVars>>

\* The subscriber, or the guard it got, is dropped.
Release(s) ==
  /\ \/ sub[s] = "waiting" /\ sub' = [sub EXCEPT ![s] = "gone"]
     \/ sub[s] = "alerted" /\ sub' = [sub EXCEPT ![s] = "released"]
  /\ UNCHANGED <<workerVars, pending, slot, envVars, callVars>>

-----------------------------------------------------------------------------
(* close.                                                                  *)

Close(k) ==
  /\ handles
  /\ closer[k] = "idle"
  /\ closer' = [closer EXCEPT ![k] = "sending"]
  /\ UNCHANGED <<workerVars, sub, pending, slot, envVars, waiter, reached>>

\* close.send(()).await, then done().await.
CloseSends(k) ==
  /\ closer[k] = "sending"
  /\ worker # "done" /\ ~slot
  /\ slot' = TRUE
  /\ closer' = [closer EXCEPT ![k] = "waiting"]
  /\ UNCHANGED <<workerVars, sub, pending, envVars, waiter, reached>>

\* The send fails, or close.closed() resolves.
CloseReturns(k) ==
  /\ closer[k] \in {"sending", "waiting"}
  /\ worker = "done"
  /\ closer' = [closer EXCEPT ![k] = "returned"]
  /\ UNCHANGED <<workerVars, sub, pending, slot, envVars, waiter, reached>>

-----------------------------------------------------------------------------
(* started and signal_started.                                             *)

\* self.started.notified()
WaitForStart(o) ==
  /\ handles
  /\ waiter[o] = "idle"
  /\ waiter' = [waiter EXCEPT ![o] = "created"]
  /\ UNCHANGED <<workerVars, sub, pending, slot, envVars, closer, reached>>

\* Mutant: signal_started returns for any reason.
CheckReasonAny(o) ==
  /\ waiter[o] = "created"
  /\ waiter' = [waiter EXCEPT ![o] = IF reason = "none" THEN "checked" ELSE "returned"]
  /\ UNCHANGED <<workerVars, sub, pending, slot, envVars, closer, reached>>

\* self.shutdown_reason()
CheckReason(o) ==
  /\ waiter[o] = "created"
  /\ waiter' = [waiter EXCEPT ![o] =
                  CASE reason = "none"                        -> "checked"
                    [] reason = "signal"                      -> "returned"
                    [] reason = "close" /\ o \in Starter       -> "returned"
                    [] reason = "close" /\ o \in SignalStarter -> "never"]
  /\ UNCHANGED <<workerVars, sub, pending, slot, envVars, closer, reached>>

\* started.await
Park(o) ==
  /\ waiter[o] = "checked"
  /\ waiter' = [waiter EXCEPT ![o] = "parked"]
  /\ UNCHANGED <<workerVars, sub, pending, slot, envVars, closer, reached>>

\* The Notified future resolves; signal_started goes round its loop.
Wake(o) ==
  /\ waiter[o] = "parked"
  /\ o \in reached
  /\ waiter' = [waiter EXCEPT ![o] = IF o \in Starter THEN "returned" ELSE "created"]
  /\ reached' = reached \ {o}
  /\ UNCHANGED <<workerVars, sub, pending, slot, envVars, closer>>

SignalNext ==
  \/ \E i \in Source : SignalArrives(i)
  \/ SourceEnds
  \/ DropHandles
  \/ Worker
  \/ \E s \in Subscriber : Subscribe(s) \/ Release(s)
  \/ \E k \in Closer : Close(k) \/ CloseSends(k) \/ CloseReturns(k)
  \/ \E o \in Waiter : WaitForStart(o) \/ CheckReason(o) \/ Park(o) \/ Wake(o)

SignalSpec == SignalInit /\ [][SignalNext]_signalVars

\* tokio polls every task that was woken; a subscriber that was alerted drops
\* its guard in the end (its cleanup ends, or is forced to).
SignalFairness ==
  /\ WF_signalVars(Worker)
  /\ \A s \in Subscriber : WF_signalVars(sub[s] = "alerted" /\ Release(s))
  /\ \A k \in Closer : WF_signalVars(CloseSends(k) \/ CloseReturns(k))
  /\ \A o \in Waiter : WF_signalVars(CheckReason(o) \/ Park(o) \/ Wake(o))

FairSignalSpec == SignalSpec /\ SignalFairness

-----------------------------------------------------------------------------
(* Properties.                                                             *)

\* When the worker is through, thus when close or done returns, every subscriber
\* that was admitted has been alerted and has cleaned up, or had been dropped.
DoneMeansCleanedUp ==
  worker = "done" \/ (\E k \in Closer : closer[k] = "returned") =>
    \A s \in Subscriber : sub[s] \notin {"waiting", "alerted"}

\* A subscriber that was alerted, and a caller started or signal_started woke,
\* reads the reason: run/mod.rs:948 treats "none" like a close.
AlertedKnowTheReason ==
  /\ \A s \in Subscriber : sub[s] \in {"alerted", "released"} => reason # "none"
  /\ \A o \in Starter : waiter[o] = "returned" => reason # "none"
  /\ \A o \in SignalStarter : waiter[o] = "returned" => reason = "signal"

\* A forced shutdown takes two signals, counting the one that started the
\* shutdown (run/mod.rs): it is counted before anyone is told.
FirstSignalCounted ==
  /\ reason = "signal" => signals >= 1
  /\ reason = "close" => signals = 0

\* Whoever parks has been, or will be, reached by notify_waiters: nobody read
\* "no reason" before the reason was stored and parked after the wake-up.
NoLostWakeUp ==
  \A o \in Waiter : waiter[o] = "parked" /\ worker \in {"alerting", "waiting", "done"} =>
    o \in reached

\* close returns, with its slot taken by other closes or the shutdown started by
\* a signal; started returns once there is a reason.
CloseAndStartedReturn ==
  /\ \A k \in Closer : closer[k] = "sending" ~> closer[k] = "returned"
  /\ \A o \in Starter :
       waiter[o] # "idle" /\ reason # "none" ~> waiter[o] = "returned"
=============================================================================
