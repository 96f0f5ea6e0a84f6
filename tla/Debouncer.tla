----------------------------- MODULE Debouncer ------------------------------
(***************************************************************************)
(* The debouncer of crates/turborepo-filewatch/src/debouncer.rs.           *)
(*                                                                         *)
(* One task sleeps in debounce until a timeout has passed without a bump;  *)
(* any thread may bump meanwhile.  The bump counts up a serial under a     *)
(* mutex and leaves a permit in a Notify; the task learns of it from       *)
(* either, in any order, and from the timer.                               *)
(***************************************************************************)
EXTENDS Naturals

CONSTANT MaxBumps   \* bound: bumps ever made

\* The assumption of the theorems.
BumpAssumption == MaxBumps \in Nat

VARIABLES
  serial,     \* the serial under the mutex
  open,       \* it is Some: bumps are accepted
  permit,     \* the permit stored in Debouncer::bump
  debounce,   \* where the task is
  seen,       \* the serial the task saw last
  due,        \* the task's deadline has passed
  covered     \* history: the deadline was set after the last accepted bump

debouncerVars == <<serial, open, permit, debounce, seen, due, covered>>

(***************************************************************************)
(* debounce: "start" not called; "select" suspended in select!; "notified" *)
(*   and "timeout" that branch was taken, the mutex is not locked yet;     *)
(*   "done" returned.                                                      *)
(***************************************************************************)
DebounceState == {"start", "select", "notified", "timeout", "done"}

DebouncerTypeOK ==
  /\ serial \in 0 .. MaxBumps
  /\ open \in BOOLEAN
  /\ permit \in BOOLEAN
  /\ debounce \in DebounceState
  /\ seen \in 0 .. MaxBumps
  /\ due \in BOOLEAN
  /\ covered \in BOOLEAN

DebouncerInit ==
  /\ serial = 0
  /\ open = TRUE
  /\ permit = FALSE
  /\ debounce = "start"
  /\ seen = 0
  /\ due = FALSE
  /\ covered = FALSE

\* A bump that returns true.  One that returns false changes nothing.
Bump ==
  /\ open
  /\ serial < MaxBumps
  /\ serial' = serial + 1
  /\ permit' = TRUE
  /\ covered' = FALSE
  /\ UNCHANGED <<open, debounce, seen, due>>

\* Mutant: the timer is started again, the serial is not noted.
StartTimerUnseen ==
  /\ debounce' = "select"
  /\ due' = FALSE
  /\ covered' = TRUE
  /\ UNCHANGED <<serial, open, permit, seen>>

\* The task notes the serial and starts its timer again.
StartTimer ==
  /\ debounce' = "select"
  /\ seen' = serial
  /\ due' = FALSE
  /\ covered' = TRUE
  /\ UNCHANGED <<serial, open, permit>>

Begin == debounce = "start" /\ StartTimer

DeadlinePasses ==
  /\ debounce = "select"
  /\ ~due
  /\ due' = TRUE
  /\ UNCHANGED <<serial, open, permit, debounce, seen, covered>>

TakePermit ==
  /\ debounce = "select"
  /\ permit
  /\ permit' = FALSE
  /\ debounce' = "notified"
  /\ UNCHANGED <<serial, open, seen, due, covered>>

\* A notification for a bump the task has seen is ignored.
Notified ==
  /\ debounce = "notified"
  /\ \/ serial # seen /\ StartTimer
     \/ /\ serial = seen
        /\ debounce' = "select"
        /\ UNCHANGED <<serial, open, permit, seen, due, covered>>

TakeTimeout ==
  /\ debounce = "select"
  /\ due
  /\ debounce' = "timeout"
  /\ UNCHANGED <<serial, open, permit, seen, due, covered>>

Close ==
  /\ open' = FALSE
  /\ debounce' = "done"
  /\ UNCHANGED <<serial, permit, seen, due, covered>>

\* Mutant: the timer ends the wait whatever was bumped.
TimedOutAnyway == debounce = "timeout" /\ Close

\* A bump the task was not notified of yet restarts the timer.
TimedOut ==
  /\ debounce = "timeout"
  /\ \/ serial = seen /\ Close
     \/ serial # seen /\ StartTimer

Debounce == Begin \/ TakePermit \/ Notified \/ TakeTimeout \/ TimedOut

DebouncerNext == Bump \/ DeadlinePasses \/ Debounce

DebouncerSpec == DebouncerInit /\ [][DebouncerNext]_debouncerVars

\* tokio polls a task that was woken, the timer fires, and of two branches of
\* select! that are ready it takes either.
DebouncerFairness ==
  /\ WF_debouncerVars(DeadlinePasses)
  /\ WF_debouncerVars(Debounce)

FairDebouncerSpec == DebouncerSpec /\ DebouncerFairness

-----------------------------------------------------------------------------
(* Properties.                                                             *)

\* Callers rely on a bump that returned true being waited out: the wait ends only
\* when a whole timeout has passed since the last accepted bump, though its
\* notification may come after the timer or belong to a bump seen before.
QuietBeforeClose == ~open => covered

\* When bumps stop, debounce returns.
DebounceReturns == <>(debounce = "done")
=============================================================================
