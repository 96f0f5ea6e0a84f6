--------------------------- MODULE RunShutdownProofs ---------------------------
(***************************************************************************)
(* The signal handler for every number of subscribers, closes, waiters and *)
(* signals; and the end of `turbo run` on top of it: it exits clean, and   *)
(* is forced only on request.                                              *)
(***************************************************************************)
EXTENDS RunShutdown, TLAPS

-----------------------------------------------------------------------------
(* The signal handler.                                                     *)

\* The reason is stored; the waiters are woken.
Told     == worker \in {"notifying", "alerting", "waiting", "done"}
Woken    == worker \in {"alerting", "waiting", "done"}

\* Where the worker is fixes what it has published.
WorkerInv ==
  /\ worker = "selecting" => chosen = "none"
  /\ worker # "selecting" => chosen \in {"signal", "close"}
  /\ reason = IF Told THEN chosen ELSE "none"
  /\ is_closing <=> worker \in {"waiting", "done"}
  /\ chosen = "signal" => signals > 0
  /\ chosen # "signal" => signals = 0

\* What a subscriber can be, before and after the state is closing.
SubscriberInv(s) ==
  /\ sub[s] \in {"alerted", "released", "refused"} => is_closing
  /\ sub[s] = "waiting" => ~is_closing
  /\ worker = "done" => sub[s] # "alerted"

\* A caller that read "no reason" was there when notify_waiters was called.
WaiterInv(o) ==
  /\ o \in reached => Woken
  /\ Woken /\ waiter[o] \in {"checked", "parked"} => o \in reached
  /\ waiter[o] = "returned" /\ o \in Starter => Told
  /\ waiter[o] = "returned" /\ o \in SignalStarter => reason = "signal"

\* Every signal that arrived is counted or still to be read.
CountInv == signals + pending["os"] + pending["tui"] = arrived

SignalInv ==
  /\ SignalTypeOK
  /\ WorkerInv
  /\ \A s \in Subscriber : SubscriberInv(s)
  /\ \A o \in Waiter : WaiterInv(o)
  /\ \A k \in Closer : closer[k] = "returned" => worker = "done"
  /\ CountInv

-----------------------------------------------------------------------------
(* The signal handler keeps its invariant.                                 *)

\* The handler starts with the invariant.
LEMMA SignalInvInit == SignalInit => SignalInv
<1> SUFFICES ASSUME SignalInit PROVE SignalInv
  OBVIOUS
<1> USE DEF SignalInit
<1>1. SignalTypeOK
  <2>1. arrived \in 0 .. MaxSignals /\ signals \in Nat /\ pending \in [Source -> Nat]
    BY SignalAssumption DEF SignalAssumption
  <2>2. sub \in [Subscriber -> SubState]
    BY DEF SubState
  <2>3. closer \in [Closer -> CloserState] /\ waiter \in [Waiter -> WaiterState]
    BY DEF CloserState, WaiterState
  <2> QED
    BY <2>1, <2>2, <2>3 DEF SignalTypeOK, WorkerState, Reason
<1>2. WorkerInv
  BY DEF WorkerInv, Told
<1>3. CountInv
  BY DEF CountInv, Source
<1> QED
  BY <1>1, <1>2, <1>3 DEF SignalInv, SubscriberInv, WaiterInv, Woken

\* Signals arrive, the source ends, the handles are dropped.
LEMMA ArrivalKeepsInv ==
  ASSUME SignalInv,
         (\E i \in Source : SignalArrives(i)) \/ SourceEnds \/ DropHandles
  PROVE  SignalInv'
<1> USE DEF SignalInv, SignalArrives, SourceEnds, DropHandles, workerVars, envVars, callVars
<1>1. SignalTypeOK'
  <2>1. ASSUME NEW i \in Source, SignalArrives(i) PROVE SignalTypeOK'
    BY <2>1, SignalAssumption DEF SignalTypeOK, SignalAssumption
  <2>2. CASE SourceEnds \/ DropHandles
    BY <2>2 DEF SignalTypeOK
  <2> QED
    BY <2>1, <2>2
<1>2. WorkerInv'
  BY DEF WorkerInv, Told
<1>3. ASSUME NEW s \in Subscriber PROVE SubscriberInv(s)'
  BY DEF SubscriberInv
<1>4. ASSUME NEW o \in Waiter PROVE WaiterInv(o)'
  BY DEF WaiterInv, Woken, Told
<1>5. CountInv'
  BY DEF SignalTypeOK, CountInv, Source
<1> QED
  BY <1>1, <1>2, <1>3, <1>4, <1>5

\* A step of the worker.
LEMMA WorkerKeepsInv ==
  ASSUME SignalInv, Worker
  PROVE  SignalInv'
<1> USE DEF SignalInv, Worker, Select, Read, StoreReason, NotifyWaiters, AlertSubscribers,
        CountSignal, WorkerEnds, Guarded, workerVars, envVars, callVars
<1>1. SignalTypeOK'
  <2> USE DEF SignalTypeOK
  <2>1. CASE Select \/ CountSignal
    <3>1. ASSUME NEW i \in Source, Read(i)
          PROVE  pending' \in [Source -> Nat] /\ signals' \in Nat
      BY <3>1
    <3>2. pending' \in [Source -> Nat] /\ signals' \in Nat
      BY <2>1, <3>1
    <3> HIDE DEF Read
    <3> QED
      BY <2>1, <3>2 DEF WorkerState, Reason
  <2>2. CASE StoreReason \/ NotifyWaiters
    BY <2>2 DEF WorkerState
  <2>3. CASE AlertSubscribers \/ WorkerEnds
    BY <2>3 DEF WorkerState, SubState
  <2> QED
    BY <2>1, <2>2, <2>3
<1>2. WorkerInv'
  BY DEF SignalTypeOK, WorkerInv, Told
<1>3. ASSUME NEW s \in Subscriber PROVE SubscriberInv(s)'
  BY DEF SignalTypeOK, WorkerInv, SubscriberInv
<1>4. ASSUME NEW o \in Waiter PROVE WaiterInv(o)'
  BY DEF SignalTypeOK, WorkerInv, WaiterInv, Woken, Told
<1>5. CountInv'
  BY DEF SignalTypeOK, CountInv, Source
<1>6. ASSUME NEW k \in Closer, closer'[k] = "returned" PROVE worker' = "done"
  BY <1>6
<1> QED
  BY <1>1, <1>2, <1>3, <1>4, <1>5, <1>6

\* A subscriber comes or goes.
LEMMA SubscriberKeepsInv ==
  ASSUME SignalInv, NEW s \in Subscriber, Subscribe(s) \/ Release(s)
  PROVE  SignalInv'
<1> USE DEF SignalInv, Subscribe, Release, workerVars, envVars, callVars
<1>1. SignalTypeOK'
  BY DEF SignalTypeOK, SubState
<1>2. WorkerInv'
  BY DEF WorkerInv, Told
<1>3. ASSUME NEW r \in Subscriber PROVE SubscriberInv(r)'
  BY DEF SignalTypeOK, SubscriberInv
<1>4. ASSUME NEW o \in Waiter PROVE WaiterInv(o)'
  BY DEF WaiterInv, Woken, Told
<1>5. CountInv'
  BY DEF CountInv
<1> QED
  BY <1>1, <1>2, <1>3, <1>4, <1>5

\* A step of a close.
LEMMA CloserKeepsInv ==
  ASSUME SignalInv, NEW k \in Closer, Close(k) \/ CloseSends(k) \/ CloseReturns(k)
  PROVE  SignalInv'
<1> USE DEF SignalInv, Close, CloseSends, CloseReturns, workerVars, envVars
<1>1. SignalTypeOK'
  BY DEF SignalTypeOK, CloserState
<1>2. WorkerInv'
  BY DEF WorkerInv, Told
<1>3. ASSUME NEW s \in Subscriber PROVE SubscriberInv(s)'
  BY DEF SubscriberInv
<1>4. ASSUME NEW o \in Waiter PROVE WaiterInv(o)'
  BY DEF WaiterInv, Woken, Told
<1>5. CountInv'
  BY DEF CountInv
<1>6. ASSUME NEW c \in Closer, closer'[c] = "returned" PROVE worker' = "done"
  BY <1>6 DEF SignalTypeOK
<1> QED
  BY <1>1, <1>2, <1>3, <1>4, <1>5, <1>6

\* A step of a caller that waits for the start of the shutdown.
LEMMA WaiterKeepsInv ==
  ASSUME SignalInv, NEW o \in Waiter,
         WaitForStart(o) \/ CheckReason(o) \/ Park(o) \/ Wake(o)
  PROVE  SignalInv'
<1> USE DEF SignalInv, WaitForStart, CheckReason, Park, Wake, workerVars, envVars
<1>1. SignalTypeOK'
  BY DEF SignalTypeOK, WaiterState, Reason, Waiter
<1>2. WorkerInv'
  BY DEF WorkerInv, Told
<1>3. ASSUME NEW s \in Subscriber PROVE SubscriberInv(s)'
  BY DEF SubscriberInv
<1>4. ASSUME NEW w \in Waiter PROVE WaiterInv(w)'
  BY SignalAssumption DEF SignalAssumption, SignalTypeOK, WorkerInv, WaiterInv, Woken, Told, Waiter
<1>5. CountInv'
  BY DEF CountInv
<1> QED
  BY <1>1, <1>2, <1>3, <1>4, <1>5

\* Every step keeps the invariant.
LEMMA SignalInvNext == SignalInv /\ [SignalNext]_signalVars => SignalInv'
<1> SUFFICES ASSUME SignalInv, [SignalNext]_signalVars PROVE SignalInv'
  OBVIOUS
<1>1. CASE UNCHANGED signalVars
  BY <1>1 DEF signalVars, SignalInv, SignalTypeOK, WorkerInv, SubscriberInv, WaiterInv, Told,
     Woken, CountInv
<1> QED
  BY <1>1, ArrivalKeepsInv, WorkerKeepsInv, SubscriberKeepsInv, CloserKeepsInv, WaiterKeepsInv
  DEF SignalNext

\* The inductive invariant of the signal handler.
THEOREM SignalInvariant == SignalSpec => []SignalInv
  BY SignalInvInit, SignalInvNext, PTL DEF SignalSpec

\* When the worker is through, and thus when close returns, every subscriber that
\* was admitted was alerted and has cleaned up, for any number of them.
LEMMA CleanedUpWhenDone == SignalInv => DoneMeansCleanedUp
  BY DEF SignalInv, WorkerInv, SubscriberInv, DoneMeansCleanedUp

\* The worker is done only when every subscriber dropped its guard.
THEOREM DoneIsCleanedUp == SignalSpec => []DoneMeansCleanedUp
  BY SignalInvariant, CleanedUpWhenDone, PTL

\* Whoever is alerted or woken finds the reason.
THEOREM ReasonIsKnown == SignalSpec => []AlertedKnowTheReason
<1>1. SignalInv => AlertedKnowTheReason
  BY DEF SignalInv, WorkerInv, SubscriberInv, WaiterInv, Waiter, Told, AlertedKnowTheReason
<1> QED
  BY <1>1, SignalInvariant, PTL

\* The signal that starts the shutdown is counted before anyone hears of it.
THEOREM FirstSignalIsCounted == SignalSpec => []FirstSignalCounted
<1>1. SignalInv => FirstSignalCounted
  BY DEF SignalInv, SignalTypeOK, WorkerInv, FirstSignalCounted
<1> QED
  BY <1>1, SignalInvariant, PTL

\* No caller parks after the wake-up it waits for, however started and
\* signal_started interleave with the worker.
LEMMA ParkedAreReached == SignalInv => NoLostWakeUp
  BY DEF SignalInv, WaiterInv, Woken, NoLostWakeUp

\* A waiter that is parked is reached by the wake-up that is to come.
THEOREM NoWakeUpIsLost == SignalSpec => []NoLostWakeUp
  BY SignalInvariant, ParkedAreReached, PTL

-----------------------------------------------------------------------------
(* The run.                                                                *)

\* A handler listens until it is alerted, and gives its guard back when it is
\* through, or forced to.
HandlerInv ==
  /\ \A h \in Subscriber : sub[h] = "released" => handler[h] # "listening"
  /\ handler[CacheHandler] \in {"patient", "forcible"} => sub[CacheHandler] = "alerted"
  /\ handler[CacheHandler] \in {"forced", "done"} => sub[CacheHandler] = "released"
  /\ handler[ProcessHandler] \in {"patient", "forcible", "forced"} =>
       sub[ProcessHandler] = "alerted"
  /\ handler[ProcessHandler] = "done" => sub[ProcessHandler] = "released"
  /\ \A h \in Subscriber : handler[h] \in {"forcible", "forced"} => reason = "signal"
  /\ \A h \in Subscriber : handler[h] = "forced" => Forced

\* What is left of the processes and the uploads; once the
\* process manager is closing no process runs that was not told to end.
CleanInv ==
  /\ run \in {"building", "cache", "processes", "ready"} => process = "none"
  /\ run = "finished" => ~Alive
  /\ handler[ProcessHandler] # "listening" => closed
  /\ closed => process # "running"
  /\ handler[CacheHandler] # "listening" => cache_closed
  /\ handler[CacheHandler] = "done" => uploads # "busy"

\* The command exits after the run and the signal handler.
CommandInv ==
  /\ command \in {"done", "closing", "exited"} => run = "finished"
  /\ command = "exited" => worker = "done"

-----------------------------------------------------------------------------
(* The run is a caller of the signal handler.                              *)

\* What a step of the run does to the signal handler, the handler can do.
LEMMA RunStepIsSignalStep ==
  ASSUME [RunShutdownNext]_runShutdownVars
  PROVE  [SignalNext]_signalVars
<1> USE DEF SignalNext
<1>1. CommandWait \in Waiter /\ CommandClose \in Closer
  BY RunShutdownAssumption DEF RunShutdownAssumption, Waiter
<1>2. CacheHandler \in Subscriber /\ ProcessHandler \in Subscriber
  BY RunShutdownAssumption DEF RunShutdownAssumption
<1>3. CASE HandlerStep \/ Signal
  BY <1>1, <1>3 DEF HandlerStep, Signal
<1>4. CASE Command
  BY <1>1, <1>4 DEF Command, CommandInterrupted, CommandCompleted, CommandRunEnded, CommandExits
<1>5. CASE Run \/ SaveOutputs \/ ProcessExits \/ UploadEnds
  BY <1>2, <1>5 DEF Run, Build, SubscribeHandler, StartTasks, RunEnds, SaveOutputs,
     ProcessExits, UploadEnds
<1>6. CASE Handler
  BY <1>2, <1>6 DEF Handler, CacheAlerted, CacheFlushed, CacheForced, ProcessesAlerted,
     ProcessesForced, ProcessesStopped
<1>7. CASE UNCHANGED runShutdownVars
  BY <1>7 DEF runShutdownVars
<1> QED
  BY <1>3, <1>4, <1>5, <1>6, <1>7 DEF RunShutdownNext

\* The run uses the signal handler as the handler allows: what SignalHandler shows
\* for any subscribers, closes and waiters holds of the run's.
THEOREM RunIsSignalCaller == RunShutdownSpec => SignalSpec
<1>1. RunShutdownInit => SignalInit
  BY DEF RunShutdownInit
<1> QED
  BY <1>1, RunStepIsSignalStep, PTL DEF RunShutdownSpec, SignalSpec

\* Nor is one of the run's waiters missed.
THEOREM RunLosesNoWakeUp == RunShutdownSpec => []NoLostWakeUp
  BY RunIsSignalCaller, NoWakeUpIsLost, PTL

-----------------------------------------------------------------------------
(* The run keeps its invariant.                                            *)

\* The types of the variables of the run.
RunVarsType ==
  /\ interactive \in BOOLEAN
  /\ command \in {"selecting", "interrupted", "done", "closing", "exited"}
  /\ run \in {"building", "cache", "processes", "ready", "visiting", "finished"}
  /\ process \in {"none", "running", "graceful", "ending", "gone"}
  /\ closed \in BOOLEAN /\ cache_closed \in BOOLEAN
  /\ uploads \in {"none", "busy", "stored"}
  /\ handler \in [Subscriber -> {"listening", "patient", "forcible", "forced", "done"}]

\* The inductive invariant of the run, beside that of the signal handler.
RunInv == RunVarsType /\ HandlerInv /\ CleanInv /\ CommandInv

\* The run begins with the invariant.
LEMMA RunInvInit == RunShutdownInit => RunInv
<1> SUFFICES ASSUME RunShutdownInit PROVE RunInv
  OBVIOUS
<1> USE RunShutdownAssumption DEF RunShutdownAssumption, RunShutdownInit, SignalInit
<1>1. RunVarsType
  BY DEF RunVarsType
<1>2. HandlerInv
  BY DEF HandlerInv
<1> QED
  BY <1>1, <1>2 DEF RunInv, CleanInv, CommandInv, Alive

\* A step of the signal handler: a subscriber is at most alerted, the reason and
\* the count of signals are never taken back.
LEMMA HandlerStepKeepsInv ==
  ASSUME SignalInv, RunInv, HandlerStep \/ Signal
  PROVE  RunInv'
<1> USE RunShutdownAssumption DEF RunShutdownAssumption, RunInv, HandlerStep, Signal,
        commandVars, runVars, workerVars, envVars, callVars
<1>0. UNCHANGED <<commandVars, runVars, handler>>
  OBVIOUS
<1>1. \A s \in Subscriber : sub'[s] = sub[s] \/ (sub[s] = "waiting" /\ sub'[s] = "alerted")
  <2>1. CASE AlertSubscribers
    BY <2>1 DEF AlertSubscribers, SignalInv, SignalTypeOK
  <2>2. CASE ~AlertSubscribers
    BY <2>2 DEF Worker, Select, StoreReason, NotifyWaiters, CountSignal, WorkerEnds,
       CloseSends, CloseReturns, WaitForStart, CheckReason, Park, Wake, SignalArrives
  <2> QED
    BY <2>1, <2>2
<1>2. reason = "signal" => reason' = "signal"
  BY DEF Worker, Select, StoreReason, NotifyWaiters, AlertSubscribers, CountSignal, WorkerEnds,
     CloseSends, CloseReturns, WaitForStart, CheckReason, Park, Wake, SignalArrives,
     SignalInv, WorkerInv, Told
<1>3. signals > 1 => signals' > 1
  BY DEF Worker, Select, Read, StoreReason, NotifyWaiters, AlertSubscribers, CountSignal,
     WorkerEnds, CloseSends, CloseReturns, WaitForStart, CheckReason, Park, Wake,
     SignalArrives, SignalInv, SignalTypeOK
<1>4. worker = "done" => worker' = "done"
  BY DEF Worker, Select, StoreReason, NotifyWaiters, AlertSubscribers, CountSignal, WorkerEnds,
     CloseSends, CloseReturns, WaitForStart, CheckReason, Park, Wake, SignalArrives
<1> HIDE DEF HandlerStep, Signal
<1>5. HandlerInv'
  BY <1>0, <1>1, <1>2, <1>3 DEF HandlerInv, Forced, RunVarsType
<1>6. RunVarsType' /\ CleanInv' /\ CommandInv'
  BY <1>0, <1>4 DEF RunVarsType, CleanInv, CommandInv, Alive
<1> QED
  BY <1>5, <1>6

\* A step of the command.
LEMMA CommandKeepsInv ==
  ASSUME SignalInv, RunInv, Command
  PROVE  RunInv'
<1> USE DEF RunInv, Command, CommandInterrupted, CommandCompleted, CommandRunEnded,
        CommandExits, signalVars, runVars
<1>1. RunVarsType'
  BY DEF RunVarsType
<1>2. HandlerInv'
  BY DEF HandlerInv, Forced, Close, workerVars
<1>3. CleanInv'
  BY DEF CleanInv, Alive
<1>4. CommandInv'
  BY RunShutdownAssumption DEF RunShutdownAssumption, CommandInv, SignalInv
<1> QED
  BY <1>1, <1>2, <1>3, <1>4

\* A step of the run, of its tasks or of its uploads.
LEMMA RunKeepsInv ==
  ASSUME SignalInv, RunInv, Run \/ SaveOutputs \/ ProcessExits \/ UploadEnds
  PROVE  RunInv'
<1> USE RunShutdownAssumption DEF RunShutdownAssumption, RunInv, Run, Build, SubscribeHandler,
        StartTasks, RunEnds, SaveOutputs, ProcessExits, UploadEnds, Alive, signalVars,
        commandVars, Subscribe, workerVars
<1>1. RunVarsType'
  BY DEF RunVarsType
<1>2. HandlerInv'
  BY DEF HandlerInv, Forced, SignalInv, SignalTypeOK
<1>3. CleanInv'
  BY DEF CleanInv
<1>4. CommandInv'
  BY DEF CommandInv
<1> QED
  BY <1>1, <1>2, <1>3, <1>4

\* A step of a shutdown handler.
LEMMA ShutdownKeepsInv ==
  ASSUME SignalInv, RunInv, Handler
  PROVE  RunInv'
<1> USE RunShutdownAssumption DEF RunShutdownAssumption, RunInv, Handler, CacheAlerted,
        CacheFlushed, CacheForced, ProcessesAlerted, ProcessesForced, ProcessesStopped,
        Alerted, Becomes, Release, signalVars, commandVars, runVars, workerVars
<1>1. RunVarsType'
  <2>1. UNCHANGED <<interactive, command, run, uploads>>
    OBVIOUS
  <2>2. process' \in {"none", "running", "graceful", "ending", "gone"}
    BY DEF RunVarsType
  <2>3. closed' \in BOOLEAN /\ cache_closed' \in BOOLEAN
    BY DEF RunVarsType
  <2>4. \E h \in Subscriber : \E state \in {"patient", "forcible", "forced", "done"} :
          handler' = [handler EXCEPT ![h] = state]
    OBVIOUS
  <2>5. handler' \in [Subscriber -> {"listening", "patient", "forcible", "forced", "done"}]
    BY <2>4 DEF RunVarsType
  <2> QED
    BY <2>1, <2>2, <2>3, <2>5 DEF RunVarsType
<1>2. HandlerInv'
  BY DEF HandlerInv, RunVarsType, Forced, SignalInv, SignalTypeOK
<1>3. CleanInv'
  <2> USE DEF RunVarsType, CleanInv, Alive
  <2>1. CASE CacheAlerted \/ CacheFlushed \/ CacheForced
    BY <2>1
  <2>2. CASE ProcessesAlerted
    BY <2>2
  <2>3. CASE ProcessesForced \/ ProcessesStopped
    BY <2>3
  <2> QED
    BY <2>1, <2>2, <2>3
<1>4. CommandInv'
  BY DEF CommandInv
<1> QED
  BY <1>1, <1>2, <1>3, <1>4

\* Every step keeps the invariant.
LEMMA RunInvNext ==
  SignalInv /\ RunInv /\ [RunShutdownNext]_runShutdownVars => RunInv'
<1> SUFFICES ASSUME SignalInv, RunInv, [RunShutdownNext]_runShutdownVars
             PROVE  RunInv'
  OBVIOUS
<1>1. CASE UNCHANGED runShutdownVars
  BY <1>1 DEF runShutdownVars, signalVars, commandVars, runVars, RunInv, RunVarsType,
     HandlerInv, CleanInv, CommandInv, Forced, Alive
<1> QED
  BY <1>1, HandlerStepKeepsInv, CommandKeepsInv, RunKeepsInv, ShutdownKeepsInv
  DEF RunShutdownNext

\* The inductive invariant of the run and its shutdown.
THEOREM RunShutdownInvariant == RunShutdownSpec => [](SignalInv /\ RunInv)
<1>1. RunShutdownSpec => []SignalInv
  BY RunIsSignalCaller, SignalInvariant, PTL
<1> QED
  BY <1>1, RunInvInit, RunInvNext, PTL DEF RunShutdownSpec

\* Type correctness of the run and its shutdown.
THEOREM RunShutdownTypeCorrect == RunShutdownSpec => []RunShutdownTypeOK
<1>1. SignalInv /\ RunInv => RunShutdownTypeOK
  BY DEF SignalInv, RunInv, RunVarsType, RunShutdownTypeOK
<1> QED
  BY <1>1, RunShutdownInvariant, PTL

\* When the command exits no process of the run is alive, and what was put into
\* the cache is stored unless its handler was refused or forced.
THEOREM ExitIsClean == RunShutdownSpec => []ExitedMeansClean
<1>1. SignalInv /\ RunInv => ExitedMeansClean
  <2> SUFFICES ASSUME SignalInv, RunInv, command = "exited"
               PROVE  /\ ~Alive
                      /\ Admitted(CacheHandler) /\ handler[CacheHandler] # "forced" =>
                           uploads # "busy"
    BY DEF ExitedMeansClean
  <2>1. ~Alive /\ worker = "done"
    BY DEF RunInv, CommandInv, CleanInv
  <2>2. ASSUME Admitted(CacheHandler) PROVE sub[CacheHandler] = "released"
    <3>1. CacheHandler \in Subscriber
      BY RunShutdownAssumption DEF RunShutdownAssumption
    <3> QED
      BY <2>1, <2>2, <3>1, CleanedUpWhenDone DEF DoneMeansCleanedUp, Admitted
  <2>3. ASSUME sub[CacheHandler] = "released", handler[CacheHandler] # "forced"
        PROVE  handler[CacheHandler] = "done"
    BY <2>3, RunShutdownAssumption
    DEF RunShutdownAssumption, RunInv, RunVarsType, HandlerInv
  <2> QED
    BY <2>1, <2>2, <2>3 DEF RunInv, CleanInv
<1> QED
  BY <1>1, RunShutdownInvariant, PTL

\* A handler is forced only after a signal, and at a terminal only after a second.
THEOREM ForcedOnRequest == RunShutdownSpec => []ForcedOnlyOnRequest
<1>1. SignalInv /\ RunInv => ForcedOnlyOnRequest
  <2>1. ASSUME SignalInv, signals > 1 PROVE arrived > 1
    BY <2>1 DEF SignalInv, SignalTypeOK, CountInv, Source
  <2> QED
    BY <2>1 DEF RunInv, HandlerInv, Forced, ForcedOnlyOnRequest
<1> QED
  BY <1>1, RunShutdownInvariant, PTL

-----------------------------------------------------------------------------
(* The run uses the process manager as its contract allows.                *)

\* A step of the run or of its handlers starts the process, closes the manager,
\* or leaves what the contract tells of the process as it is.
LEMMA RunTouchesProcess ==
  ASSUME SignalInv, RunInv, [RunShutdownNext]_runShutdownVars
  PROVE  \/ ~closed /\ process = "none" /\ process' = "running" /\ UNCHANGED closed
         \/ /\ closed' = TRUE
            /\ SeenProcess' = IF process = "running" THEN "closing" ELSE SeenProcess
         \/ Alive /\ process' = "gone" /\ UNCHANGED closed
         \/ UNCHANGED <<SeenProcess, closed>>
<1> USE DEF SeenProcess, Alive, RunInv, RunVarsType, runVars
<1>1. CASE HandlerStep \/ Signal
  BY <1>1 DEF HandlerStep, Signal
<1>2. CASE Command
  BY <1>2 DEF Command, CommandInterrupted, CommandCompleted, CommandRunEnded, CommandExits
<1>3. CASE Run
  BY <1>3 DEF Run, Build, SubscribeHandler, StartTasks, RunEnds, CleanInv
<1>4. CASE SaveOutputs \/ ProcessExits \/ UploadEnds
  BY <1>4 DEF SaveOutputs, ProcessExits, UploadEnds
<1>5. CASE Handler
  BY <1>5 DEF Handler, CacheAlerted, CacheFlushed, CacheForced, ProcessesAlerted,
     ProcessesForced, ProcessesStopped, CleanInv
<1>6. CASE UNCHANGED runShutdownVars
  BY <1>6 DEF runShutdownVars
<1> QED
  BY <1>1, <1>2, <1>3, <1>4, <1>5, <1>6 DEF RunShutdownNext

\* Every step of the run is a step of the contract, or is not seen there.
LEMMA RunStepIsContractStep ==
  ASSUME SignalInv, RunInv, [RunShutdownNext]_runShutdownVars
  PROVE  [Contract!ContractNext]_(Contract!contractVars)
<1> USE DEF Contract!ContractNext, Contract!contractVars
<1>1. CASE ~closed /\ process = "none" /\ process' = "running" /\ UNCHANGED closed
  <2>1. Contract!Spawn("tasks")
    BY <1>1 DEF Contract!Spawn, SeenProcess
  <2> QED
    BY <2>1
<1>2. CASE /\ closed' = TRUE
           /\ SeenProcess' = IF process = "running" THEN "closing" ELSE SeenProcess
  <2>1. SeenProcess = "running" <=> process = "running"
    BY DEF SeenProcess
  <2>2. Contract!Close
    BY <1>2, <2>1 DEF Contract!Close
  <2> QED
    BY <2>2
<1>3. CASE Alive /\ process' = "gone" /\ UNCHANGED closed
  <2>1. Contract!Exits("tasks")
    BY <1>3 DEF Contract!Exits, Contract!Alive, SeenProcess, Alive
  <2> QED
    BY <2>1
<1>4. CASE UNCHANGED <<SeenProcess, closed>>
  BY <1>4
<1> QED
  BY <1>1, <1>2, <1>3, <1>4, RunTouchesProcess

\* The run and its shutdown handlers do to the processes only what the contract of
\* the process manager allows: nothing is spawned once it is closing, and a handler
\* that stops or kills finds no process that a close has not reached.
THEOREM ShutdownKeepsContract == RunShutdownSpec => Contract!ContractSpec
<1>1. RunShutdownInit => Contract!ContractInit
  BY DEF RunShutdownInit, Contract!ContractInit, SeenProcess
<1> QED
  BY <1>1, RunStepIsContractStep, RunShutdownInvariant, PTL
  DEF RunShutdownSpec, Contract!ContractSpec
=============================================================================
