------------------------------- MODULE Walker -------------------------------
(***************************************************************************)
(* The graph walker of crates/turborepo-graph-utils/src/walker.rs.         *)
(*                                                                         *)
(* Walker::new spawns one tokio task per node.  The task of node n waits   *)
(* until every dependency has broadcast its outcome, hands n to the caller *)
(* through the node channel together with a oneshot callback, waits for    *)
(* the callback and broadcasts its own outcome to the nodes that depend on *)
(* n.  A watch channel cancels the walk.                                   *)
(*                                                                         *)
(* The caller is the environment here: it receives nodes, answers or drops *)
(* their callbacks, cancels the walk, and may drop the node receiver.      *)
(* EngineExecute replaces it by Engine::execute.                           *)
(***************************************************************************)
EXTENDS Naturals, FiniteSets

CONSTANTS Node,      \* node identifiers of the graph
          Deps       \* Deps[n]: the nodes n has an outgoing edge to

\* Nodes are petgraph indices of a finite graph.
ASSUME GraphAssumption == /\ IsFiniteSet(Node)
                          /\ Deps \in [Node -> SUBSET Node]

VARIABLES
  cancelled,   \* the value in the cancel watch channel
  listening,   \* the node receiver has not been dropped
  task,        \* where each node's tokio task is
  callback,    \* the (node, oneshot) message: where it is, then what it said
  signal       \* what each node's broadcast channel delivers

walkerVars == <<cancelled, listening, task, callback, signal>>

(***************************************************************************)
(* task: "deps"     suspended in select!, to be polled again               *)
(*       "polling"  inside one poll: cancel was pending, the dependency    *)
(*                  future is polled next (other threads run in between)   *)
(*       "callback" the node was sent, awaiting callback_rx                *)
(*       "done"     the task returned and dropped its senders              *)
(* callback: "none" not sent; "queued" in the node channel; "held" by the  *)
(*       caller; TRUE/FALSE sent are "finished"/"stopped"; "dropped"       *)
(* signal: "open" nothing sent yet; "continue" Ok(true); "stop" Ok(false); *)
(*       "closed" the sender was dropped without a message                 *)
(***************************************************************************)
TaskState     == {"deps", "polling", "callback", "done"}
CallbackState == {"none", "queued", "held", "finished", "stopped", "dropped"}
SignalState   == {"open", "continue", "stop", "closed"}

WalkerTypeOK ==
  /\ cancelled \in BOOLEAN
  /\ listening \in BOOLEAN
  /\ task \in [Node -> TaskState]
  /\ callback \in [Node -> CallbackState]
  /\ signal \in [Node -> SignalState]

WalkerInit ==
  /\ cancelled = FALSE
  /\ listening = TRUE
  /\ task = [n \in Node |-> "deps"]
  /\ callback = [n \in Node |-> "none"]
  /\ signal = [n \in Node |-> "open"]

-----------------------------------------------------------------------------
(* The task of a node.                                                     *)

\* The task returns; the broadcast sender delivers s, or closes.
Return(n, s) ==
  /\ task' = [task EXCEPT ![n] = "done"]
  /\ signal' = [signal EXCEPT ![n] = s]

\* First branch of the biased select!: cancel_rx.changed().
PollCancel(n) ==
  /\ task[n] = "deps"
  /\ \/ /\ cancelled
        /\ Return(n, "closed")
     \/ /\ ~cancelled
        /\ task' = [task EXCEPT ![n] = "polling"]
        /\ UNCHANGED signal
  /\ UNCHANGED <<cancelled, listening, callback>>

DepsReady(n) == \A d \in Deps[n] : signal[d] # "open"

\* Mutant: try_recv instead of recv, a dependency that is still running counts
\* as closed.
PollDepsPendingCloses(n) ==
  /\ task[n] = "polling"
  /\ ~DepsReady(n)
  /\ Return(n, "closed")
  /\ UNCHANGED <<cancelled, listening, callback>>

\* Second branch: some dependency has not broadcast, the task is suspended.
PollDepsPending(n) ==
  /\ task[n] = "polling"
  /\ ~DepsReady(n)
  /\ task' = [task EXCEPT ![n] = "deps"]
  /\ UNCHANGED <<cancelled, listening, callback, signal>>

\* Second branch: the first result that is not Ok(true) ends the task.  The
\* results come in edge order, which is any order: a "stop" and a "closed"
\* among them race.
PollDepsSkip(n) ==
  /\ task[n] = "polling"
  /\ DepsReady(n)
  /\ \E d \in Deps[n] : /\ signal[d] \in {"stop", "closed"}
                        /\ Return(n, signal[d])
  /\ UNCHANGED <<cancelled, listening, callback>>

\* Mutant: any message of a dependency counts as continue.
PollDepsEmitEager(n) ==
  /\ task[n] = "polling"
  /\ \A d \in Deps[n] : signal[d] \in {"continue", "stop"}
  /\ listening
  /\ task' = [task EXCEPT ![n] = "callback"]
  /\ callback' = [callback EXCEPT ![n] = "queued"]
  /\ UNCHANGED <<cancelled, listening, signal>>

\* Second branch: every dependency said continue.  The node channel holds
\* every node, so the send does not block; it fails if the receiver is gone.
PollDepsEmit(n) ==
  /\ task[n] = "polling"
  /\ \A d \in Deps[n] : signal[d] = "continue"
  /\ \/ /\ listening
        /\ task' = [task EXCEPT ![n] = "callback"]
        /\ callback' = [callback EXCEPT ![n] = "queued"]
        /\ UNCHANGED signal
     \/ /\ ~listening
        /\ Return(n, "closed")
        /\ UNCHANGED callback
  /\ UNCHANGED <<cancelled, listening>>

\* Mutant: the callback's value is forwarded untranslated.
CallbackResolvedRaw(n) ==
  /\ task[n] = "callback"
  /\ callback[n] \in {"finished", "stopped", "dropped"}
  /\ Return(n, callback[n])
  /\ UNCHANGED <<cancelled, listening, callback>>

\* Mutant: a finished node returns without broadcasting.
CallbackResolvedSilently(n) ==
  /\ task[n] = "callback"
  /\ \/ callback[n] \in {"finished", "dropped"} /\ Return(n, "closed")
     \/ callback[n] = "stopped" /\ Return(n, "stop")
  /\ UNCHANGED <<cancelled, listening, callback>>

\* Mutant: the task awaits a callback that was dropped for ever.
CallbackResolvedIfSent(n) ==
  /\ task[n] = "callback"
  /\ \/ callback[n] = "finished" /\ Return(n, "continue")
     \/ callback[n] = "stopped"  /\ Return(n, "stop")
  /\ UNCHANGED <<cancelled, listening, callback>>

\* callback_rx resolves: forward the result, or close if it was dropped.
CallbackResolved(n) ==
  /\ task[n] = "callback"
  /\ \/ callback[n] = "finished" /\ Return(n, "continue")
     \/ callback[n] = "stopped"  /\ Return(n, "stop")
     \/ callback[n] = "dropped"  /\ Return(n, "closed")
  /\ UNCHANGED <<cancelled, listening, callback>>

NodeTask(n) ==
  \/ PollCancel(n)
  \/ PollDepsPending(n)
  \/ PollDepsSkip(n)
  \/ PollDepsEmit(n)
  \/ CallbackResolved(n)

-----------------------------------------------------------------------------
(* What the caller does with the walker.                                   *)

\* nodes.recv() yields n.
Receive(n) ==
  /\ listening
  /\ callback[n] = "queued"
  /\ callback' = [callback EXCEPT ![n] = "held"]
  /\ UNCHANGED <<cancelled, listening, task, signal>>

\* done.send(..), or the sender is dropped.
Answer(n, result) ==
  /\ callback[n] = "held"
  /\ callback' = [callback EXCEPT ![n] = result]
  /\ UNCHANGED <<cancelled, listening, task, signal>>

\* Walker::cancel
Cancel ==
  /\ cancelled' = TRUE
  /\ UNCHANGED <<listening, task, callback, signal>>

\* The node receiver is dropped with the messages still in it.
DropReceiver ==
  /\ listening
  /\ listening' = FALSE
  /\ callback' = [n \in Node |-> IF callback[n] = "queued" THEN "dropped"
                                                           ELSE callback[n]]
  /\ UNCHANGED <<cancelled, task, signal>>

\* Every node task has returned: the node channel closes and wait() resolves.
WalkOver == \A n \in Node : task[n] = "done"

Results == {"finished", "stopped", "dropped"}

Caller ==
  \/ \E n \in Node : Receive(n)
  \/ \E n \in Node, r \in Results : Answer(n, r)
  \/ ~cancelled /\ Cancel
  \/ DropReceiver

WalkerNext ==
  \/ \E n \in Node : NodeTask(n)
  \/ Caller

WalkerSpec == WalkerInit /\ [][WalkerNext]_walkerVars

\* tokio keeps polling a task that was woken; the caller keeps receiving and
\* answers every node it holds.  Nobody has to cancel or drop the receiver.
WalkerFairness ==
  \A n \in Node : /\ WF_walkerVars(NodeTask(n))
                  /\ WF_walkerVars(Receive(n))
                  /\ WF_walkerVars(\E r \in Results : Answer(n, r))

FairWalkerSpec == WalkerSpec /\ WalkerFairness

-----------------------------------------------------------------------------
(* Properties.                                                             *)

\* A node is handed to the caller only after the caller reported every
\* dependency finished: a stopped, dropped or unfinished dependency never has
\* a dependent emitted, whatever the order of cancels and answers.
EmittedAfterDependencies ==
  \A n \in Node : callback[n] # "none" =>
    \A d \in Deps[n] : callback[d] = "finished"

\* A node task that returns without emitting its node has a cause: the walk was
\* cancelled, the receiver dropped, or a dependency stopped or was abandoned.
Abandoned(n) == signal[n] \in {"stop", "closed"}

SkippedForAReason ==
  \A n \in Node : task[n] = "done" /\ callback[n] = "none" =>
    \/ cancelled
    \/ ~listening
    \/ \E d \in Deps[n] : Abandoned(d)

\* Without a cancel and without a dropped receiver, a walk that is over has
\* emitted exactly the nodes all of whose dependencies finished.
CompleteWalk ==
  WalkOver /\ ~cancelled /\ listening =>
    \A n \in Node : callback[n] # "none" <=>
                      \A d \in Deps[n] : callback[d] = "finished"

\* Once a node has broadcast its outcome it never changes it: a dependent that
\* subscribed late reads the same value as one that read it at once.
OutcomeIsFinal ==
  [][\A n \in Node : signal[n] # "open" => signal'[n] = signal[n]]_walkerVars

\* wait() resolves: every node task returns when the caller answers the nodes
\* it holds, cancelled or not.
WalkEnds == <>WalkOver
=============================================================================
