------------------------------ MODULE PlanResume ------------------------------
(***************************************************************************)
(* A plan across turns: PlanResumeService (Capture, TryLoad, ApplyReply),  *)
(* the checkpoint store, and the turn that uses them in IndustrialAgentV2  *)
(* (TryResumePausedPlanAsync, RunPlanAsync).                               *)
(*                                                                         *)
(* A turn is one message of the user.  When the store holds a checkpoint   *)
(* with a node that awaits a clarification, the message is taken as its    *)
(* answer and the run goes on from the stored state; an answer that cannot *)
(* be used clears the checkpoint and the message becomes a task of its     *)
(* own.  Otherwise the message starts a plan.  The executor is             *)
(* PlanScheduler; the process may die between any two steps.               *)
(***************************************************************************)
EXTENDS PlanScheduler

CONSTANTS
    Silent,       \* nodes that complete without any output text
    MaxMessages,  \* bound: messages of the user
    MaxCrashes    \* bound: crashes of the process

ASSUME ResumeAssumption ==
    Silent \subseteq Node /\ MaxMessages \in Nat \ {0} /\ MaxCrashes \in Nat

VARIABLES
    turn,      \* "idle", "fresh" or "resumed"
    store,     \* the session's checkpoint file
    outputs,   \* ctx.NodeOutputs: the nodes whose output the turn holds
    planId,    \* identity of the plan in memory
    messages,  \* number of messages so far
    crashes,   \* number of crashes so far
    effects,   \* history: how often each node of each plan completed
    answered,  \* history: the nodes of each plan whose question was answered
    dropped    \* history: plans whose checkpoint no longer tells their state

historyVars == <<effects, answered, dropped>>
resumeVars == <<turn, store, outputs, planId, messages, crashes, historyVars>>
allVars == <<vars, resumeVars>>

PlanIds == 1..MaxMessages

NoCheckpoint == [id |-> 0]

\* Mutant of Snapshot: the outputs are not written.
SnapshotOfStates(awaiting) ==
    [id |-> planId, plan |-> plan, run |-> runState, st |-> st, waitOn |-> waitOn,
     waitOpen |-> waitOpen, deps |-> deps, outputs |-> {}, awaiting |-> awaiting]

\* What Capture writes: the plan, the run and the outputs of completed nodes.
Snapshot(awaiting) ==
    [id |-> planId, plan |-> plan, run |-> runState, st |-> st, waitOn |-> waitOn,
     waitOpen |-> waitOpen, deps |-> deps, outputs |-> outputs, awaiting |-> awaiting]

-----------------------------------------------------------------------------
\* Capture, TryLoad.

\* AwaitingNodeIdOf, first pass: nodes that wait for the user with a question
\* pending.  The first in the plan's own order, which the levels do not fix.
Asking == {n \in plan.unclear : st[n] \in AwaitingUser}

\* Mutant of Capture: it also writes when nobody is asked anything.
CaptureAlways ==
    \/ \E n \in Asking : store' = Snapshot(n)
    \/ Asking = {} /\ store' = Snapshot(NoNode)

\* Capture writes a checkpoint only when that node awaits a clarification (an
\* approval has a protocol of its own).  Otherwise the file stays as it was.
Capture ==
    \/ \E n \in Asking : st[n] = "AwaitingClarification" /\ store' = Snapshot(n)
    \/ /\ Asking = {} \/ \E n \in Asking : st[n] # "AwaitingClarification"
       /\ UNCHANGED store

\* Some waiting node is to read an output that the checkpoint does not hold.
MissingOutput(c) ==
    \E n \in Node :
        LET p == c.plan.producer[n] IN
        /\ c.st[n] = "Waiting"
        /\ p # NoNode
        /\ c.st[p] = "Completed"
        /\ p \notin c.outputs

\* TryLoad.  A cancelled run is refused; the other refusals concern the node.
Loadable ==
    /\ store # NoCheckpoint
    /\ store.run # "Cancelled"
    /\ ~MissingOutput(store)

-----------------------------------------------------------------------------
\* The message of a turn.

Message == turn = "idle" /\ messages < MaxMessages /\ messages' = messages + 1

\* A new plan is built and executed from Init.
FreshRun ==
    /\ turn' = "fresh"
    /\ planId' = messages + 1
    /\ outputs' = {}
    /\ plan' \in Plans
    /\ runState' = "Running"
    /\ st' = [n \in Node |-> "Pending"]
    /\ waitOn' = [n \in Node |-> NoNode]
    /\ waitOpen' = [n \in Node |-> FALSE]
    /\ deps' = [n \in Node |-> {}]

\* The locals of ExecuteAsync at its first statement.
Entered ==
    /\ deferred' = <<>>
    /\ pc' = "layer"
    /\ lvl' = 0
    /\ todo' = {}
    /\ ready' = {}
    /\ mode' = "shards"
    /\ task' = [n \in Node |-> "none"]
    /\ attempt' = [n \in Node |-> 0]
    /\ reinj' = [n \in Node |-> 0]
    /\ stop' = FALSE
    /\ drainq' = <<>>
    /\ final' = FALSE
    /\ ckpt' = [n \in Node |-> "Pending"]

\* Nothing can be resumed: the message is a task.
MessageStartsPlan ==
    /\ Message
    /\ ~Loadable
    /\ FreshRun
    /\ Entered
    /\ UNCHANGED <<store, crashes, historyVars>>

\* The reply does not fit the question (not a choice, several items, no
\* parameter name): the checkpoint is cleared and the message is a task, or is
\* only reported (AGENTFRAMEWORK_PLAN_RESUME_FALLTHROUGH off).
MessageVoidsCheckpoint ==
    /\ Message
    /\ Loadable
    /\ store' = NoCheckpoint
    /\ \/ FreshRun /\ Entered
       \/ UNCHANGED <<vars, turn, outputs, planId>>
    /\ UNCHANGED <<crashes, historyVars>>

\* Mutant of Settled: the question of the node is put again.
Unsettled(p, n) == p

\* ApplyReply: the question of n is settled for good (ClarificationsSettled).
Settled(p, n) == [p EXCEPT !.unclear = @ \ {n}]

\* The reply settles the question of the awaiting node and the run goes on.
MessageResumes ==
    /\ Message
    /\ Loadable
    /\ turn' = "resumed"
    /\ planId' = store.id
    /\ outputs' = store.outputs
    /\ plan' = Settled(store.plan, store.awaiting)
    /\ runState' = "Running"
    /\ st' = Seeded(store.st)
    /\ waitOn' = store.waitOn
    /\ waitOpen' = store.waitOpen
    /\ deps' = store.deps
    /\ Entered
    /\ answered' = [answered EXCEPT ![store.id] = @ \cup {store.awaiting}]
    /\ UNCHANGED <<store, crashes, effects, dropped>>

-----------------------------------------------------------------------------
\* The rest of a turn.

\* A step of ExecuteAsync; a node that completes leaves its output and effect.
Execute ==
    /\ turn # "idle" /\ ~Over
    /\ Next
    /\ LET completed == {n \in Node : st[n] # "Completed" /\ st'[n] = "Completed"}
       IN  /\ outputs' = outputs \cup (completed \ Silent)
           /\ effects' = [effects EXCEPT ![planId] =
                            [n \in Node |-> @[n] + IF n \in completed THEN 1 ELSE 0]]
    /\ UNCHANGED <<turn, store, planId, messages, crashes, answered, dropped>>

\* What is known of the plan is no longer what the store holds of it.
Forget == dropped' = IF store'.id = planId /\ store' = store
                     THEN dropped \cup {planId} ELSE dropped

\* A plan that was started this turn: captured when it waits for an answer.
EndFreshTurn ==
    /\ turn = "fresh" /\ Over
    /\ IF pc = "done" THEN Capture ELSE UNCHANGED store
    /\ turn' = "idle"
    /\ UNCHANGED <<vars, outputs, planId, messages, crashes, historyVars>>

\* A resumed plan: cleared when the run finished, captured otherwise.
EndResumedTurn ==
    /\ turn = "resumed" /\ Over
    /\ IF pc = "done" /\ runState = "Finished"
       THEN store' = NoCheckpoint
       ELSE IF pc = "done" THEN Capture ELSE UNCHANGED store
    /\ Forget
    /\ turn' = "idle"
    /\ UNCHANGED <<vars, outputs, planId, messages, crashes, effects, answered>>

\* The process dies in the middle of a turn; only the store survives.
Crash ==
    /\ turn # "idle" /\ crashes < MaxCrashes
    /\ crashes' = crashes + 1
    /\ turn' = "idle"
    /\ UNCHANGED store
    /\ Forget
    /\ UNCHANGED <<vars, outputs, planId, messages, effects, answered>>

\* The user stops writing.
Quiet == turn = "idle" /\ messages = MaxMessages /\ UNCHANGED allVars

ResumeInit ==
    /\ Init
    /\ turn = "idle"
    /\ store = NoCheckpoint
    /\ outputs = {}
    /\ planId = 1
    /\ messages = 0
    /\ crashes = 0
    /\ effects = [i \in PlanIds |-> [n \in Node |-> 0]]
    /\ answered = [i \in PlanIds |-> {}]
    /\ dropped = {}

ResumeNext ==
    \/ MessageStartsPlan \/ MessageVoidsCheckpoint \/ MessageResumes
    \/ Execute \/ EndFreshTurn \/ EndResumedTurn \/ Crash \/ Quiet

ResumeSpec == ResumeInit /\ [][ResumeNext]_allVars

-----------------------------------------------------------------------------
\* Properties.

ResumeTypeOK ==
    /\ TypeOK
    /\ turn \in {"idle", "fresh", "resumed"}
    /\ store # NoCheckpoint => store.id \in PlanIds /\ store.awaiting \in Node
    /\ outputs \subseteq Node
    /\ planId \in PlanIds
    /\ effects \in [PlanIds -> [Node -> Nat]]
    /\ answered \in [PlanIds -> SUBSET Node]
    /\ dropped \subseteq PlanIds

\* Across the turns of a plan a node completes at most once, as long as every
\* resumed turn of it ended by clearing or replacing the checkpoint it came from.
EffectsOnce ==
    \A i \in PlanIds \ dropped : \A n \in Node : effects[i][n] <= 1

\* The turn holds the output of every node that completed in this turn or in an
\* earlier one: a waiting node never reads an empty input.
OutputsHeld ==
    turn # "idle" =>
        \A n \in Node \ Silent : st[n] = "Completed" => n \in outputs

\* Once a question was answered and the turn that followed it is over, the
\* checkpoint does not wait for an answer to it again.
NotAskedTwice ==
    turn = "idle" /\ store # NoCheckpoint /\ store.id \notin dropped
        => store.awaiting \notin answered[store.id]

-----------------------------------------------------------------------------
\* The inductive invariant behind these (PlanResumeProofs).

\* Each plan has an identity of its own; a resumed turn works on the plan of the store.
Identities ==
    /\ messages \in 0..MaxMessages
    /\ planId \in PlanIds
    /\ turn \in {"idle", "fresh", "resumed"}
    /\ turn # "idle" => planId <= messages
    /\ store # NoCheckpoint => store.id \in 1..messages /\ store.awaiting \in Node
    /\ turn = "resumed" => store # NoCheckpoint /\ store.id = planId
    /\ turn = "fresh" /\ store # NoCheckpoint => store.id # planId
    /\ outputs \subseteq Node /\ (store # NoCheckpoint => store.outputs \subseteq Node)
    /\ dropped \subseteq PlanIds

\* What the executor is to find when it resumes the store.
StoreStates ==
    store # NoCheckpoint =>
        /\ store.plan \in PlanType /\ WellFormed(store.plan)
        /\ store.st \in [Node -> NodeState]
        /\ store.waitOn \in [Node -> Node \cup {NoNode}]
        /\ store.waitOpen \in [Node -> BOOLEAN]
        /\ store.deps \in [Node -> SUBSET Node]
        /\ \A n \in Node : \A p \in store.deps[n] : store.st[p] = "Completed"
        /\ \A n \in Node : store.waitOpen[n] =>
              /\ store.waitOn[n] # NoNode
              /\ LET p == store.plan.producer[n] IN
                 p # NoNode => store.waitOn[n] = p \/ store.st[p] = "Completed"

\* The store holds the outputs of the nodes it calls completed.
StoreHoldsOutputs ==
    store # NoCheckpoint =>
        \A n \in Node \ Silent : store.st[n] = "Completed" => n \in store.outputs

\* A question that was answered is not open, in the turn or in the store; the store
\* awaits the answer to an open one.
Questions ==
    /\ answered \in [PlanIds -> SUBSET Node]
    /\ \A i \in PlanIds : i > messages => answered[i] = {}
    /\ turn # "idle" /\ planId \notin dropped => answered[planId] \cap plan.unclear = {}
    /\ store # NoCheckpoint /\ store.id \notin dropped /\ turn # "resumed" =>
          /\ answered[store.id] \cap store.plan.unclear = {}
          /\ store.awaiting \in store.plan.unclear

\* The effects of a plan are those of its completed nodes, once each.
Done(s) == [n \in Node |-> IF s[n] = "Completed" THEN 1 ELSE 0]

EffectStates ==
    /\ effects \in [PlanIds -> [Node -> Nat]]
    /\ \A i \in PlanIds : i > messages => effects[i] = [n \in Node |-> 0]
    /\ turn # "idle" /\ planId \notin dropped => effects[planId] = Done(st)
    /\ store # NoCheckpoint /\ store.id \notin dropped /\ turn # "resumed"
          => effects[store.id] = Done(store.st)
    /\ EffectsOnce

ResumeInv ==
    /\ IInv
    /\ Identities
    /\ StoreStates
    /\ StoreHoldsOutputs
    /\ OutputsHeld
    /\ Questions
    /\ EffectStates
=============================================================================
