---------------------------- MODULE PlanScheduler ----------------------------
(***************************************************************************)
(* TaskPlanExecutor.ExecuteAsync: one execution of a task plan.            *)
(*                                                                         *)
(* The executor walks the levels of the plan.  At the head of a level it   *)
(* polls for a cancel instruction, skips the level when everything it      *)
(* depends on was lost, or pauses at a sensitive node.  Otherwise it       *)
(* prepares the executable nodes one by one (a node that needs the output  *)
(* of a node that has not produced it is deferred), runs the ready nodes   *)
(* in shards of at most MaxParallelism concurrent tasks, and drains the    *)
(* deferred nodes whose producer has completed.  A last drain follows the  *)
(* last level.                                                             *)
(*                                                                         *)
(* A node is its position in the list `order` (level first, then the       *)
(* order of the plan), so SkipRemaining speaks of the nodes above it.      *)
(* Between two awaits the method runs alone: a step is the code from one   *)
(* await to the next.  The tasks of a shard run concurrently.              *)
(***************************************************************************)
EXTENDS Integers, FiniteSets, SequencesExt

CONSTANTS
    N,          \* number of nodes of a plan
    Plans,      \* the plans that may be executed
    Polls,      \* a pollInjections callback that may answer Cancel is given
    HasPrompts  \* a prompt service that can ask for clarifications is given

Node == 1..N
NoNode == 0

NodeState == {"Pending", "Waiting", "AwaitingClarification",
              "AwaitingApproval", "Running", "Completed", "Failed", "Skipped"}
RunState == {"Running", "PausedForApproval", "Finished",
             "PausedForDependency", "Cancelled"}

\* What the executor reads of a plan.  `producer` is the node whose output the
\* text of a node asks for (FindProducer), `unclear` the nodes with pending
\* clarifications after the evidence gate, `blocked` those the formal gate
\* refutes, `needs` the nodes whose output a node may ask for while it runs.
PlanType ==
    [level: [Node -> Nat], dependsOn: [Node -> SUBSET Node],
     producer: [Node -> Node \cup {NoNode}], needs: [Node -> SUBSET Node],
     sensitive: SUBSET Node, unclear: SUBSET Node, blocked: SUBSET Node,
     par: Nat, retries: [Node -> Nat]]

\* Levels grow along the order and a node depends on nodes of lower levels
\* (TaskPlanBuilder), and no node is its own producer (FindProducer).
WellFormed(p) ==
    /\ \A m, n \in Node : m < n => p.level[m] <= p.level[n]
    /\ \A n \in Node : \A d \in p.dependsOn[n] : p.level[d] < p.level[n]
    /\ \A n \in Node : p.producer[n] # n

ASSUME SizeAssumption == N \in Nat \ {0}
ASSUME PlansAssumption ==
    /\ Plans \subseteq PlanType
    /\ \A p \in Plans : WellFormed(p)
ASSUME OptionsAssumption == Polls \in BOOLEAN /\ HasPrompts \in BOOLEAN

VARIABLES
    plan,      \* the plan being executed
    runState,  \* run.State
    st,        \* run.NodeStates
    waitOn,    \* run.Waits: the producer of the wait record, or NoNode
    waitOpen,  \* run.Waits: the record has no EndedUs
    deps,      \* node.RuntimeDeps
    deferred,  \* the list `deferred` of ExecuteAsync
    pc,        \* where ExecuteAsync stands
    lvl,       \* the level it has reached
    todo,      \* executable nodes of the level not yet prepared
    ready,     \* prepared nodes not yet started
    mode,      \* who awaits the tasks: "serial", "shards" or "drain"
    task,      \* the RunNodeCoreAsync tasks of the shard being awaited
    attempt,   \* local `attempt` of a task
    reinj,     \* local `reinjections` of a task
    stop,      \* some task of the shard returned a verdict
    drainq,    \* snapshot of deferred a drain walks
    final,     \* finalPass of the drain
    ckpt       \* node states last saved by SaveCheckpoint

vars == <<plan, runState, st, waitOn, waitOpen, deps, deferred, pc, lvl, todo,
          ready, mode, task, attempt, reinj, stop, drainq, final, ckpt>>

\* The variables a scheduling step between two batches of tasks leaves alone.
taskVars == <<task, attempt, reinj, stop>>
recordVars == <<waitOn, waitOpen, deps>>

-----------------------------------------------------------------------------
\* Helpers.

Lost == {"Failed", "Skipped"}
AwaitingUser == {"AwaitingClarification", "AwaitingApproval"}

IsFirst(n, S) == n \in S /\ \A m \in S : n <= m

\* The first k members of S: one chunk of ready.Chunk(MaxParallelism).
Chunk(S, k) == {n \in S : Cardinality({m \in S : m < n}) < k}

\* Mutant of SkipRemaining: the nodes after n are skipped in whatever state.
SkipRemainingAll(s, n) == [m \in Node |-> IF m > n THEN "Skipped" ELSE s[m]]

\* SkipRemaining: the Pending nodes after n in the order are skipped.  The code tests
\* and writes them one after the other in a dictionary without a lock; here that is
\* one step, so a sibling of n that starts or ends under way is not seen.
SkipRemaining(s, n) ==
    [m \in Node |-> IF m > n /\ s[m] = "Pending" THEN "Skipped" ELSE s[m]]

\* FailPlan and the fail-fast end of RunNodeCoreAsync.
FailFast(s, n) == SkipRemaining([s EXCEPT ![n] = "Failed"], n)

\* The k-th node of the chain of wait records that starts at p.
WaitChain(p) ==
    LET walk[k \in 0..N] ==
            IF k = 0 THEN p
            ELSE IF walk[k - 1] = NoNode THEN NoNode ELSE waitOn[walk[k - 1]]
    IN  walk

\* Mutant of CreatesWaitCycle: only the producer's own record is looked at.
CreatesDirectCycle(n, p) == p = n \/ waitOn[p] = n

\* CreatesWaitCycle: the chain from p comes back to n or to itself.
CreatesWaitCycle(n, p) ==
    \/ \E k \in 0..N : WaitChain(p)[k] = n
    \/ WaitChain(p)[N] # NoNode

\* The list (only one) of the members of S in the order of the plan.
InOrder(S) ==
    {q \in [1..Cardinality(S) -> S] :
        /\ \A i, j \in DOMAIN q : i < j => q[i] < q[j]
        /\ \A n \in S : \E i \in DOMAIN q : q[i] = n}

\* Mutant of Batch: two levels are grouped together.
BatchOfTwoLevels == {n \in Node : plan.level[n] \in {lvl, lvl + 1} /\ st[n] # "Completed"}

\* The nodes of the current level that a run executes: a resumed run leaves out
\* those already completed (a fresh run has none at a level it has not begun).
Batch == {n \in Node : plan.level[n] = lvl /\ st[n] # "Completed"}

Shard == {n \in Node : task[n] # "none"}

LastLevel == plan.level[N]

\* Mutant of Return: no checkpoint is saved.
ReturnUnsaved(s, saved) ==
    /\ pc' = "done"
    /\ st' = s
    /\ ckpt' = ckpt
    /\ todo' = {}
    /\ ready' = {}
    /\ drainq' = <<>>

\* ExecuteAsync returns with node states s, saving a checkpoint of them or not.
Return(s, saved) ==
    /\ pc' = "done"
    /\ st' = s
    /\ ckpt' = IF saved THEN s ELSE ckpt
    /\ todo' = {}
    /\ ready' = {}
    /\ drainq' = <<>>

\* The loop goes on to the next level.
NextLevel ==
    /\ pc' = "layer"
    /\ lvl' = lvl + 1

-----------------------------------------------------------------------------
\* The head of a level.

\* A cancel instruction was injected: the nodes after the first of the batch
\* are skipped.  batch[0] of an empty batch throws.
LayerCancel ==
    /\ pc = "layer" /\ lvl <= LastLevel
    /\ Polls
    /\ runState' = "Cancelled"
    /\ IF Batch = {}
       THEN /\ pc' = "thrown"
            /\ UNCHANGED <<st, ckpt, todo, ready, drainq>>
       ELSE \E n \in Node : IsFirst(n, Batch) /\ Return(SkipRemaining(st, n), TRUE)
    /\ UNCHANGED <<plan, recordVars, deferred, lvl, mode, taskVars, final>>

LostDependency(n) == \E d \in plan.dependsOn[n] : st[d] \in Lost

\* Every node of the batch depends on a lost node.
LevelIsLost ==
    /\ \A n \in Batch : LostDependency(n)
    /\ \E n \in Batch : plan.dependsOn[n] # {}

\* The level is skipped; neither a drain nor a checkpoint follows.
LayerSkip ==
    /\ pc = "layer" /\ lvl <= LastLevel
    /\ LevelIsLost
    /\ st' = [n \in Node |-> IF n \in Batch THEN "Skipped" ELSE st[n]]
    /\ NextLevel
    /\ UNCHANGED <<plan, runState, recordVars, deferred, todo, ready, mode,
                   taskVars, drainq, final, ckpt>>

\* Mutant of Unapproved: only the first node of the batch is looked at.
UnapprovedFirst == {n \in Batch \cap plan.sensitive : IsFirst(n, Batch)}

\* The nodes of the batch that need an approval.
Unapproved == Batch \cap plan.sensitive

\* A sensitive node pauses the whole plan for approval.
LayerPause ==
    /\ pc = "layer" /\ lvl <= LastLevel
    /\ ~LevelIsLost
    /\ runState' = "PausedForApproval"
    /\ \E n \in Node : /\ IsFirst(n, Unapproved)
                       /\ Return([st EXCEPT ![n] = "AwaitingApproval"], TRUE)
    /\ UNCHANGED <<plan, recordVars, deferred, lvl, mode, taskVars, final>>

\* The nodes with pending clarifications are asked about (when there is a
\* prompt service) or wait for the user; the others are executable.
LayerEnter ==
    /\ pc = "layer" /\ lvl <= LastLevel
    /\ ~LevelIsLost
    /\ Unapproved = {}
    /\ \E answered \in SUBSET (Batch \cap plan.unclear) :
        LET executable == (Batch \ plan.unclear) \cup answered IN
        /\ answered # {} => HasPrompts
        /\ plan' = [plan EXCEPT !.unclear = @ \ answered]
        /\ st' = [n \in Node |-> IF n \in Batch \ executable
                                 THEN "AwaitingClarification" ELSE st[n]]
        /\ todo' = executable
        /\ IF executable = {} THEN NextLevel
           ELSE pc' = "prepare" /\ UNCHANGED lvl
    /\ UNCHANGED <<runState, recordVars, deferred, ready, mode, taskVars,
                   drainq, final, ckpt>>

\* After the last level: the final drain.
LayersDone ==
    /\ pc = "layer" /\ lvl > LastLevel
    /\ pc' = "drain"
    /\ final' = TRUE
    /\ drainq' = deferred
    /\ UNCHANGED <<plan, runState, st, recordVars, deferred, lvl, todo, ready,
                   mode, taskVars, ckpt>>

-----------------------------------------------------------------------------
\* PrepareRuntimeDepsAsync, for the next executable node of the level.

NowWaiting(n) == [st EXCEPT ![n] = "Waiting"]

\* Mutant of RecordWait: the record is taken for closed.
RecordClosedWait(n, p) == waitOn' = [waitOn EXCEPT ![n] = p] /\ UNCHANGED waitOpen

RecordWait(n, p) ==
    /\ waitOn' = [waitOn EXCEPT ![n] = p]
    /\ waitOpen' = [waitOpen EXCEPT ![n] = TRUE]

Preparing(n) == pc = "prepare" /\ IsFirst(n, todo)

\* Mutant of PrepareReady: "no producer" is recorded as a dependency.
PrepareReadyOnNothing(n) ==
    LET p == plan.producer[n] IN
    /\ Preparing(n)
    /\ p # NoNode => ~CreatesWaitCycle(n, p) /\ st[p] = "Completed"
    /\ deps' = [deps EXCEPT ![n] = @ \cup {p}]
    /\ todo' = todo \ {n}
    /\ ready' = ready \cup {n}
    /\ UNCHANGED <<plan, runState, st, waitOn, waitOpen, deferred, pc, lvl,
                   mode, taskVars, drainq, final, ckpt>>

\* No producer is named, or it has completed: the node is ready.
PrepareReady(n) ==
    LET p == plan.producer[n] IN
    /\ Preparing(n)
    /\ p # NoNode => ~CreatesWaitCycle(n, p) /\ st[p] = "Completed"
    /\ deps' = [deps EXCEPT ![n] = @ \cup ({p} \ {NoNode})]
    /\ todo' = todo \ {n}
    /\ ready' = ready \cup {n}
    /\ UNCHANGED <<plan, runState, st, waitOn, waitOpen, deferred, pc, lvl,
                   mode, taskVars, drainq, final, ckpt>>

\* A wait cycle, or a producer that failed or was skipped: the plan fails.
PrepareFail(n) ==
    LET p == plan.producer[n] IN
    /\ Preparing(n)
    /\ p # NoNode
    /\ CreatesWaitCycle(n, p) \/ st[p] \in Lost
    /\ runState' = "Finished"
    /\ Return(FailFast(st, n), TRUE)
    /\ UNCHANGED <<plan, recordVars, deferred, lvl, mode, taskVars, final>>

\* The producer waits for the user: the plan pauses.
PreparePause(n) ==
    LET p == plan.producer[n] IN
    /\ Preparing(n)
    /\ p # NoNode
    /\ ~CreatesWaitCycle(n, p) /\ st[p] \in AwaitingUser
    /\ RecordWait(n, p)
    /\ runState' = "PausedForDependency"
    /\ Return(NowWaiting(n), TRUE)
    /\ UNCHANGED <<plan, deps, deferred, lvl, mode, taskVars, final>>

\* The producer has not run yet: the node waits without taking a slot.
PrepareWait(n) ==
    LET p == plan.producer[n] IN
    /\ Preparing(n)
    /\ p # NoNode
    /\ ~CreatesWaitCycle(n, p)
    /\ st[p] \in {"Pending", "Waiting", "Running"}
    /\ st' = NowWaiting(n)
    /\ RecordWait(n, p)
    /\ todo' = todo \ {n}
    /\ deferred' = Append(deferred, n)
    /\ UNCHANGED <<plan, runState, deps, pc, lvl, ready, mode, taskVars,
                   drainq, final, ckpt>>

\* A level whose prepared nodes are all deferred goes to the drain.  With
\* MaxParallelism <= 1 the method indexes the empty list of ready nodes.
PrepareNoneReady ==
    /\ pc = "prepare" /\ todo = {} /\ ready = {}
    /\ IF plan.par <= 1
       THEN pc' = "thrown" /\ UNCHANGED drainq
       ELSE pc' = "drain" /\ drainq' = deferred
    /\ UNCHANGED <<plan, runState, st, recordVars, deferred, lvl, todo, ready,
                   mode, taskVars, final, ckpt>>

CreateTasks(shard) ==
    task' = [n \in Node |-> IF n \in shard THEN "new" ELSE "none"]

\* One ready node runs alone, and so does the first one under MaxParallelism
\* <= 1, where the others are not started; otherwise the first chunk starts.
StartShard ==
    /\ pc = "prepare" /\ todo = {} /\ ready # {}
    /\ IF Cardinality(ready) = 1 \/ plan.par <= 1
       THEN /\ \E n \in Node : IsFirst(n, ready) /\ CreateTasks({n})
            /\ mode' = "serial"
            /\ ready' = {}
       ELSE /\ CreateTasks(Chunk(ready, plan.par))
            /\ mode' = "shards"
            /\ ready' = ready \ Chunk(ready, plan.par)
    /\ pc' = "run"
    /\ UNCHANGED <<plan, runState, st, recordVars, deferred, lvl, todo,
                   attempt, reinj, stop, drainq, final, ckpt>>

-----------------------------------------------------------------------------
\* RunNodeCoreAsync: the tasks of a shard.

\* A task returns: its locals are gone.
EndTask(n) ==
    /\ task' = [task EXCEPT ![n] = "end"]
    /\ attempt' = [attempt EXCEPT ![n] = 0]
    /\ reinj' = [reinj EXCEPT ![n] = 0]

\* Mutant of Verdict: WhenAll's results are not looked at.
VerdictUnseen(n, s, rs) ==
    /\ st' = s
    /\ runState' = rs
    /\ UNCHANGED stop
    /\ EndTask(n)

\* The task returns the run: the plan is to stop.
Verdict(n, s, rs) ==
    /\ st' = s
    /\ runState' = rs
    /\ stop' = TRUE
    /\ EndTask(n)

TaskFrame == <<plan, deferred, pc, lvl, todo, ready, mode, drainq, final, ckpt>>

\* The tasks of a shard are created in order; each runs to its first await.
Starting(n) ==
    /\ pc = "run" /\ task[n] = "new"
    /\ \A m \in Node : task[m] = "new" => n <= m

\* The formal gate lets the node through to nodeRunner.
StartNode(n) ==
    /\ Starting(n)
    /\ n \notin plan.blocked
    /\ st' = [st EXCEPT ![n] = "Running"]
    /\ task' = [task EXCEPT ![n] = "run"]
    /\ UNCHANGED <<TaskFrame, runState, recordVars, attempt, reinj, stop>>

\* The formal gate refutes the node: the plan fails.
BlockNode(n) ==
    /\ Starting(n)
    /\ n \in plan.blocked
    /\ Verdict(n, FailFast(st, n), "Finished")
    /\ UNCHANGED <<TaskFrame, recordVars>>

\* nodeRunner of n is being awaited, for the first time, after a back-off, or
\* once more after a dependency was injected ("again").
InRunner(n) == pc = "run" /\ task[n] \in {"run", "again"}

\* nodeRunner completed the node or skipped it.
RunnerSettles(n) ==
    /\ InRunner(n)
    /\ \E r \in {"Completed", "Skipped"} : st' = [st EXCEPT ![n] = r]
    /\ EndTask(n)
    /\ UNCHANGED <<TaskFrame, runState, recordVars, stop>>

\* Mutant of RunnerRetries: the attempt is not counted.
RunnerRetriesUncounted(n) ==
    /\ InRunner(n)
    /\ task[n] = "run"
    /\ attempt[n] < plan.retries[n]
    /\ task' = [task EXCEPT ![n] = "backoff"]
    /\ UNCHANGED <<TaskFrame, runState, st, recordVars, attempt, reinj, stop>>

\* A transient failure is retried after a back-off, while attempts are left;
\* a call made after an injection is not retried.
RunnerRetries(n) ==
    /\ InRunner(n)
    /\ task[n] = "run"
    /\ attempt[n] < plan.retries[n]
    /\ attempt' = [attempt EXCEPT ![n] = @ + 1]
    /\ task' = [task EXCEPT ![n] = "backoff"]
    /\ UNCHANGED <<TaskFrame, runState, st, recordVars, reinj, stop>>

BackoffEnds(n) ==
    /\ pc = "run" /\ task[n] = "backoff"
    /\ task' = [task EXCEPT ![n] = "run"]
    /\ UNCHANGED <<TaskFrame, runState, st, recordVars, attempt, reinj, stop>>

\* A failure that is permanent, or has no attempt left, ends the plan.
RunnerFails(n) ==
    /\ InRunner(n)
    /\ Verdict(n, FailFast(st, n), "Finished")
    /\ UNCHANGED <<TaskFrame, recordVars>>

\* OperationCanceledException out of nodeRunner or out of the back-off.
RunnerCancelled(n) ==
    /\ InRunner(n) \/ (pc = "run" /\ task[n] = "backoff")
    /\ Verdict(n, [st EXCEPT ![n] = "Skipped"], "Cancelled")
    /\ UNCHANGED <<TaskFrame, recordVars>>

\* Mutant of NeedReady: the state of p is not looked at.
NeedReadyUnchecked(n, p) == InRunner(n) /\ p \in plan.needs[n] /\ reinj[n] < 2

\* nodeRunner returned Waiting: it needs the output of p.
NeedReady(n, p) ==
    InRunner(n) /\ p \in plan.needs[n] /\ st[p] = "Completed" /\ reinj[n] < 2

\* The output is there: it is injected and the node runs again at once.
NeedInject(n, p) ==
    /\ NeedReady(n, p)
    /\ p \notin deps[n]
    /\ deps' = [deps EXCEPT ![n] = @ \cup {p}]
    /\ reinj' = [reinj EXCEPT ![n] = @ + 1]
    /\ task' = [task EXCEPT ![n] = "again"]
    /\ UNCHANGED <<TaskFrame, runState, st, waitOn, waitOpen, attempt, stop>>

\* It was injected before: asking again is a failure.
NeedRepeated(n, p) ==
    /\ NeedReady(n, p)
    /\ p \in deps[n]
    /\ Verdict(n, FailFast(st, n), "Finished")
    /\ UNCHANGED <<TaskFrame, recordVars>>

\* It is not there: the node waits, without a cycle check, and the task is over.
NeedWait(n, p) ==
    /\ InRunner(n)
    /\ p \in plan.needs[n]
    /\ st[p] # "Completed" \/ reinj[n] >= 2
    /\ st' = NowWaiting(n)
    /\ RecordWait(n, p)
    /\ EndTask(n)
    /\ UNCHANGED <<TaskFrame, runState, deps, stop>>

-----------------------------------------------------------------------------
\* ExecuteAsync after its tasks.

\* Mutant of AllReturned: the shard is joined when one of its tasks returns.
AnyReturned == pc = "run" /\ \E n \in Shard : task[n] = "end"
\* Mutant of ShardWaits: nodes that began to wait while they ran are forgotten.
ShardWaitsForgotten == {}

AllReturned == pc = "run" /\ \A n \in Shard : task[n] = "end"
ShardWaits == {n \in Shard : st[n] = "Waiting"}
ClearTasks == task' = [n \in Node |-> "none"] /\ stop' = FALSE

\* ResolveDeferredOnTermination of a list q of deferred nodes.
Resolved(s, q) ==
    [n \in Node |-> IF Contains(q, n)
                    THEN IF runState = "Cancelled" THEN "Skipped" ELSE "Failed"
                    ELSE s[n]]

\* Mutant of ResolveDeferred: the wait records stay open.
ResolveDeferredOpen(q) == deferred' = <<>> /\ UNCHANGED waitOpen

ResolveDeferred(q) ==
    /\ waitOpen' = [n \in Node |-> waitOpen[n] /\ ~Contains(q, n)]
    /\ deferred' = <<>>

\* A task of the level asked to stop: the deferred nodes get a final state and
\* ExecuteAsync returns; the path of a single node saves no checkpoint.
LevelStops ==
    /\ AllReturned /\ stop /\ mode # "drain"
    /\ \E w \in InOrder(ShardWaits) :
        LET q == IF mode = "shards" THEN deferred \o w ELSE deferred IN
        /\ ResolveDeferred(q)
        /\ Return(Resolved(st, q), mode = "shards")
    /\ ClearTasks
    /\ UNCHANGED <<plan, runState, waitOn, deps, lvl, mode, attempt, reinj, final>>

\* The shard is over: the next chunk starts, or the drain of the level.
ShardEnds ==
    /\ AllReturned /\ ~stop /\ mode # "drain"
    /\ \E w \in InOrder(ShardWaits) : deferred' = deferred \o w
    /\ IF ready = {}
       THEN /\ pc' = "drain"
            /\ drainq' = deferred'
            /\ ClearTasks
            /\ UNCHANGED ready
       ELSE /\ CreateTasks(Chunk(ready, plan.par))
            /\ ready' = ready \ Chunk(ready, plan.par)
            /\ UNCHANGED <<pc, drainq, stop>>
    /\ UNCHANGED <<plan, runState, st, recordVars, lvl, todo, mode, attempt,
                   reinj, final, ckpt>>

\* The node a drain woke up is over: the drain goes on, keeping the node if it
\* waits again, or returns its verdict (other deferred nodes stay as they are).
DrainedEnds ==
    /\ AllReturned /\ mode = "drain"
    /\ IF stop
       THEN Return(st, TRUE) /\ UNCHANGED deferred
       ELSE /\ pc' = "drain"
            /\ \E w \in InOrder(ShardWaits) : deferred' = deferred \o w
            /\ UNCHANGED <<st, todo, ready, drainq, ckpt>>
    /\ ClearTasks
    /\ UNCHANGED <<plan, runState, recordVars, lvl, mode, attempt, reinj, final>>

-----------------------------------------------------------------------------
\* DrainWaitsAsync, for the next deferred node of the snapshot.

Draining(n) == pc = "drain" /\ drainq # <<>> /\ n = Head(drainq)

\* Mutant of CloseWait: the node stays in the list.
CloseWaitKeepsNode(n) ==
    waitOpen' = [waitOpen EXCEPT ![n] = FALSE] /\ UNCHANGED deferred

CloseWait(n) ==
    /\ waitOpen' = [waitOpen EXCEPT ![n] = FALSE]
    /\ deferred' = RemoveFirst(deferred, n)

\* The producer has completed: the node runs now, alone.
DrainWake(n) ==
    /\ Draining(n)
    /\ st[waitOn[n]] = "Completed"
    /\ CloseWait(n)
    /\ deps' = [deps EXCEPT ![n] = @ \cup {waitOn[n]}]
    /\ st' = [st EXCEPT ![n] = "Pending"]
    /\ task' = [task EXCEPT ![n] = "new"]
    /\ pc' = "run"
    /\ mode' = "drain"
    /\ drainq' = Tail(drainq)
    /\ UNCHANGED <<plan, runState, waitOn, lvl, todo, ready, attempt, reinj,
                   stop, final, ckpt>>

\* The wait has lasted too long (whatever the producer did since), the producer
\* was lost, or this is the last pass: the plan fails.
DrainFail(n) ==
    /\ Draining(n)
    /\ CloseWait(n)
    /\ runState' = "Finished"
    /\ Return(FailFast(st, n), TRUE)
    /\ UNCHANGED <<plan, waitOn, deps, lvl, mode, taskVars, final>>

DrainTimeout(n) == DrainFail(n)

DrainGiveUp(n) ==
    /\ Draining(n)
    /\ \/ st[waitOn[n]] \in Lost
       \/ final /\ st[waitOn[n]] \in {"Pending", "Waiting", "Running"}
    /\ DrainFail(n)

\* The producer waits for the user: the plan pauses.
DrainPause(n) ==
    /\ Draining(n)
    /\ st[waitOn[n]] \in AwaitingUser
    /\ runState' = "PausedForDependency"
    /\ Return(st, TRUE)
    /\ UNCHANGED <<plan, recordVars, deferred, lvl, mode, taskVars, final>>

\* The producer is still to come: the node stays deferred.
DrainKeep(n) ==
    /\ Draining(n)
    /\ ~final
    /\ st[waitOn[n]] \in {"Pending", "Waiting", "Running"}
    /\ drainq' = Tail(drainq)
    /\ UNCHANGED <<plan, runState, st, recordVars, deferred, pc, lvl, todo, ready,
                   mode, taskVars, final, ckpt>>

\* The drain of a level is over: checkpoint, next level.
DrainEnds ==
    /\ pc = "drain" /\ drainq = <<>> /\ ~final
    /\ ckpt' = st
    /\ NextLevel
    /\ UNCHANGED <<plan, runState, st, recordVars, deferred, todo, ready, mode,
                   taskVars, drainq, final>>

\* The final drain is over: the plan is finished.
Finish ==
    /\ pc = "drain" /\ drainq = <<>> /\ final
    /\ runState' = "Finished"
    /\ Return(st, TRUE)
    /\ UNCHANGED <<plan, recordVars, deferred, lvl, mode, taskVars, final>>

-----------------------------------------------------------------------------
\* The specification.

\* Mutant of Seeded: completed nodes become Pending again too.
SeededAfresh(s) == [n \in Node |-> IF s[n] \in Lost THEN s[n] ELSE "Pending"]

\* In a resumed run half-way states become Pending again, completed ones stay (seedRun).
Seeded(s) ==
    [n \in Node |-> IF s[n] \in AwaitingUser \cup {"Waiting", "Running"}
                    THEN "Pending" ELSE s[n]]

\* The entry of ExecuteAsync, fresh or resumed: nothing has been done yet.
Entry ==
    /\ plan \in Plans
    /\ runState = "Running"
    /\ deferred = <<>>
    /\ pc = "layer"
    /\ lvl = 0
    /\ todo = {}
    /\ ready = {}
    /\ mode = "shards"
    /\ task = [n \in Node |-> "none"]
    /\ attempt = [n \in Node |-> 0]
    /\ reinj = [n \in Node |-> 0]
    /\ stop = FALSE
    /\ drainq = <<>>
    /\ final = FALSE
    /\ ckpt = [n \in Node |-> "Pending"]

\* A fresh run: every node Pending.
Init ==
    /\ Entry
    /\ st = [n \in Node |-> "Pending"]
    /\ waitOn = [n \in Node |-> NoNode]
    /\ waitOpen = [n \in Node |-> FALSE]
    /\ deps = [n \in Node |-> {}]

\* The synchronous code of ExecuteAsync between its tasks.
Layer == LayerCancel \/ LayerSkip \/ LayerPause \/ LayerEnter \/ LayersDone

Prepare ==
    \/ PrepareNoneReady
    \/ StartShard
    \/ \E n \in Node : PrepareReady(n) \/ PrepareFail(n) \/ PreparePause(n)
                       \/ PrepareWait(n)

Tasks ==
    \E n \in Node :
        \/ StartNode(n) \/ BlockNode(n)
        \/ RunnerSettles(n) \/ RunnerRetries(n) \/ BackoffEnds(n)
        \/ RunnerFails(n) \/ RunnerCancelled(n)
        \/ \E p \in Node : NeedInject(n, p) \/ NeedRepeated(n, p) \/ NeedWait(n, p)

Join == LevelStops \/ ShardEnds \/ DrainedEnds

Drain ==
    \/ DrainEnds
    \/ Finish
    \/ \E n \in Node : DrainWake(n) \/ DrainTimeout(n) \/ DrainGiveUp(n)
                       \/ DrainPause(n) \/ DrainKeep(n)

Over == pc \in {"done", "thrown"}
Terminated == Over /\ UNCHANGED vars

Next == Layer \/ Prepare \/ Tasks \/ Join \/ Drain \/ Terminated

\* Every await of the method ends: a node's runner returns, fails or is
\* cancelled, and the task scheduler runs what is ready.
Fairness == WF_vars(Next)

Spec == Init /\ [][Next]_vars
FairSpec == Spec /\ Fairness

-----------------------------------------------------------------------------
\* Properties.

\* Type correctness of the executor's state.
TypeOK ==
    /\ plan \in PlanType
    /\ runState \in RunState
    /\ st \in [Node -> NodeState]
    /\ waitOn \in [Node -> Node \cup {NoNode}]
    /\ waitOpen \in [Node -> BOOLEAN]
    /\ deps \in [Node -> SUBSET Node]
    /\ deferred \in Seq(Node)
    /\ pc \in {"layer", "prepare", "run", "drain", "done", "thrown"}
    /\ lvl \in Nat
    /\ todo \in SUBSET Node
    /\ ready \in SUBSET Node
    /\ mode \in {"serial", "shards", "drain"}
    /\ task \in [Node -> {"none", "new", "run", "backoff", "again", "end"}]
    /\ attempt \in [Node -> Nat]
    /\ reinj \in [Node -> 0..2]
    /\ stop \in BOOLEAN
    /\ drainq \in Seq(Node)
    /\ final \in BOOLEAN
    /\ ckpt \in [Node -> NodeState]

\* The nodes whose nodeRunner call, or back-off between two calls, is pending.
Active == {n \in Node : task[n] \in {"run", "backoff", "again"}}

\* A completed node is never run again nor given another state: running it
\* twice would repeat its side effects (the comment of the resumed run).
CompletedForever ==
    [][\A n \in Node : st[n] = "Completed" => st'[n] = "Completed"]_vars

\* nodeRunner works on real inputs: while it runs, the node named by the text
\* and every injected dependency have completed.
InputsProduced ==
    \A n \in Active :
        /\ plan.producer[n] # NoNode => st[plan.producer[n]] = "Completed"
        /\ \A p \in deps[n] : st[p] = "Completed"

\* A dependency is injected only once it has completed, and stays so.
InjectedCompleted == \A n \in Node : \A p \in deps[n] : st[p] = "Completed"

\* ExecuteAsync joins its tasks: nothing runs once it has returned.
TasksJoined == Over => \A n \in Node : st[n] # "Running" /\ task[n] = "none"

\* The wait ledger tells the truth: a record is open exactly while its node
\* waits (KPIs and the resumed run read it).
WaitLedger == \A n \in Node : waitOpen[n] <=> st[n] = "Waiting"

\* While the run goes on, the waiting nodes are those of `deferred` and of the
\* shard that is being joined, each once: none is forgotten, none runs twice.
DeferredExact ==
    ~Over =>
        /\ \A n \in Node : task[n] # "end" => (st[n] = "Waiting" <=> Contains(deferred, n))
        /\ \A n \in Node : task[n] = "end" => ~Contains(deferred, n)
        /\ IsInjective(deferred)

\* Every wait is known before a node runs.
Declared == \A n \in Node : plan.needs[n] = {}

\* No two nodes wait for each other, directly or through others.
WaitsAcyclic ==
    \A n \in Node : waitOpen[n] => ~\E k \in 1..N : WaitChain(n)[k] = n

\* So it is as long as no node finds out while it runs that it needs another,
\* which no cycle check precedes.
DeclaredWaitsAcyclic == Declared => WaitsAcyclic

\* A node starts only after each node it depends on has had its turn.  (One task
\* at a time, the ready nodes of a level after the first are left Pending.)
DependenciesVisited ==
    plan.par > 1 =>
        \A n \in Active : \A d \in plan.dependsOn[n] : st[d] \notin {"Pending", "Running"}

\* After a failure no other shard starts a node.
FailureStopsStarts ==
    [][\A m, n \in Node :
          st[m] = "Failed" /\ task[n] = "new" /\ task'[n] = "run" => task[m] = "end"]_vars

\* A plan that finished without a failure has run every node to an end, except
\* those that wait for the user's clarification and those skipped.  (A node that
\* begins to wait in the final drain is left waiting; one task at a time, only
\* the first ready node of a level is run.)
FinishedCleanly ==
    /\ Declared /\ plan.par > 1
    /\ pc = "done" /\ runState = "Finished"
    /\ \A n \in Node : st[n] # "Failed"
    => \A n \in Node : st[n] \in {"Completed", "Skipped", "AwaitingClarification"}

\* A sensitive node is never run: its level pauses the plan first.
SensitiveNeverRuns ==
    \A n \in plan.sensitive : st[n] \notin {"Running", "Completed", "Waiting"}

\* A pause for a dependency has a cause: some node waits for one that awaits
\* the user's answer.
PauseHasCause ==
    runState = "PausedForDependency" =>
        \E n \in Node : st[n] = "Waiting" /\ waitOpen[n] /\ st[waitOn[n]] \in AwaitingUser

\* At no instant does the saved checkpoint claim a node completed that has not:
\* a crash at any step loses no work (a restart skips the claimed nodes).
CheckpointNeverAhead == \A n \in Node : ckpt[n] = "Completed" => st[n] = "Completed"

\* When ExecuteAsync has returned, a restart from the checkpoint repeats no
\* completed node.
CheckpointComplete ==
    pc = "done" => \A n \in Node : st[n] = "Completed" => ckpt[n] = "Completed"

\* ExecuteAsync returns.
Terminates == <>Over

-----------------------------------------------------------------------------
\* The inductive invariant behind these properties (PlanSchedulerProofs).

\* The nodes the scheduler has not come to yet.
Ahead == {n \in Node : plan.level[n] > lvl \/ (pc = "layer" /\ plan.level[n] = lvl)}

\* Nodes that are about to start, or run: their declared producer has completed.
Committed == ready \cup {n \in Node : task[n] \in {"new", "run", "backoff", "again"}}

\* A task runs exactly while its node is Running, and only in the "run" phase.
TaskStates ==
    /\ \A n \in Node : n \in Active <=> st[n] = "Running"
    /\ pc # "run" => Shard = {} /\ ~stop
    /\ \A n \in Node : task[n] = "new" => st[n] \notin {"Completed", "Waiting"}

\* Nodes to be prepared or started are not completed, running or waiting.
QueuedStates ==
    /\ ~Over => \A n \in Ahead : st[n] \notin {"Running", "Waiting"}
    /\ \A n \in todo \cup ready : st[n] \notin {"Running", "Waiting", "Completed"}
    /\ \A n \in todo \cup ready \cup Shard : plan.level[n] <= lvl
    /\ todo \cap ready = {} /\ ready \cap Shard = {}
    /\ todo # {} => pc = "prepare"
    /\ ready # {} => pc = "prepare" \/ (pc = "run" /\ mode = "shards")

\* The deferred nodes wait, each once, and a drain visits each of them once.
DeferredStates ==
    /\ ~Over => /\ \A n \in Node : Contains(deferred, n) => st[n] = "Waiting"
                /\ \A n \in Node : st[n] = "Waiting"
                                   => Contains(deferred, n) \/ task[n] = "end"
                /\ IsInjective(deferred)
    /\ \A n \in Node : Contains(drainq, n) => Contains(deferred, n)
    /\ IsInjective(drainq)
    /\ \A n \in Node : task[n] # "none" => ~Contains(deferred, n)
    /\ drainq # <<>> => pc = "drain" \/ (pc = "run" /\ mode = "drain")

\* The two halves of WaitLedger.
WaitsRecorded == \A n \in Node : st[n] = "Waiting" => waitOpen[n]
RecordsWait == \A n \in Node : waitOpen[n] => st[n] = "Waiting"

\* What a waiting node waits for.  (A resumed run begins with records left open.)
WaitStates ==
    /\ WaitsRecorded
    /\ \A n \in Node : waitOpen[n] => waitOn[n] # NoNode
    /\ \A n \in Node : waitOpen[n] /\ plan.producer[n] # NoNode
          => waitOn[n] = plan.producer[n] \/ st[plan.producer[n]] = "Completed"

\* What a committed node reads is there.
InputStates ==
    /\ InjectedCompleted
    /\ \A n \in Committed :
          plan.producer[n] # NoNode => st[plan.producer[n]] = "Completed"

\* A pause ends the run and leaves its cause in place.
PauseStates == runState = "PausedForDependency" => Over /\ PauseHasCause

IInv ==
    /\ TypeOK
    /\ WellFormed(plan)
    /\ TaskStates
    /\ QueuedStates
    /\ DeferredStates
    /\ WaitStates
    /\ InputStates
    /\ PauseStates
    /\ CheckpointNeverAhead

-----------------------------------------------------------------------------
\* What is known besides of the outcome of a run (PlanOutcomeProofs).

\* A verdict is on record until the shard is joined, and a failure is one.
VerdictStates ==
    /\ stop => \E n \in Node : task[n] = "end"
    /\ ~Over => \A n \in Node : st[n] = "Failed" => task[n] = "end" /\ stop

\* A sensitive node gets no further than the head of its level.
SensitiveStates ==
    /\ SensitiveNeverRuns
    /\ \A n \in plan.sensitive : n \notin todo \cup ready \cup Shard

\* What completed is in the checkpoint, but for the tasks since the last drain; of
\* a node that ran alone and stopped the plan there is nothing to save.
SavedStates ==
    /\ pc \in {"layer", "prepare", "done"} =>
          \A n \in Node : st[n] = "Completed" => ckpt[n] = "Completed"
    /\ pc = "run" /\ mode = "serial" =>
          /\ \A m, n \in Shard : m = n
          /\ \A n \in Node : st[n] = "Completed" => ckpt[n] = "Completed" \/ (n \in Shard /\ ~stop)

\* A node is Pending only as long as its turn is to come; a shard is of one level,
\* and a drain runs one node at a time.
VisitedStates ==
    plan.par > 1 /\ ~Over =>
        /\ \A n \in Node : st[n] = "Pending" => n \in Ahead \cup todo \cup ready \/ task[n] = "new"
        /\ \A n \in todo \cup ready : plan.level[n] = lvl
        /\ pc = "run" => \/ mode = "drain" /\ \A m, n \in Shard : m = n
                         \/ mode # "drain" /\ \A n \in Shard : plan.level[n] = lvl

\* Why a plan is over.
FinishStates ==
    /\ runState = "Finished" /\ ~Over => stop /\ \E n \in Node : st[n] = "Failed"
    /\ \A n \in Node : st[n] = "AwaitingApproval" => Over /\ runState = "PausedForApproval"
    /\ final => lvl > LastLevel /\ pc # "prepare"
    /\ Declared => \A n \in Node : task[n] = "end" => st[n] # "Waiting"
    /\ Declared /\ final /\ ~Over => \A n \in Node : Contains(deferred, n) => Contains(drainq, n)
    /\ FinishedCleanly

\* Some node of every set waits for none of the set: what keeps the wait records
\* free of cycles, however many of them there are.
WaitsGrounded ==
    Declared => \A S \in SUBSET Node : S # {} => \E n \in S : waitOn[n] \notin S

OutcomeInv ==
    /\ VerdictStates
    /\ SensitiveStates
    /\ SavedStates
    /\ VisitedStates
    /\ FinishStates
=============================================================================
