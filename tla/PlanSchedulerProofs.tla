------------------------- MODULE PlanSchedulerProofs -------------------------
(***************************************************************************)
(* Proofs about PlanScheduler, for every number of nodes and every set of  *)
(* well-formed plans: IInv is an inductive invariant (one lemma per action *)
(* of Next, one step per conjunct of IInv), and the safety properties that *)
(* follow from it.                                                         *)
(***************************************************************************)
EXTENDS PlanScheduler, ListLemmas, FiniteSetTheorems

-----------------------------------------------------------------------------
\* Types.

\* A node is a number, and none of them is "no node".
LEMMA NodeFacts == Node \subseteq Nat /\ NoNode \notin Node /\ N \in Node
  BY SizeAssumption DEF Node, NoNode

\* The names of the node states that the proofs tell apart.
LEMMA StateNames ==
  /\ "Pending" \in NodeState /\ "Waiting" \in NodeState
  /\ "AwaitingClarification" \in NodeState /\ "AwaitingApproval" \in NodeState
  /\ "Running" \in NodeState /\ "Completed" \in NodeState
  /\ "Failed" \in NodeState /\ "Skipped" \in NodeState
  BY DEF NodeState

\* The names of the run states.
LEMMA RunStateNames ==
  /\ "Running" \in RunState /\ "PausedForApproval" \in RunState
  /\ "Finished" \in RunState /\ "PausedForDependency" \in RunState
  /\ "Cancelled" \in RunState
  BY DEF RunState

\* SkipRemaining gives every node a state.
LEMMA SkipRemainingType ==
  ASSUME NEW s \in [Node -> NodeState], NEW n
  PROVE  SkipRemaining(s, n) \in [Node -> NodeState]
  BY StateNames DEF SkipRemaining

\* FailPlan gives every node a state.
LEMMA FailFastType ==
  ASSUME NEW s \in [Node -> NodeState], NEW n \in Node
  PROVE  FailFast(s, n) \in [Node -> NodeState]
  BY StateNames, SkipRemainingType DEF FailFast

\* A list of the members of a set of nodes is a list of nodes.
LEMMA InOrderType ==
  ASSUME NEW S \in SUBSET Node, NEW w \in InOrder(S)
  PROVE  /\ w \in Seq(Node)
         /\ IsInjective(w)
         /\ \A n : Contains(w, n) <=> n \in S
<1>1. IsFiniteSet(S)
  <2>1. IsFiniteSet(Node)
    BY FS_Interval, SizeAssumption DEF Node
  <2> QED
    BY <2>1, FS_Subset
<1>2. Cardinality(S) \in Nat
  BY <1>1, FS_CardinalityType
<1>3. w \in [1..Cardinality(S) -> S] /\ DOMAIN w = 1..Cardinality(S)
  BY DEF InOrder
<1>4. w \in Seq(Node) /\ Len(w) = Cardinality(S)
  BY <1>2, <1>3
<1>5. \A n \in S : \E i \in 1..Len(w) : w[i] = n
  BY <1>3, <1>4 DEF InOrder
<1>6. \A i, j \in DOMAIN w : i < j => w[i] < w[j]
  BY DEF InOrder
<1>7. \A i \in 1..Len(w) : w[i] \in S /\ w[i] \in Nat
  BY <1>3, <1>4, NodeFacts
<1>8. ASSUME NEW i \in 1..Len(w), NEW j \in 1..Len(w), w[i] = w[j] PROVE i = j
  BY <1>2, <1>3, <1>4, <1>6, <1>7, <1>8
<1> QED
  BY <1>3, <1>4, <1>5, <1>7, <1>8 DEF IsInjective, Contains

\* The node a drain looks at is deferred: it waits, and its record is open.
LEMMA DrainingWaits ==
  ASSUME IInv, NEW n \in Node, Draining(n)
  PROVE  /\ st[n] = "Waiting" /\ waitOpen[n] /\ waitOn[n] \in Node
         /\ Contains(deferred, n) /\ IsInjective(deferred) /\ deferred \in Seq(Node)
<1>1. Contains(drainq, n) /\ ~Over
  BY DEF Draining, Over, IInv, TypeOK, Contains
<1>2. Contains(deferred, n) /\ IsInjective(deferred) /\ deferred \in Seq(Node)
  BY <1>1 DEF IInv, DeferredStates, TypeOK
<1>3. st[n] = "Waiting"
  BY <1>1, <1>2 DEF IInv, DeferredStates
<1>4. waitOpen[n] /\ waitOn[n] \in Node
  BY <1>3 DEF IInv, WaitStates, WaitsRecorded, TypeOK
<1> QED
  BY <1>2, <1>3, <1>4

\* Taking questions away leaves a plan.
LEMMA AnsweredType ==
  ASSUME NEW p \in PlanType, NEW answered
  PROVE  /\ [p EXCEPT !.unclear = @ \ answered] \in PlanType
         /\ [p EXCEPT !.unclear = @ \ answered].level = p.level
         /\ [p EXCEPT !.unclear = @ \ answered].producer = p.producer
         /\ [p EXCEPT !.unclear = @ \ answered].dependsOn = p.dependsOn
  BY DEF PlanType

\* What Return leaves behind is well typed.
LEMMA ReturnType ==
  ASSUME TypeOK, NEW s \in [Node -> NodeState], NEW saved \in BOOLEAN, Return(s, saved)
  PROVE  /\ pc' = "done" /\ st' \in [Node -> NodeState] /\ ckpt' \in [Node -> NodeState]
         /\ todo' = {} /\ ready' = {} /\ drainq' \in Seq(Node)
  BY DEF Return, TypeOK

\* Every step keeps the types.
LEMMA TypeStep == IInv /\ [Next]_vars => TypeOK'
<1> SUFFICES ASSUME IInv, [Next]_vars PROVE TypeOK'
  OBVIOUS
<1>0. TypeOK
  BY DEF IInv
<1> USE <1>0, StateNames, RunStateNames DEF TypeOK, recordVars, taskVars, TaskFrame
<1>1. CASE LayerCancel
  <2>1. CASE Batch = {}
    BY <1>1, <2>1 DEF LayerCancel
  <2>2. CASE Batch # {}
    <3>1. PICK n \in Node : Return(SkipRemaining(st, n), TRUE)
      BY <1>1, <2>2 DEF LayerCancel
    <3> QED
      BY <1>1, <3>1, SkipRemainingType, ReturnType DEF LayerCancel
  <2> QED
    BY <2>1, <2>2
<1>2. CASE LayerSkip
  <2>1. st' \in [Node -> NodeState]
    BY <1>2 DEF LayerSkip
  <2>2. lvl' \in Nat
    BY <1>2 DEF LayerSkip, NextLevel
  <2> QED
    BY <1>2, <2>1, <2>2 DEF LayerSkip, NextLevel
<1>3. CASE LayerPause
  BY <1>3 DEF LayerPause, Return
<1>4. CASE LayerEnter
  <2>1. plan' \in PlanType
    <3>1. PICK answered \in SUBSET (Batch \cap plan.unclear) :
             plan' = [plan EXCEPT !.unclear = @ \ answered]
      BY <1>4 DEF LayerEnter
    <3> QED
      BY <3>1, AnsweredType
  <2>2. st' \in [Node -> NodeState]
    BY <1>4 DEF LayerEnter
  <2>3. lvl' \in Nat /\ todo' \in SUBSET Node
    BY <1>4 DEF LayerEnter, NextLevel, Batch
  <2>4. pc' \in {"layer", "prepare"}
    BY <1>4 DEF LayerEnter, NextLevel
  <2> QED
    BY <1>4, <2>1, <2>2, <2>3, <2>4 DEF LayerEnter
<1>5. CASE LayersDone
  BY <1>5 DEF LayersDone
<1>6. CASE PrepareNoneReady
  BY <1>6 DEF PrepareNoneReady
<1>7. CASE StartShard
  <2>1. task' \in [Node -> {"none", "new", "run", "backoff", "again", "end"}]
    BY <1>7 DEF StartShard, CreateTasks
  <2> QED
    BY <1>7, <2>1 DEF StartShard
<1>8. ASSUME NEW n \in Node, PrepareReady(n) PROVE TypeOK'
  <2>1. deps' \in [Node -> SUBSET Node]
    <3>1. plan.producer[n] \in Node \cup {NoNode}
      BY DEF PlanType
    <3> QED
      BY <1>8, <3>1 DEF PrepareReady
  <2> QED
    BY <1>8, <2>1 DEF PrepareReady
<1>9. ASSUME NEW n \in Node, PrepareFail(n) PROVE TypeOK'
  BY <1>9, FailFastType, ReturnType DEF PrepareFail
<1>10. ASSUME NEW n \in Node, PreparePause(n) PROVE TypeOK'
  <2>1. plan.producer[n] \in Node \cup {NoNode}
    BY DEF PlanType
  <2> QED
    BY <1>10, <2>1, ReturnType DEF PreparePause, NowWaiting, RecordWait
<1>11. ASSUME NEW n \in Node, PrepareWait(n) PROVE TypeOK'
  <2>1. plan.producer[n] \in Node \cup {NoNode}
    BY DEF PlanType
  <2> QED
    BY <1>11, <2>1 DEF PrepareWait, NowWaiting, RecordWait
<1>12. ASSUME NEW n \in Node,
              StartNode(n) \/ RunnerSettles(n) \/ RunnerRetries(n) \/ BackoffEnds(n)
       PROVE  TypeOK'
  <2>1. CASE StartNode(n)
    BY <2>1 DEF StartNode
  <2>4. CASE BackoffEnds(n)
    BY <2>4 DEF BackoffEnds
  <2>2. CASE RunnerSettles(n)
    BY <2>2 DEF RunnerSettles, EndTask
  <2>3. CASE RunnerRetries(n)
    <3>1. attempt[n] + 1 \in Nat
      OBVIOUS
    <3>2. attempt' \in [Node -> Nat]
      BY <2>3, <3>1 DEF RunnerRetries
    <3> QED
      BY <2>3, <3>2 DEF RunnerRetries
  <2> QED
    BY <1>12, <2>1, <2>2, <2>3, <2>4
<1>13. ASSUME NEW n \in Node, NEW s \in [Node -> NodeState], NEW rs \in RunState,
              Verdict(n, s, rs), UNCHANGED <<TaskFrame, recordVars>>
       PROVE  TypeOK'
  BY <1>13 DEF Verdict, EndTask
<1>14. ASSUME NEW n \in Node, BlockNode(n) \/ RunnerFails(n) PROVE TypeOK'
  BY <1>13, <1>14, FailFastType DEF BlockNode, RunnerFails
<1>15. ASSUME NEW n \in Node, RunnerCancelled(n) PROVE TypeOK'
  BY <1>13, <1>15 DEF RunnerCancelled
<1>16. ASSUME NEW n \in Node, NEW p \in Node, NeedInject(n, p) PROVE TypeOK'
  <2>1. reinj' \in [Node -> 0..2]
    <3>1. reinj[n] \in 0..2 /\ reinj[n] < 2
      BY <1>16 DEF NeedInject, NeedReady
    <3>2. reinj[n] + 1 \in 0..2
      BY <3>1
    <3> QED
      BY <1>16, <3>2 DEF NeedInject
  <2>2. deps' \in [Node -> SUBSET Node]
    BY <1>16 DEF NeedInject
  <2> QED
    BY <1>16, <2>1, <2>2 DEF NeedInject
<1>17. ASSUME NEW n \in Node, NEW p \in Node, NeedRepeated(n, p) PROVE TypeOK'
  BY <1>13, <1>17, FailFastType DEF NeedRepeated
<1>18. ASSUME NEW n \in Node, NEW p \in Node, NeedWait(n, p) PROVE TypeOK'
  BY <1>18 DEF NeedWait, NowWaiting, RecordWait, EndTask
<1>19. CASE LevelStops
  <2>1. PICK q : ResolveDeferred(q) /\ Return(Resolved(st, q), mode = "shards")
    BY <1>19 DEF LevelStops
  <2>2. Resolved(st, q) \in [Node -> NodeState]
    BY DEF Resolved
  <2>3. task' \in [Node -> {"none", "new", "run", "backoff", "again", "end"}]
    BY <1>19 DEF LevelStops, ClearTasks
  <2>4. waitOpen' \in [Node -> BOOLEAN] /\ deferred' \in Seq(Node)
    BY <2>1 DEF ResolveDeferred
  <2> QED
    BY <1>19, <2>1, <2>2, <2>3, <2>4, ReturnType DEF LevelStops, ClearTasks
<1>20. \A w \in InOrder(ShardWaits) : deferred \o w \in Seq(Node)
  <2>1. ASSUME NEW w \in InOrder(ShardWaits) PROVE w \in Seq(Node)
    BY <2>1, InOrderType DEF ShardWaits, Shard
  <2> QED
    BY <2>1
<1>21. CASE ShardEnds
  <2>1. task' \in [Node -> {"none", "new", "run", "backoff", "again", "end"}]
    BY <1>21 DEF ShardEnds, ClearTasks, CreateTasks
  <2>2. deferred' \in Seq(Node) /\ drainq' \in Seq(Node)
    BY <1>20, <1>21 DEF ShardEnds
  <2> QED
    BY <1>21, <2>1, <2>2 DEF ShardEnds, ClearTasks
<1>22. CASE DrainedEnds
  <2>1. task' \in [Node -> {"none", "new", "run", "backoff", "again", "end"}]
    BY <1>22 DEF DrainedEnds, ClearTasks
  <2>2. CASE stop
    BY <1>22, <2>1, <2>2, ReturnType DEF DrainedEnds, ClearTasks
  <2>3. CASE ~stop
    <3>1. deferred' \in Seq(Node)
      BY <1>20, <1>22, <2>3 DEF DrainedEnds
    <3> QED
      BY <1>22, <2>1, <2>3, <3>1 DEF DrainedEnds, ClearTasks
  <2> QED
    BY <2>2, <2>3
<1>23. ASSUME NEW n \in Node, Draining(n), CloseWait(n)
       PROVE  waitOpen' \in [Node -> BOOLEAN] /\ deferred' \in Seq(Node)
  BY <1>23, DrainingWaits, RemoveFirstMembers DEF CloseWait
<1>24. ASSUME NEW n \in Node, Draining(n)
       PROVE  Tail(drainq) \in Seq(Node)
  BY <1>24 DEF Draining
<1>25. ASSUME NEW n \in Node, DrainWake(n) PROVE TypeOK'
  <2>1. waitOn[n] \in Node
    BY <1>25, DrainingWaits DEF DrainWake
  <2>2. deps' \in [Node -> SUBSET Node]
    BY <1>25, <2>1 DEF DrainWake
  <2> QED
    BY <1>23, <1>24, <1>25, <2>2 DEF DrainWake
<1>26. ASSUME NEW n \in Node, DrainFail(n) PROVE TypeOK'
  BY <1>23, <1>26, ReturnType, FailFastType DEF DrainFail
<1>27. ASSUME NEW n \in Node, DrainPause(n) PROVE TypeOK'
  BY <1>27, ReturnType DEF DrainPause
<1>28. ASSUME NEW n \in Node, DrainKeep(n) PROVE TypeOK'
  BY <1>24, <1>28 DEF DrainKeep
<1>29. CASE DrainEnds
  BY <1>29 DEF DrainEnds, NextLevel
<1>30. CASE Finish
  BY <1>30, ReturnType DEF Finish
<1>31. CASE UNCHANGED vars
  BY <1>31 DEF vars
<1> QED
  BY <1>1, <1>2, <1>3, <1>4, <1>5, <1>6, <1>7, <1>8, <1>9, <1>10, <1>11, <1>12, <1>14,
     <1>15, <1>16, <1>17, <1>18, <1>19, <1>21, <1>22, <1>25, <1>26, <1>27, <1>28, <1>29,
     <1>30, <1>31
  DEF Next, Layer, Prepare, Tasks, Join, Drain, Terminated, DrainTimeout, DrainGiveUp

\* A step that touches no wait record and moves no node in or out of Waiting
\* keeps WaitStates, as long as completed producers stay completed.
LEMMA WaitsKept ==
  ASSUME WaitStates, UNCHANGED <<plan, waitOn, waitOpen>>,
         \A n \in Node : st'[n] = "Waiting" <=> st[n] = "Waiting",
         \A n \in Node : st[n] = "Completed" => st'[n] = "Completed",
         TypeOK
  PROVE  WaitStates'
<1>1. \A n \in Node : plan.producer[n] # NoNode => plan.producer[n] \in Node
  BY DEF TypeOK, PlanType
<1> QED
  BY <1>1 DEF WaitStates, WaitsRecorded

\* SkipRemaining changes Pending nodes only, to Skipped.
LEMMA SkipRemainingKeeps ==
  ASSUME NEW s \in [Node -> NodeState], NEW n
  PROVE  \A m \in Node :
            /\ SkipRemaining(s, n)[m] = s[m]
               \/ (s[m] = "Pending" /\ SkipRemaining(s, n)[m] = "Skipped")
  BY DEF SkipRemaining

\* FailPlan fails one node and skips Pending ones.
LEMMA FailFastKeeps ==
  ASSUME NEW s \in [Node -> NodeState], NEW n \in Node
  PROVE  /\ FailFast(s, n)[n] = "Failed"
         /\ \A m \in Node \ {n} :
               \/ FailFast(s, n)[m] = s[m]
               \/ s[m] = "Pending" /\ FailFast(s, n)[m] = "Skipped"
<1> DEFINE t == [s EXCEPT ![n] = "Failed"]
<1>1. t \in [Node -> NodeState] /\ t[n] = "Failed" /\ \A m \in Node \ {n} : t[m] = s[m]
  BY StateNames
<1> HIDE DEF t
<1>2. FailFast(s, n) = SkipRemaining(t, n)
  BY DEF FailFast, t
<1> QED
  BY <1>1, <1>2, SkipRemainingKeeps

\* Outside the "run" phase no task exists and no node is Running.
LEMMA NoTaskOutsideRun ==
  ASSUME IInv, pc # "run"
  PROVE  ~stop /\ \A n \in Node : task[n] = "none" /\ st[n] # "Running"
  BY DEF IInv, TaskStates, Shard, Active

\* A step by which ExecuteAsync returns keeps the invariant, if the states it
\* returns agree with the records.
LEMMA ReturnStep ==
  ASSUME IInv, TypeOK', NEW s, NEW saved \in BOOLEAN, Return(s, saved),
         UNCHANGED <<plan, deps>>,
         \A n \in Node : task'[n] = "none",
         ~stop',
         \A n \in Node : s[n] # "Running",
         \A n \in Node : st[n] = "Completed" => s[n] = "Completed",
         WaitStates',
         PauseStates'
  PROVE  IInv'
<1>1. pc' = "done" /\ st' = s /\ todo' = {} /\ ready' = {} /\ drainq' = <<>>
  BY DEF Return
<1>2. Over' /\ Shard' = {} /\ Active' = {}
  BY <1>1 DEF Over, Shard, Active
<1>3. WellFormed(plan)'
  BY DEF IInv
<1>4. TaskStates'
  BY <1>1, <1>2 DEF TaskStates
<1>5. QueuedStates'
  BY <1>1, <1>2 DEF QueuedStates
<1>6. DeferredStates'
  BY <1>1, <1>2, EmptyList DEF DeferredStates
<1>7. InputStates'
  <2>1. InjectedCompleted'
    BY <1>1 DEF IInv, TypeOK, InputStates, InjectedCompleted
  <2>2. Committed' = {}
    BY <1>1 DEF Committed
  <2> QED
    BY <2>1, <2>2 DEF InputStates
<1>8. CheckpointNeverAhead'
  BY DEF Return, IInv, CheckpointNeverAhead
<1> QED
  BY <1>3, <1>4, <1>5, <1>6, <1>7, <1>8 DEF IInv

\* Before the end of a run it is not paused for a dependency.
LEMMA NotPaused ==
  ASSUME runState' # "PausedForDependency"
  PROVE  PauseStates'
  BY DEF PauseStates

\* A cancel instruction keeps the invariant.
LEMMA LayerCancelStep ==
  ASSUME IInv, TypeOK', LayerCancel
  PROVE  IInv'
<1>1. pc = "layer" /\ ~Over /\ UNCHANGED <<plan, waitOn, waitOpen, deps, deferred, lvl, task, stop, final>>
  BY DEF LayerCancel, recordVars, taskVars, Over
<1>2. PauseStates'
  BY NotPaused DEF LayerCancel
<1>3. CASE Batch = {}
  <2>1. pc' = "thrown" /\ UNCHANGED <<st, ckpt, todo, ready, drainq>>
    BY <1>3 DEF LayerCancel
  <2>2. Over' /\ Shard' = Shard /\ Active' = Active
    BY <1>1, <2>1 DEF Over, Shard, Active
  <2>3. TaskStates'
    BY <1>1, <2>1, <2>2 DEF IInv, TaskStates
  <2>4. QueuedStates'
    BY <1>1, <2>1, <2>2 DEF IInv, QueuedStates, TaskStates
  <2>5. DeferredStates'
    BY <1>1, <2>1, <2>2 DEF IInv, DeferredStates
  <2>6. WaitStates' /\ InputStates' /\ CheckpointNeverAhead' /\ WellFormed(plan)'
    BY <1>1, <2>1 DEF IInv, WaitStates, WaitsRecorded, InputStates, InjectedCompleted,
                      Committed, CheckpointNeverAhead
  <2> QED
    BY <1>2, <2>3, <2>4, <2>5, <2>6 DEF IInv
<1>4. CASE Batch # {}
  <2>1. PICK n \in Node : Return(SkipRemaining(st, n), TRUE)
    BY <1>4 DEF LayerCancel
  <2> DEFINE s == SkipRemaining(st, n)
  <2>2. \A m \in Node : s[m] = st[m] \/ (st[m] = "Pending" /\ s[m] = "Skipped")
    BY SkipRemainingKeeps DEF IInv, TypeOK
  <2>3. Return(s, TRUE) /\ st' = s
    BY <2>1 DEF Return
  <2> HIDE DEF s
  <2>4. WaitStates'
    BY <1>1, <2>2, <2>3, WaitsKept DEF IInv
  <2> QED
    BY <1>1, <1>2, <2>2, <2>3, <2>4, NoTaskOutsideRun, ReturnStep
<1> QED
  BY <1>3, <1>4

\* A pause for approval keeps the invariant.
LEMMA LayerPauseStep ==
  ASSUME IInv, TypeOK', LayerPause
  PROVE  IInv'
<1>1. /\ pc = "layer"
      /\ UNCHANGED <<plan, waitOn, waitOpen, deps, task, stop>>
  BY DEF LayerPause, recordVars, taskVars
<1>2. PICK n \in Node : /\ IsFirst(n, Batch \cap plan.sensitive)
                        /\ Return([st EXCEPT ![n] = "AwaitingApproval"], TRUE)
  BY DEF LayerPause, Unapproved
<1>3. st[n] \notin {"Completed", "Waiting"}
  <2>1. n \in Ahead /\ ~Over
    BY <1>1, <1>2 DEF IsFirst, Batch, Ahead, Over
  <2> QED
    BY <1>2, <2>1 DEF IInv, QueuedStates, IsFirst, Batch
<1> DEFINE s == [st EXCEPT ![n] = "AwaitingApproval"]
<1>4. s[n] = "AwaitingApproval" /\ \A m \in Node \ {n} : s[m] = st[m]
  BY DEF IInv, TypeOK
<1>5. Return(s, TRUE) /\ st' = s
  BY <1>2 DEF Return
<1> HIDE DEF s
<1>6. WaitStates'
  BY <1>1, <1>3, <1>4, <1>5, WaitsKept DEF IInv
<1>7. PauseStates'
  BY NotPaused DEF LayerPause
<1> QED
  BY <1>1, <1>3, <1>4, <1>5, <1>6, <1>7, NoTaskOutsideRun, ReturnStep

\* A node that fails while it is prepared keeps the invariant.
LEMMA PrepareFailStep ==
  ASSUME IInv, TypeOK', NEW n \in Node, PrepareFail(n)
  PROVE  IInv'
<1>1. /\ pc = "prepare" /\ n \in todo
      /\ UNCHANGED <<plan, waitOn, waitOpen, deps, task, stop>>
  BY DEF PrepareFail, Preparing, IsFirst, recordVars, taskVars
<1>2. st[n] \notin {"Completed", "Waiting"}
  BY <1>1 DEF IInv, QueuedStates
<1> DEFINE s == FailFast(st, n)
<1>3. /\ s[n] = "Failed"
      /\ \A m \in Node \ {n} : s[m] = st[m] \/ (st[m] = "Pending" /\ s[m] = "Skipped")
  <2>1. st \in [Node -> NodeState]
    BY DEF IInv, TypeOK
  <2> QED
    BY <2>1, FailFastKeeps
<1>4. Return(s, TRUE) /\ st' = s
  BY DEF Return, PrepareFail
<1> HIDE DEF s
<1>5. WaitStates'
  BY <1>1, <1>2, <1>3, <1>4, WaitsKept DEF IInv
<1>6. PauseStates'
  BY NotPaused DEF PrepareFail
<1> QED
  BY <1>1, <1>2, <1>3, <1>4, <1>5, <1>6, NoTaskOutsideRun, ReturnStep

\* The producer of a node, when there is one, is another node.
LEMMA ProducerType ==
  ASSUME TypeOK, WellFormed(plan), NEW n \in Node
  PROVE  /\ plan.producer[n] \in Node \cup {NoNode}
         /\ plan.producer[n] # n
  BY DEF TypeOK, PlanType, WellFormed

\* A node that is not completed starts to wait for its declared producer.
LEMMA WaitBegins ==
  ASSUME IInv, NEW n \in Node, NEW p \in Node, st[n] # "Completed", UNCHANGED plan,
         st' = NowWaiting(n), RecordWait(n, p),
         plan.producer[n] # NoNode =>
            p = plan.producer[n] \/ st[plan.producer[n]] = "Completed"
  PROVE  WaitStates'
<1>1. /\ st'[n] = "Waiting" /\ waitOn'[n] = p /\ waitOpen'[n]
      /\ \A m \in Node \ {n} : /\ st'[m] = st[m] /\ waitOn'[m] = waitOn[m]
                               /\ waitOpen'[m] = waitOpen[m]
  BY DEF IInv, TypeOK, NowWaiting, RecordWait
<1>2. WaitsRecorded'
  BY <1>1 DEF IInv, WaitStates, WaitsRecorded
<1>3. \A m \in Node : waitOpen'[m] => waitOn'[m] # NoNode
  BY <1>1, NodeFacts DEF IInv, WaitStates, WaitsRecorded
<1>4. \A m \in Node : st[m] = "Completed" => st'[m] = "Completed"
  BY <1>1
<1>5. ASSUME NEW m \in Node, waitOpen'[m], plan.producer[m] # NoNode
      PROVE  waitOn'[m] = plan.producer[m] \/ st'[plan.producer[m]] = "Completed"
  <2>1. plan.producer[m] \in Node
    BY <1>5, ProducerType DEF IInv
  <2> QED
    BY <1>1, <1>4, <1>5, <2>1 DEF IInv, WaitStates, WaitsRecorded
<1> QED
  BY <1>2, <1>3, <1>5 DEF WaitStates, WaitsRecorded

\* A pause for a dependency while a level is prepared keeps the invariant.
LEMMA PreparePauseStep ==
  ASSUME IInv, TypeOK', NEW n \in Node, PreparePause(n)
  PROVE  IInv'
<1> DEFINE p == plan.producer[n]
           s == NowWaiting(n)
<1>1. /\ pc = "prepare" /\ n \in todo /\ p # NoNode /\ st[p] \in AwaitingUser
      /\ UNCHANGED <<plan, deps, task, stop>> /\ RecordWait(n, p)
      /\ Return(s, TRUE) /\ st' = s
  BY DEF PreparePause, Preparing, IsFirst, taskVars, Return
<1>2. p \in Node /\ p # n
  BY <1>1, ProducerType DEF IInv
<1>3. st[n] \notin {"Completed", "Waiting"}
  BY <1>1 DEF IInv, QueuedStates
<1>4. s[n] = "Waiting" /\ \A m \in Node \ {n} : s[m] = st[m]
  BY DEF IInv, TypeOK, NowWaiting
<1>5. WaitStates'
  BY <1>1, <1>2, <1>3, WaitBegins
<1>6. PauseStates'
  <2>1. st'[n] = "Waiting" /\ waitOpen'[n] /\ waitOn'[n] = p /\ st'[p] \in AwaitingUser
    BY <1>1, <1>2, <1>4 DEF RecordWait, IInv, TypeOK
  <2>2. Over'
    BY <1>1 DEF Return, Over
  <2> QED
    BY <2>1, <2>2 DEF PauseStates, PauseHasCause
<1> HIDE DEF p, s
<1> QED
  BY <1>1, <1>3, <1>4, <1>5, <1>6, NoTaskOutsideRun, ReturnStep

\* Once its tasks are over, ExecuteAsync finds none of its nodes Running.
LEMMA ReturnedNotRunning ==
  ASSUME IInv, AllReturned
  PROVE  \A n \in Node : st[n] # "Running" /\ task[n] \in {"none", "end"}
<1>1. \A n \in Node : task[n] \in {"none", "end"}
  BY DEF AllReturned, Shard
<1>2. Active = {}
  BY <1>1 DEF Active
<1> QED
  BY <1>1, <1>2 DEF IInv, TaskStates

\* The end of a level that was stopped keeps the invariant.
LEMMA LevelStopsStep ==
  ASSUME IInv, TypeOK', LevelStops
  PROVE  IInv'
<1>1. /\ pc = "run" /\ ~Over /\ AllReturned
      /\ UNCHANGED <<plan, runState, waitOn, deps>>
      /\ ~stop' /\ \A n \in Node : task'[n] = "none"
  BY DEF LevelStops, AllReturned, Over, ClearTasks
<1>2. PICK w \in InOrder(ShardWaits) :
        LET q == IF mode = "shards" THEN deferred \o w ELSE deferred IN
        ResolveDeferred(q) /\ Return(Resolved(st, q), mode = "shards")
  BY DEF LevelStops
<1> DEFINE q == IF mode = "shards" THEN deferred \o w ELSE deferred
           s == Resolved(st, q)
<1>3. ResolveDeferred(q) /\ Return(s, mode = "shards") /\ st' = s
  BY <1>2 DEF Return
<1>4. deferred \in Seq(Node) /\ ShardWaits \in SUBSET Node
  BY DEF IInv, TypeOK, ShardWaits, Shard
<1>5. \A n \in Node : Contains(q, n) => st[n] = "Waiting"
  <2>1. w \in Seq(Node) /\ \A n \in Node : Contains(w, n) => st[n] = "Waiting"
    BY <1>4, InOrderType DEF ShardWaits
  <2>2. \A n \in Node : Contains(deferred, n) => st[n] = "Waiting"
    BY <1>1 DEF IInv, DeferredStates
  <2> QED
    BY <1>4, <2>1, <2>2, ConcatMembers
<1> HIDE DEF q
<1>6. \A n \in Node : \/ /\ ~Contains(q, n)
                         /\ s[n] = st[n] /\ waitOpen'[n] = waitOpen[n]
                      \/ /\ st[n] = "Waiting" /\ s[n] \in Lost /\ ~waitOpen'[n]
  BY <1>3, <1>5 DEF Resolved, ResolveDeferred, Lost, IInv, TypeOK
<1> HIDE DEF s
<1>7. WaitStates'
  <2>1. WaitsRecorded'
    BY <1>3, <1>6 DEF IInv, WaitStates, WaitsRecorded, Lost
  <2>2. \A n \in Node : waitOpen'[n] => waitOpen[n]
    BY <1>6
  <2>3. \A n \in Node : st[n] = "Completed" => st'[n] = "Completed"
    BY <1>3, <1>6
  <2> QED
    BY <1>1, <2>1, <2>2, <2>3, ProducerType DEF IInv, WaitStates, WaitsRecorded
<1>8. PauseStates'
  BY <1>1 DEF IInv, PauseStates
<1>9. \A n \in Node : s[n] # "Running" /\ (st[n] = "Completed" => s[n] = "Completed")
  BY <1>1, <1>6, ReturnedNotRunning DEF Lost
<1>10. (mode = "shards") \in BOOLEAN
  OBVIOUS
<1> QED
  BY <1>1, <1>3, <1>7, <1>8, <1>9, <1>10, ReturnStep

\* The end of the last drain keeps the invariant.
LEMMA FinishStep ==
  ASSUME IInv, TypeOK', Finish
  PROVE  IInv'
<1>1. /\ pc = "drain" /\ Return(st, TRUE) /\ st' = st
      /\ UNCHANGED <<plan, deps, waitOn, waitOpen, task, stop>>
  BY DEF Finish, recordVars, taskVars, Return
<1>2. WaitStates'
  BY <1>1, WaitsKept DEF IInv
<1>3. PauseStates'
  BY NotPaused DEF Finish
<1> QED
  BY <1>1, <1>2, <1>3, NoTaskOutsideRun, ReturnStep

\* A pause found by a drain keeps the invariant.
LEMMA DrainPauseStep ==
  ASSUME IInv, TypeOK', NEW n \in Node, DrainPause(n)
  PROVE  IInv'
<1>1. /\ pc = "drain" /\ Return(st, TRUE) /\ st' = st
      /\ UNCHANGED <<plan, deps, waitOn, waitOpen, task, stop>>
      /\ Draining(n) /\ st[waitOn[n]] \in AwaitingUser
  BY DEF DrainPause, Draining, recordVars, taskVars, Return
<1>2. WaitStates'
  BY <1>1, WaitsKept DEF IInv
<1>3. PauseStates'
  <2>1. Over'
    BY <1>1 DEF Return, Over
  <2> QED
    BY <1>1, <2>1, DrainingWaits DEF PauseStates, PauseHasCause
<1> QED
  BY <1>1, <1>2, <1>3, NoTaskOutsideRun, ReturnStep

\* The wait record of a node that is given another state is closed with it.
LEMMA WaitCloses ==
  ASSUME IInv, NEW n \in Node, st[n] = "Waiting", UNCHANGED <<plan, waitOn>>,
         waitOpen' = [waitOpen EXCEPT ![n] = FALSE],
         st'[n] # "Waiting",
         \A m \in Node \ {n} : \/ st'[m] = st[m]
                               \/ st[m] = "Pending" /\ st'[m] = "Skipped"
  PROVE  WaitStates'
<1>1. ~waitOpen'[n] /\ \A m \in Node \ {n} : waitOpen'[m] = waitOpen[m]
  BY DEF IInv, TypeOK
<1>2. WaitsRecorded'
  BY <1>1 DEF IInv, WaitStates, WaitsRecorded
<1>3. \A m \in Node : waitOpen'[m] => waitOpen[m]
  BY <1>1
<1>4. \A m \in Node : st[m] = "Completed" => st'[m] = "Completed"
  OBVIOUS
<1> QED
  BY <1>2, <1>3, <1>4, ProducerType DEF IInv, WaitStates, WaitsRecorded

\* A failure found by a drain keeps the invariant.
LEMMA DrainFailStep ==
  ASSUME IInv, TypeOK', NEW n \in Node, DrainFail(n)
  PROVE  IInv'
<1> DEFINE s == FailFast(st, n)
<1>1. /\ pc = "drain" /\ Draining(n) /\ CloseWait(n) /\ Return(s, TRUE) /\ st' = s
      /\ UNCHANGED <<plan, deps, waitOn, task, stop>>
  BY DEF DrainFail, Draining, taskVars, Return
<1>2. st[n] = "Waiting"
  BY <1>1, DrainingWaits
<1>3. /\ s[n] = "Failed"
      /\ \A m \in Node \ {n} : s[m] = st[m] \/ (st[m] = "Pending" /\ s[m] = "Skipped")
  <2>1. st \in [Node -> NodeState]
    BY DEF IInv, TypeOK
  <2> QED
    BY <2>1, FailFastKeeps
<1> HIDE DEF s
<1>4. WaitStates'
  BY <1>1, <1>2, <1>3, WaitCloses DEF CloseWait
<1>5. PauseStates'
  BY NotPaused DEF DrainFail
<1> QED
  BY <1>1, <1>2, <1>3, <1>4, <1>5, NoTaskOutsideRun, ReturnStep

-----------------------------------------------------------------------------
\* The steps after which ExecuteAsync goes on.

\* A step that does not end the run leaves PauseStates true.
LEMMA NotPausedYet ==
  ASSUME IInv, ~Over, runState' = runState
  PROVE  PauseStates'
  BY DEF IInv, PauseStates

\* Completed nodes stay completed, and so does what was read of them.
LEMMA CompletedStays ==
  ASSUME IInv, \A n \in Node : st[n] = "Completed" => st'[n] = "Completed"
  PROVE  /\ UNCHANGED deps => InjectedCompleted'
         /\ UNCHANGED ckpt => CheckpointNeverAhead'
<1>1. ASSUME UNCHANGED deps PROVE InjectedCompleted'
  BY <1>1 DEF IInv, TypeOK, InputStates, InjectedCompleted
<1>2. ASSUME UNCHANGED ckpt PROVE CheckpointNeverAhead'
  BY <1>2 DEF IInv, CheckpointNeverAhead
<1> QED
  BY <1>1, <1>2

\* At the head of a level nothing is queued and no task exists.
LEMMA LayerFacts ==
  ASSUME IInv, pc = "layer"
  PROVE  /\ ~Over /\ todo = {} /\ ready = {} /\ drainq = <<>> /\ ~stop
         /\ \A n \in Node : task[n] = "none" /\ st[n] # "Running"
         /\ \A n \in Node : plan.level[n] >= lvl => st[n] # "Waiting"
         /\ lvl \in Nat /\ plan.level \in [Node -> Nat]
<1>1. \A n \in Node : plan.level[n] \in Nat /\ (plan.level[n] >= lvl => n \in Ahead)
  BY DEF IInv, TypeOK, PlanType, Ahead
<1>2. ~Over
  BY DEF Over
<1> QED
  BY <1>1, <1>2, NoTaskOutsideRun DEF IInv, QueuedStates, DeferredStates, TypeOK, PlanType

\* A step from the head of a level that changes only nodes at that level or
\* above it, into states other than Running, Waiting and Completed.
LEMMA LayerStep ==
  ASSUME IInv, TypeOK', pc = "layer", WellFormed(plan)',
         plan'.level = plan.level, plan'.producer = plan.producer,
         UNCHANGED <<runState, waitOn, waitOpen, deps, deferred, ready, task, stop, ckpt>>,
         \A n \in Node : \/ st'[n] = st[n]
                         \/ /\ plan.level[n] >= lvl /\ st[n] # "Completed"
                            /\ st'[n] \notin {"Running", "Waiting", "Completed"},
         \A n \in Node : plan.level[n] >= lvl + 1 => st'[n] = st[n],
         \/ pc' = "layer" /\ lvl' = lvl + 1 /\ todo' = {} /\ drainq' = <<>>
         \/ /\ pc' = "prepare" /\ lvl' = lvl /\ drainq' = <<>>
            /\ \A n \in todo' : plan.level[n] = lvl /\ st[n] # "Completed" /\ st'[n] = st[n]
         \/ pc' = "drain" /\ lvl' = lvl /\ todo' = {} /\ drainq' = deferred
  PROVE  IInv'
<1>1. \A n \in Node : st'[n] # "Running" /\ (st'[n] = "Waiting" <=> st[n] = "Waiting")
                      /\ (st[n] = "Completed" => st'[n] = "Completed")
  BY LayerFacts
<1>2. Shard' = {} /\ Active' = {} /\ Committed' = {} /\ ~Over'
  BY LayerFacts DEF Shard, Active, Committed, Over
<1>3. TaskStates'
  BY <1>1, <1>2, LayerFacts DEF TaskStates
<1>4. QueuedStates'
  <2>1. \A n \in Ahead' : st'[n] \notin {"Running", "Waiting"}
    <3>1. \A n \in Ahead' : n \in Node /\ plan.level[n] >= lvl
      BY LayerFacts DEF Ahead
    <3> QED
      BY <1>1, <3>1, LayerFacts
  <2>2. ASSUME NEW n \in todo'
        PROVE  plan'.level[n] <= lvl' /\ st'[n] \notin {"Running", "Waiting", "Completed"}
    <3>1. n \in Node
      BY DEF TypeOK
    <3>2. plan.level[n] = lvl /\ lvl' = lvl /\ st[n] # "Completed" /\ st'[n] = st[n]
      BY <3>1
    <3> QED
      BY <1>1, <3>1, <3>2, LayerFacts
  <2>3. ready' = {} /\ (todo' # {} => pc' = "prepare")
    BY LayerFacts
  <2> QED
    BY <1>2, <2>1, <2>2, <2>3 DEF QueuedStates
<1>5. DeferredStates'
  <2>1. drainq' = <<>> \/ (drainq' = deferred /\ pc' = "drain")
    OBVIOUS
  <2>2. IsInjective(deferred)
    BY LayerFacts DEF IInv, DeferredStates
  <2> QED
    BY <1>1, <2>1, <2>2, EmptyList, LayerFacts DEF IInv, DeferredStates
<1>6. WaitStates'
  <2>1. \A n \in Node : plan.producer[n] # NoNode => plan.producer[n] \in Node
    BY ProducerType DEF IInv
  <2> QED
    BY <1>1, <2>1 DEF IInv, WaitStates, WaitsRecorded
<1>7. InputStates' /\ CheckpointNeverAhead'
  BY <1>1, <1>2, CompletedStays DEF InputStates
<1>8. PauseStates'
  BY LayerFacts, NotPausedYet
<1> QED
  BY <1>3, <1>4, <1>5, <1>6, <1>7, <1>8 DEF IInv

\* Skipping a level keeps the invariant.
LEMMA LayerSkipStep ==
  ASSUME IInv, TypeOK', LayerSkip
  PROVE  IInv'
<1>1. /\ pc = "layer" /\ pc' = "layer" /\ lvl' = lvl + 1
      /\ UNCHANGED <<plan, runState, waitOn, waitOpen, deps, deferred, todo, ready, task,
                     stop, drainq, final, ckpt>>
  BY DEF LayerSkip, NextLevel, recordVars, taskVars
<1>2. \A n \in Node : IF plan.level[n] = lvl /\ st[n] # "Completed"
                      THEN st'[n] = "Skipped" ELSE st'[n] = st[n]
  BY DEF LayerSkip, Batch
<1>3. WellFormed(plan)'
  BY <1>1 DEF IInv
<1> QED
  BY <1>1, <1>2, <1>3, LayerFacts, LayerStep

\* Entering a level keeps the invariant.
LEMMA LayerEnterStep ==
  ASSUME IInv, TypeOK', LayerEnter
  PROVE  IInv'
<1>1. PICK answered \in SUBSET (Batch \cap plan.unclear) :
        LET executable == (Batch \ plan.unclear) \cup answered IN
        /\ plan' = [plan EXCEPT !.unclear = @ \ answered]
        /\ st' = [n \in Node |-> IF n \in Batch \ executable
                                 THEN "AwaitingClarification" ELSE st[n]]
        /\ todo' = executable
        /\ IF executable = {} THEN NextLevel
           ELSE pc' = "prepare" /\ UNCHANGED lvl
  BY DEF LayerEnter
<1> DEFINE executable == (Batch \ plan.unclear) \cup answered
<1>2. /\ pc = "layer"
      /\ UNCHANGED <<runState, waitOn, waitOpen, deps, deferred, ready, task, stop,
                     drainq, final, ckpt>>
  BY DEF LayerEnter, recordVars, taskVars
<1>3. executable \subseteq Batch /\ todo' = executable
  BY <1>1
<1>4. \A n \in Node : IF n \in Batch \ executable
                      THEN st'[n] = "AwaitingClarification" ELSE st'[n] = st[n]
  BY <1>1
<1>5. \/ executable = {} /\ pc' = "layer" /\ lvl' = lvl + 1
      \/ pc' = "prepare" /\ lvl' = lvl
  BY <1>1 DEF NextLevel
<1>6. /\ plan'.level = plan.level /\ plan'.producer = plan.producer
      /\ WellFormed(plan)'
  BY <1>1, AnsweredType DEF IInv, TypeOK, WellFormed
<1> HIDE DEF executable
<1>7. \A n \in Batch : n \in Node /\ plan.level[n] = lvl /\ st[n] # "Completed"
  BY DEF Batch
<1> QED
  BY <1>2, <1>3, <1>4, <1>5, <1>6, <1>7, LayerFacts, LayerStep

\* Going to the last drain keeps the invariant.
LEMMA LayersDoneStep ==
  ASSUME IInv, TypeOK', LayersDone
  PROVE  IInv'
<1>1. /\ pc = "layer" /\ pc' = "drain" /\ drainq' = deferred /\ final'
      /\ UNCHANGED <<plan, runState, st, waitOn, waitOpen, deps, deferred, lvl, todo,
                     ready, task, stop, ckpt>>
  BY DEF LayersDone, recordVars, taskVars
<1>2. WellFormed(plan)'
  BY <1>1 DEF IInv
<1> QED
  BY <1>1, <1>2, LayerFacts, LayerStep

\* What holds of the node that is being prepared.
LEMMA PrepareFacts ==
  ASSUME IInv, pc = "prepare"
  PROVE  /\ ~Over /\ drainq = <<>>
         /\ \A n \in todo \cup ready : n \in Node /\ plan.level[n] <= lvl
               /\ st[n] \notin {"Running", "Waiting", "Completed"}
         /\ \A n \in Ahead : n \notin todo \cup ready
<1>1. ~Over
  BY DEF Over
<1>2. \A n \in todo \cup ready : n \in Node /\ plan.level[n] <= lvl
                                 /\ st[n] \notin {"Running", "Waiting", "Completed"}
  BY DEF IInv, QueuedStates, TypeOK
<1>3. \A n \in Ahead : n \in Node /\ plan.level[n] > lvl
  BY DEF Ahead
<1>4. \A n \in Node : plan.level[n] \in Nat /\ lvl \in Nat
  BY DEF IInv, TypeOK, PlanType
<1> QED
  BY <1>1, <1>2, <1>3, <1>4 DEF IInv, DeferredStates

\* Finding a node ready keeps the invariant.
LEMMA PrepareReadyStep ==
  ASSUME IInv, TypeOK', NEW n \in Node, PrepareReady(n)
  PROVE  IInv'
<1> DEFINE p == plan.producer[n]
<1>1. /\ pc = "prepare" /\ n \in todo /\ todo' = todo \ {n} /\ ready' = ready \cup {n}
      /\ p # NoNode => st[p] = "Completed"
      /\ deps' = [deps EXCEPT ![n] = @ \cup ({p} \ {NoNode})]
      /\ UNCHANGED <<plan, runState, st, waitOn, waitOpen, deferred, pc, lvl, mode, task,
                     stop, drainq, ckpt>>
  BY DEF PrepareReady, Preparing, IsFirst, taskVars
<1>2. Shard' = {} /\ Active' = {} /\ ~Over'
  BY <1>1, NoTaskOutsideRun DEF Shard, Active, Over
<1>3. TaskStates'
  BY <1>1, <1>2, NoTaskOutsideRun DEF TaskStates
<1>4. QueuedStates'
  <2>1. Ahead' = Ahead
    BY <1>1 DEF Ahead
  <2>2. todo' \cup ready' = todo \cup ready /\ todo' \cap ready' = {}
    BY <1>1 DEF IInv, QueuedStates
  <2> QED
    BY <1>1, <1>2, <2>1, <2>2, PrepareFacts DEF IInv, QueuedStates
<1>5. DeferredStates'
  BY <1>1, <1>2, PrepareFacts DEF IInv, DeferredStates
<1>6. WaitStates'
  BY <1>1, WaitsKept DEF IInv
<1>7. InputStates'
  <2>1. InjectedCompleted'
    <3>1. \A m \in Node : deps'[m] \subseteq deps[m] \cup (IF m = n THEN {p} \ {NoNode} ELSE {})
      BY <1>1 DEF IInv, TypeOK
    <3> QED
      BY <1>1, <3>1 DEF IInv, InputStates, InjectedCompleted
  <2>2. Committed' \subseteq Committed \cup {n}
    BY <1>1 DEF Committed
  <2> QED
    BY <1>1, <2>1, <2>2 DEF IInv, InputStates
<1>8. PauseStates' /\ CheckpointNeverAhead' /\ WellFormed(plan)'
  BY <1>1, PrepareFacts, NotPausedYet DEF IInv, CheckpointNeverAhead
<1> QED
  BY <1>3, <1>4, <1>5, <1>6, <1>7, <1>8 DEF IInv

\* Deferring a node keeps the invariant.
LEMMA PrepareWaitStep ==
  ASSUME IInv, TypeOK', NEW n \in Node, PrepareWait(n)
  PROVE  IInv'
<1> DEFINE p == plan.producer[n]
<1>1. /\ pc = "prepare" /\ n \in todo /\ todo' = todo \ {n} /\ p # NoNode
      /\ RecordWait(n, p) /\ st' = NowWaiting(n) /\ deferred' = Append(deferred, n)
      /\ UNCHANGED <<plan, runState, deps, pc, lvl, ready, mode, task, stop, drainq, ckpt>>
  BY DEF PrepareWait, Preparing, IsFirst, taskVars
<1>2. p \in Node /\ p # n
  BY <1>1, ProducerType DEF IInv
<1>3. st[n] \notin {"Running", "Waiting", "Completed"} /\ n \notin ready /\ n \notin Ahead
  BY <1>1, PrepareFacts DEF IInv, QueuedStates
<1>4. st'[n] = "Waiting" /\ \A m \in Node \ {n} : st'[m] = st[m]
  BY <1>1 DEF IInv, TypeOK, NowWaiting
<1>5. Shard' = {} /\ Active' = {} /\ ~Over'
  BY <1>1, NoTaskOutsideRun DEF Shard, Active, Over
<1>6. TaskStates'
  BY <1>1, <1>4, <1>5, NoTaskOutsideRun DEF TaskStates
<1>7. QueuedStates'
  <2>1. Ahead' = Ahead
    BY <1>1 DEF Ahead
  <2>2. \A m \in todo' \cup ready' \cup Ahead : m \in Node \ {n}
    BY <1>1, <1>3, PrepareFacts DEF Ahead
  <2> QED
    BY <1>1, <1>4, <1>5, <2>1, <2>2, PrepareFacts DEF IInv, QueuedStates
<1>8. DeferredStates'
  <2>1. deferred \in Seq(Node) /\ IsInjective(deferred) /\ ~Contains(deferred, n)
    BY <1>1, <1>3, PrepareFacts DEF IInv, DeferredStates, TypeOK
  <2>2. \A m : Contains(deferred', m) <=> Contains(deferred, m) \/ m = n
    BY <1>1, <2>1, AppendMembers
  <2>3. IsInjective(deferred')
    BY <1>1, <2>1, AppendKeepsInjective
  <2>4. \A m \in Node : task'[m] = "none"
    BY <1>1, NoTaskOutsideRun
  <2>5. drainq' = <<>>
    BY <1>1, PrepareFacts
  <2>6. \A m \in Node : st'[m] = "Waiting" <=> st[m] = "Waiting" \/ m = n
    BY <1>4
  <2>7. \A m \in Node : Contains(deferred, m) <=> st[m] = "Waiting"
    BY <1>1, PrepareFacts, NoTaskOutsideRun DEF IInv, DeferredStates
  <2> QED
    BY <2>2, <2>3, <2>4, <2>5, <2>6, <2>7, EmptyList DEF DeferredStates
<1>9. WaitStates'
  BY <1>1, <1>2, <1>3, WaitBegins
<1>10. InputStates' /\ CheckpointNeverAhead'
  <2>1. \A m \in Node : st[m] = "Completed" => st'[m] = "Completed"
    BY <1>3, <1>4
  <2>2. Committed' = Committed /\ \A m \in Committed : m \in Node
    BY <1>1 DEF Committed, IInv, TypeOK
  <2>3. \A m \in Committed : plan.producer[m] # NoNode => plan.producer[m] \in Node
    BY <2>2, ProducerType DEF IInv
  <2> QED
    BY <1>1, <2>1, <2>2, <2>3, CompletedStays DEF IInv, InputStates
<1>11. PauseStates' /\ WellFormed(plan)'
  BY <1>1, PrepareFacts, NotPausedYet DEF IInv
<1> QED
  BY <1>6, <1>7, <1>8, <1>9, <1>10, <1>11 DEF IInv

\* Steps between the prepared nodes and their tasks, and between the end of the
\* tasks and the drain, change neither node states nor records.
LEMMA StartShardStep ==
  ASSUME IInv, TypeOK', StartShard
  PROVE  IInv'
<1>1. /\ pc = "prepare" /\ todo = {} /\ pc' = "run"
      /\ UNCHANGED <<plan, runState, st, waitOn, waitOpen, deps, deferred, lvl, todo,
                     stop, drainq, ckpt>>
  BY DEF StartShard, recordVars
<1>2. PICK shard : /\ CreateTasks(shard) /\ shard \subseteq ready
                   /\ ready' \subseteq ready \ shard
                   /\ ready' = {} \/ mode' = "shards"
  <2>1. CASE Cardinality(ready) = 1 \/ plan.par <= 1
    <3>1. \E n \in Node : IsFirst(n, ready) /\ CreateTasks({n}) /\ ready' = {}
      BY <2>1 DEF StartShard
    <3> QED
      BY <3>1 DEF IsFirst
  <2>2. CASE ~(Cardinality(ready) = 1 \/ plan.par <= 1)
    <3>1. /\ CreateTasks(Chunk(ready, plan.par))
          /\ ready' = ready \ Chunk(ready, plan.par) /\ mode' = "shards"
      BY <2>2 DEF StartShard
    <3>2. Chunk(ready, plan.par) \subseteq ready
      BY DEF Chunk
    <3> QED
      BY <3>1, <3>2
  <2> QED
    BY <2>1, <2>2
<1>3. /\ \A n \in Node : task'[n] = IF n \in shard THEN "new" ELSE "none"
      /\ Shard' = shard /\ Active' = {} /\ ~Over'
  <2>1. shard \subseteq Node
    BY <1>2 DEF IInv, TypeOK
  <2> QED
    BY <1>1, <1>2, <2>1 DEF CreateTasks, Shard, Active, Over
<1>4. TaskStates'
  <2>1. \A n \in Node : st[n] # "Running" /\ (task'[n] = "new" => n \in ready)
    BY <1>1, <1>2, <1>3, NoTaskOutsideRun
  <2> QED
    BY <1>1, <1>3, <2>1, PrepareFacts DEF TaskStates
<1>5. QueuedStates'
  <2>1. Ahead' = Ahead
    BY <1>1 DEF Ahead
  <2>2. todo' = {} /\ ready' \subseteq ready /\ shard \subseteq ready /\ ready' \cap shard = {}
    BY <1>1, <1>2
  <2> QED
    BY <1>1, <1>2, <1>3, <2>1, <2>2, PrepareFacts DEF IInv, QueuedStates
<1>6. DeferredStates'
  <2>1. \A n \in Node : task'[n] # "none" => st[n] # "Waiting"
    BY <1>1, <1>2, <1>3, PrepareFacts
  <2>2. \A n \in Node : task[n] = "none"
    BY <1>1, NoTaskOutsideRun
  <2> QED
    BY <1>1, <1>3, <2>1, <2>2, PrepareFacts DEF IInv, DeferredStates
<1>7. WaitStates'
  BY <1>1, WaitsKept DEF IInv
<1>8. InputStates' /\ CheckpointNeverAhead'
  <2>1. Committed' \subseteq Committed
    BY <1>2, <1>3 DEF Committed
  <2> QED
    BY <1>1, <2>1, CompletedStays DEF IInv, InputStates
<1>9. PauseStates' /\ WellFormed(plan)'
  BY <1>1, PrepareFacts, NotPausedYet DEF IInv
<1> QED
  BY <1>4, <1>5, <1>6, <1>7, <1>8, <1>9 DEF IInv

\* A level with no ready node keeps the invariant.
LEMMA PrepareNoneReadyStep ==
  ASSUME IInv, TypeOK', PrepareNoneReady
  PROVE  IInv'
<1>1. /\ pc = "prepare" /\ todo = {} /\ ready = {}
      /\ \/ pc' = "thrown" /\ drainq' = drainq
         \/ pc' = "drain" /\ drainq' = deferred
      /\ UNCHANGED <<plan, runState, st, waitOn, waitOpen, deps, deferred, lvl, todo,
                     ready, task, stop, ckpt>>
  BY DEF PrepareNoneReady, recordVars, taskVars
<1>2. Shard' = {} /\ Active' = {} /\ Committed' = {} /\ pc' # "run"
  BY <1>1, NoTaskOutsideRun DEF Shard, Active, Committed
<1>3. TaskStates'
  BY <1>1, <1>2, NoTaskOutsideRun DEF TaskStates
<1>4. QueuedStates'
  <2>1. Ahead' = Ahead
    BY <1>1 DEF Ahead
  <2> QED
    BY <1>1, <1>2, <2>1, PrepareFacts DEF IInv, QueuedStates
<1>5. DeferredStates'
  <2>1. IsInjective(deferred) /\ drainq = <<>>
    BY <1>1, PrepareFacts DEF IInv, DeferredStates
  <2> QED
    BY <1>1, <2>1, PrepareFacts DEF IInv, DeferredStates
<1>6. WaitStates'
  BY <1>1, WaitsKept DEF IInv
<1>7. InputStates' /\ CheckpointNeverAhead'
  BY <1>1, <1>2, CompletedStays DEF InputStates
<1>8. PauseStates' /\ WellFormed(plan)'
  BY <1>1, PrepareFacts, NotPausedYet DEF IInv
<1> QED
  BY <1>3, <1>4, <1>5, <1>6, <1>7, <1>8 DEF IInv

-----------------------------------------------------------------------------
\* The steps of a task.

\* What a step of the task of n has to establish.
LEMMA TaskStep ==
  ASSUME IInv, TypeOK', pc = "run", NEW n \in Node, task[n] \notin {"none", "end"},
         UNCHANGED TaskFrame,
         runState' = runState \/ runState' # "PausedForDependency",
         \A m \in Node \ {n} : /\ task'[m] = task[m]
                               /\ \/ st'[m] = st[m]
                                  \/ st[m] = "Pending" /\ st'[m] = "Skipped",
         task'[n] \notin {"none", "new"},
         task'[n] # "end" <=> st'[n] = "Running",
         WaitStates', InjectedCompleted'
  PROVE  IInv'
<1>1. /\ pc' = "run" /\ ~Over /\ ~Over'
      /\ UNCHANGED <<plan, deferred, pc, lvl, todo, ready, mode, drainq, final, ckpt>>
  BY DEF TaskFrame, Over
<1>2. /\ \A m \in Node : m \in Active <=> st[m] = "Running"
      /\ \A m \in Node : task[m] = "new" => st[m] \notin {"Completed", "Waiting"}
  BY DEF IInv, TaskStates
<1>3. st[n] \notin {"Completed", "Waiting"}
  BY <1>2 DEF Active, IInv, TypeOK
<1>4. \A m \in Node : st[m] = "Completed" => st'[m] = "Completed"
  BY <1>3
<1>5. Shard' = Shard
  BY DEF Shard
<1>6. TaskStates'
  <2>1. task'[n] \in {"run", "backoff", "again"} <=> st'[n] = "Running"
    BY DEF TypeOK
  <2> QED
    BY <1>1, <1>2, <2>1 DEF TaskStates, Active
<1>7. QueuedStates'
  <2>1. Ahead' = Ahead
    BY <1>1 DEF Ahead
  <2>2. n \notin Ahead /\ n \notin todo \cup ready /\ \A m \in Ahead \cup todo \cup ready : m \in Node
    <3>1. n \in Shard
      BY DEF Shard
    <3>2. plan.level[n] <= lvl /\ plan.level[n] \in Nat /\ lvl \in Nat
      BY <3>1 DEF IInv, QueuedStates, TypeOK, PlanType
    <3> QED
      BY <1>1, <3>1, <3>2 DEF IInv, QueuedStates, Ahead, TypeOK
  <2> QED
    BY <1>1, <1>5, <2>1, <2>2 DEF IInv, QueuedStates
<1>8. DeferredStates'
  <2>1. \A m \in Node : Contains(deferred, m) => m # n /\ st'[m] = "Waiting"
    BY <1>1 DEF IInv, DeferredStates
  <2>2. \A m \in Node : st'[m] = "Waiting" => Contains(deferred, m) \/ task'[m] = "end"
    BY <1>1 DEF IInv, DeferredStates
  <2> QED
    BY <1>1, <2>1, <2>2 DEF IInv, DeferredStates
<1>9. InputStates'
  <2>1. Committed' \subseteq Committed
    BY <1>1 DEF Committed, TypeOK, IInv
  <2>2. \A m \in Committed : m \in Node
    BY DEF Committed, IInv, TypeOK
  <2>3. \A m \in Committed : plan.producer[m] # NoNode => plan.producer[m] \in Node
    BY <2>2, ProducerType DEF IInv
  <2> QED
    BY <1>1, <1>4, <2>1, <2>3 DEF IInv, InputStates
<1>10. PauseStates' /\ CheckpointNeverAhead' /\ WellFormed(plan)'
  BY <1>1, <1>4, CompletedStays DEF IInv, PauseStates
<1> QED
  BY <1>6, <1>7, <1>8, <1>9, <1>10 DEF IInv

\* What holds of a node whose runner is being awaited.
LEMMA InRunnerFacts ==
  ASSUME IInv, NEW n \in Node, InRunner(n) \/ (pc = "run" /\ task[n] = "backoff")
  PROVE  pc = "run" /\ task[n] \notin {"none", "end"} /\ st[n] = "Running" /\ n \in Committed
  BY DEF InRunner, IInv, TaskStates, Active, Committed

\* A task that ends without waiting: node states s replace st.
LEMMA TaskEnds ==
  ASSUME IInv, TypeOK', pc = "run", NEW n \in Node, task[n] \notin {"none", "end"},
         UNCHANGED <<TaskFrame, recordVars>>, EndTask(n),
         runState' = runState \/ runState' # "PausedForDependency",
         st'[n] \notin {"Running", "Waiting"},
         \A m \in Node \ {n} : \/ st'[m] = st[m]
                               \/ st[m] = "Pending" /\ st'[m] = "Skipped"
  PROVE  IInv'
<1>1. st[n] \notin {"Completed", "Waiting"}
  BY DEF IInv, TypeOK, TaskStates, Active
<1>2. UNCHANGED <<plan, waitOn, waitOpen, deps>>
  BY DEF TaskFrame, recordVars
<1>3. WaitStates' /\ InjectedCompleted'
  BY <1>1, <1>2, WaitsKept, CompletedStays DEF IInv
<1>4. task'[n] = "end" /\ \A m \in Node \ {n} : task'[m] = task[m]
  BY DEF EndTask, IInv, TypeOK
<1> QED
  BY <1>3, <1>4, TaskStep

\* A task that stops the plan keeps the invariant, if it completes no node.
LEMMA VerdictStep ==
  ASSUME IInv, TypeOK', NEW n \in Node,
         BlockNode(n) \/ RunnerFails(n) \/ RunnerCancelled(n)
            \/ \E p \in Node : NeedRepeated(n, p)
  PROVE  IInv'
<1>1. pc = "run" /\ task[n] \notin {"none", "end"}
  BY DEF BlockNode, Starting, RunnerFails, RunnerCancelled, NeedRepeated, NeedReady, InRunner
<1>2. st \in [Node -> NodeState]
  BY DEF IInv, TypeOK
<1>3. \/ st' = FailFast(st, n) /\ runState' = "Finished"
      \/ st' = [st EXCEPT ![n] = "Skipped"] /\ runState' = "Cancelled"
  BY DEF BlockNode, RunnerFails, RunnerCancelled, NeedRepeated, Verdict
<1>4. UNCHANGED <<TaskFrame, recordVars>> /\ EndTask(n)
  BY DEF BlockNode, RunnerFails, RunnerCancelled, NeedRepeated, Verdict
<1>5. /\ st'[n] \notin {"Running", "Waiting"}
      /\ \A m \in Node \ {n} : st'[m] = st[m] \/ (st[m] = "Pending" /\ st'[m] = "Skipped")
  BY <1>2, <1>3, FailFastKeeps
<1> QED
  BY <1>1, <1>3, <1>4, <1>5, TaskEnds

\* Starting a node keeps the invariant.
LEMMA StartNodeStep ==
  ASSUME IInv, TypeOK', NEW n \in Node, StartNode(n)
  PROVE  IInv'
<1>1. /\ pc = "run" /\ task[n] = "new"
      /\ st' = [st EXCEPT ![n] = "Running"] /\ task' = [task EXCEPT ![n] = "run"]
      /\ UNCHANGED <<TaskFrame, runState, recordVars>>
  BY DEF StartNode, Starting
<1>2. st[n] \notin {"Completed", "Waiting"}
  BY <1>1 DEF IInv, TaskStates
<1>3. /\ st'[n] = "Running" /\ task'[n] = "run"
      /\ \A m \in Node \ {n} : st'[m] = st[m] /\ task'[m] = task[m]
  BY <1>1 DEF IInv, TypeOK
<1>4. UNCHANGED <<plan, waitOn, waitOpen, deps>>
  BY <1>1 DEF TaskFrame, recordVars
<1>5. WaitStates' /\ InjectedCompleted'
  BY <1>2, <1>3, <1>4, WaitsKept, CompletedStays DEF IInv
<1> QED
  BY <1>1, <1>3, <1>5, TaskStep

\* A node that completes or is skipped keeps the invariant.
LEMMA RunnerSettlesStep ==
  ASSUME IInv, TypeOK', NEW n \in Node, RunnerSettles(n)
  PROVE  IInv'
<1>1. pc = "run" /\ task[n] \notin {"none", "end"}
  BY InRunnerFacts DEF RunnerSettles
<1>2. /\ UNCHANGED <<TaskFrame, recordVars>> /\ EndTask(n) /\ runState' = runState
      /\ \E r \in {"Completed", "Skipped"} : st' = [st EXCEPT ![n] = r]
  BY DEF RunnerSettles
<1>3. st'[n] \in {"Completed", "Skipped"} /\ \A m \in Node \ {n} : st'[m] = st[m]
  BY <1>2 DEF IInv, TypeOK
<1> QED
  BY <1>1, <1>2, <1>3, TaskEnds

\* A retry, the end of a back-off, or an injection: the node goes on Running.
LEMMA RunnerGoesOn ==
  ASSUME IInv, TypeOK', NEW n \in Node,
         RunnerRetries(n) \/ BackoffEnds(n) \/ \E p \in Node : NeedInject(n, p)
  PROVE  IInv'
<1>1. pc = "run" /\ task[n] \notin {"none", "end"} /\ st[n] = "Running"
  BY InRunnerFacts DEF RunnerRetries, BackoffEnds, NeedInject, NeedReady
<1>2. /\ \E t \in {"run", "backoff", "again"} : task' = [task EXCEPT ![n] = t]
      /\ UNCHANGED <<TaskFrame, runState, st, waitOn, waitOpen>>
  BY DEF RunnerRetries, BackoffEnds, NeedInject, recordVars
<1>3. task'[n] \in {"run", "backoff", "again"} /\ \A m \in Node \ {n} : task'[m] = task[m]
  BY <1>2 DEF IInv, TypeOK
<1>4. UNCHANGED <<plan, waitOn, waitOpen, st>>
  BY <1>2 DEF TaskFrame
<1>5. WaitStates'
  BY <1>4, WaitsKept DEF IInv
<1>6. InjectedCompleted'
  <2>1. CASE UNCHANGED deps
    BY <1>4, <2>1, CompletedStays
  <2>2. CASE \E p \in Node : NeedInject(n, p)
    <3>1. PICK p \in Node : st[p] = "Completed" /\ deps' = [deps EXCEPT ![n] = @ \cup {p}]
      BY <2>2 DEF NeedInject, NeedReady
    <3>2. \A m \in Node : deps'[m] \subseteq deps[m] \cup {p}
      BY <3>1 DEF IInv, TypeOK
    <3> QED
      BY <1>4, <3>1, <3>2 DEF IInv, InputStates, InjectedCompleted
  <2> QED
    BY <2>1, <2>2 DEF RunnerRetries, BackoffEnds, recordVars
<1> QED
  BY <1>1, <1>2, <1>3, <1>5, <1>6, TaskStep

\* A node that begins to wait while it runs keeps the invariant.
LEMMA NeedWaitStep ==
  ASSUME IInv, TypeOK', NEW n \in Node, NEW p \in Node, NeedWait(n, p)
  PROVE  IInv'
<1>1. pc = "run" /\ task[n] \notin {"none", "end"} /\ st[n] = "Running" /\ n \in Committed
  BY InRunnerFacts DEF NeedWait
<1>2. /\ st' = NowWaiting(n) /\ RecordWait(n, p) /\ EndTask(n)
      /\ UNCHANGED <<TaskFrame, runState, deps>>
  BY DEF NeedWait
<1>3. UNCHANGED plan
  BY <1>2 DEF TaskFrame
<1>4. plan.producer[n] # NoNode => st[plan.producer[n]] = "Completed"
  BY <1>1 DEF IInv, InputStates
<1>5. WaitStates'
  BY <1>1, <1>2, <1>3, <1>4, WaitBegins
<1>6. /\ st'[n] = "Waiting" /\ task'[n] = "end"
      /\ \A m \in Node \ {n} : st'[m] = st[m] /\ task'[m] = task[m]
  BY <1>2 DEF IInv, TypeOK, NowWaiting, EndTask
<1>7. InjectedCompleted'
  BY <1>1, <1>2, <1>6, CompletedStays
<1> QED
  BY <1>1, <1>2, <1>5, <1>6, <1>7, TaskStep

-----------------------------------------------------------------------------
\* The steps that join the tasks, and those of the drain.

\* What holds when all tasks of a shard have returned.
LEMMA JoinFacts ==
  ASSUME IInv, AllReturned
  PROVE  /\ pc = "run" /\ ~Over /\ todo = {}
         /\ \A n \in Ahead : n \in Node /\ n \notin ready
         /\ \A n \in ready : n \in Node /\ plan.level[n] <= lvl
               /\ st[n] \notin {"Running", "Waiting", "Completed"}
         /\ mode = "drain" => ready = {}
         /\ mode # "drain" => drainq = <<>>
<1>1. pc = "run" /\ ~Over
  BY DEF AllReturned, Over
<1>2. \A n \in Ahead : n \in Node /\ plan.level[n] > lvl
  BY <1>1 DEF Ahead
<1>3. \A n \in ready : n \in Node /\ plan.level[n] <= lvl
  BY DEF IInv, QueuedStates, TypeOK
<1>4. lvl \in Nat /\ \A n \in Node : plan.level[n] \in Nat
  BY DEF IInv, TypeOK, PlanType
<1> QED
  BY <1>1, <1>2, <1>3, <1>4 DEF IInv, QueuedStates, DeferredStates

\* The waiting nodes of the shard follow the deferred ones: all that wait.
LEMMA JoinLists ==
  ASSUME IInv, AllReturned, NEW w \in InOrder(ShardWaits)
  PROVE  /\ IsInjective(deferred \o w)
         /\ \A n \in Node : Contains(deferred \o w, n) <=> st[n] = "Waiting"
<1>1. deferred \in Seq(Node) /\ ShardWaits \in SUBSET Node /\ ~Over
  BY DEF IInv, TypeOK, ShardWaits, Shard, AllReturned, Over
<1>2. w \in Seq(Node) /\ IsInjective(w) /\ \A n : Contains(w, n) <=> n \in ShardWaits
  BY <1>1, InOrderType
<1>3. \A n : Contains(deferred \o w, n) <=> Contains(deferred, n) \/ Contains(w, n)
  BY <1>1, <1>2, ConcatMembers
<1>4. \A n \in ShardWaits : ~Contains(deferred, n) /\ st[n] = "Waiting"
  BY DEF ShardWaits, Shard, IInv, DeferredStates
<1>5. IsInjective(deferred)
  BY <1>1 DEF IInv, DeferredStates
<1>6. \A n \in Node : Contains(deferred, n) => st[n] = "Waiting"
  BY <1>1 DEF IInv, DeferredStates
<1>7. ASSUME NEW n \in Node, st[n] = "Waiting", ~Contains(deferred, n)
      PROVE  n \in ShardWaits
  <2>1. task[n] = "end"
    BY <1>1, <1>7 DEF IInv, DeferredStates
  <2> QED
    BY <1>7, <2>1 DEF ShardWaits, Shard
<1>8. IsInjective(deferred \o w)
  BY <1>1, <1>2, <1>4, <1>5, ConcatInjective
<1> QED
  BY <1>2, <1>3, <1>4, <1>6, <1>7, <1>8

\* What the join of a shard, and the end of a drained node, establish.
LEMMA JoinStep ==
  ASSUME IInv, TypeOK', AllReturned, NEW shard \in SUBSET ready,
         UNCHANGED <<plan, runState, st, waitOn, waitOpen, deps, lvl, todo, ckpt>>,
         \E w \in InOrder(ShardWaits) : deferred' = deferred \o w,
         CreateTasks(shard), ~stop',
         ready' = ready \ shard,
         \/ pc' = "drain" /\ shard = {} /\ ready = {} /\ drainq' \in {drainq, deferred'}
         \/ pc' = "run" /\ mode' = mode /\ mode # "drain" /\ drainq' = drainq
  PROVE  IInv'
<1>1. PICK w \in InOrder(ShardWaits) : deferred' = deferred \o w
  OBVIOUS
<1>2. /\ IsInjective(deferred') /\ \A n \in Node : Contains(deferred', n) <=> st[n] = "Waiting"
  BY <1>1, JoinLists
<1>3. shard \subseteq Node /\ \A n \in Node : task'[n] = IF n \in shard THEN "new" ELSE "none"
  BY DEF CreateTasks, IInv, TypeOK
<1>4. Shard' = shard /\ Active' = {} /\ ~Over'
  BY <1>3 DEF Shard, Active, Over
<1>5. \A n \in Node : st[n] # "Running"
  BY ReturnedNotRunning
<1>6. TaskStates'
  BY <1>3, <1>4, <1>5, JoinFacts DEF TaskStates
<1>7. QueuedStates'
  <2>1. Ahead' = Ahead
    BY JoinFacts DEF Ahead
  <2>2. ready' # {} => pc' = "run" /\ mode' = "shards"
    BY JoinFacts DEF IInv, QueuedStates
  <2> QED
    BY <1>4, <2>1, <2>2, JoinFacts DEF IInv, QueuedStates
<1>8. DeferredStates'
  <2>1. \A n \in Node : task'[n] # "none" => st[n] # "Waiting"
    BY <1>3, JoinFacts
  <2>2. IsInjective(drainq') /\ \A n \in Node : Contains(drainq', n) => Contains(deferred', n)
    <3>1. \A n \in Node : Contains(drainq, n) => st[n] = "Waiting"
      BY JoinFacts DEF IInv, DeferredStates
    <3>2. drainq' \in {drainq, deferred'}
      OBVIOUS
    <3> QED
      BY <1>2, <3>1, <3>2 DEF IInv, DeferredStates
  <2>3. drainq' # <<>> => pc' = "drain"
    BY JoinFacts
  <2> QED
    BY <1>2, <1>4, <2>1, <2>2, <2>3 DEF DeferredStates
<1>9. WaitStates'
  BY WaitsKept DEF IInv
<1>10. InputStates' /\ CheckpointNeverAhead'
  <2>1. Committed' \subseteq Committed
    BY <1>3 DEF Committed
  <2> QED
    BY <2>1, CompletedStays DEF IInv, InputStates
<1>11. PauseStates' /\ WellFormed(plan)'
  BY JoinFacts, NotPausedYet DEF IInv
<1> QED
  BY <1>6, <1>7, <1>8, <1>9, <1>10, <1>11 DEF IInv

\* Going on after a shard keeps the invariant.
LEMMA ShardEndsStep ==
  ASSUME IInv, TypeOK', ShardEnds
  PROVE  IInv'
<1>1. /\ AllReturned /\ ~stop /\ mode # "drain" /\ mode' = mode
      /\ UNCHANGED <<plan, runState, st, waitOn, waitOpen, deps, lvl, todo, ckpt>>
      /\ \E w \in InOrder(ShardWaits) : deferred' = deferred \o w
  BY DEF ShardEnds, recordVars
<1>2. CASE ready = {}
  <2>1. CreateTasks({}) /\ ~stop' /\ pc' = "drain" /\ drainq' = deferred' /\ ready' = ready
    BY <1>2 DEF ShardEnds, ClearTasks, CreateTasks
  <2> QED
    BY <1>1, <1>2, <2>1, JoinStep
<1>3. CASE ready # {}
  <2> DEFINE shard == Chunk(ready, plan.par)
  <2>1. CreateTasks(shard) /\ ready' = ready \ shard /\ pc' = "run" /\ drainq' = drainq /\ ~stop'
    BY <1>1, <1>3 DEF ShardEnds, AllReturned
  <2>2. shard \in SUBSET ready
    BY DEF Chunk
  <2> HIDE DEF shard
  <2> QED
    BY <1>1, <2>1, <2>2, JoinStep
<1> QED
  BY <1>2, <1>3

\* Going on after a node that a drain woke keeps the invariant.
LEMMA DrainedEndsStep ==
  ASSUME IInv, TypeOK', DrainedEnds
  PROVE  IInv'
<1>1. /\ AllReturned /\ mode = "drain" /\ CreateTasks({}) /\ ~stop'
      /\ UNCHANGED <<plan, runState, waitOn, waitOpen, deps, lvl>>
  BY DEF DrainedEnds, ClearTasks, CreateTasks, recordVars
<1>2. CASE stop
  <2>1. Return(st, TRUE) /\ st' = st
    BY <1>2 DEF DrainedEnds, Return
  <2>2. \A n \in Node : task'[n] = "none"
    BY <1>1 DEF CreateTasks
  <2>3. WaitStates'
    BY <1>1, <2>1, WaitsKept DEF IInv
  <2>4. PauseStates'
    BY <1>1, JoinFacts, NotPausedYet
  <2> QED
    BY <1>1, <2>1, <2>2, <2>3, <2>4, ReturnedNotRunning, ReturnStep
<1>3. CASE ~stop
  <2>1. /\ pc' = "drain" /\ \E w \in InOrder(ShardWaits) : deferred' = deferred \o w
        /\ UNCHANGED <<st, todo, ready, drainq, ckpt>>
    BY <1>3 DEF DrainedEnds
  <2>2. ready = {}
    BY <1>1, JoinFacts
  <2> QED
    BY <1>1, <2>1, <2>2, JoinStep
<1> QED
  BY <1>2, <1>3

\* What holds of the node that a drain looks at.
LEMMA DrainFacts ==
  ASSUME IInv, pc = "drain"
  PROVE  /\ ~Over /\ todo = {} /\ ready = {}
         /\ \A n \in Node : st[n] = "Waiting" <=> Contains(deferred, n)
         /\ \A n \in Node : st[n] = "Waiting" => plan.level[n] <= lvl
         /\ lvl \in Nat /\ \A n \in Node : plan.level[n] \in Nat
<1>1. ~Over /\ todo = {} /\ ready = {}
  BY DEF Over, IInv, QueuedStates
<1>2. \A n \in Node : st[n] = "Waiting" <=> Contains(deferred, n)
  BY <1>1, NoTaskOutsideRun DEF IInv, DeferredStates
<1>3. lvl \in Nat /\ \A n \in Node : plan.level[n] \in Nat
  BY DEF IInv, TypeOK, PlanType
<1>4. \A n \in Node : plan.level[n] > lvl => n \in Ahead
  BY DEF Ahead
<1>5. \A n \in Ahead : st[n] # "Waiting"
  BY <1>1 DEF IInv, QueuedStates
<1> QED
  BY <1>1, <1>2, <1>3, <1>4, <1>5

\* Waking a node keeps the invariant.
LEMMA DrainWakeStep ==
  ASSUME IInv, TypeOK', NEW n \in Node, DrainWake(n)
  PROVE  IInv'
<1>1. /\ pc = "drain" /\ pc' = "run" /\ mode' = "drain" /\ Draining(n) /\ CloseWait(n)
      /\ st[waitOn[n]] = "Completed"
      /\ deps' = [deps EXCEPT ![n] = @ \cup {waitOn[n]}]
      /\ st' = [st EXCEPT ![n] = "Pending"]
      /\ task' = [task EXCEPT ![n] = "new"]
      /\ drainq' = Tail(drainq)
      /\ UNCHANGED <<plan, runState, waitOn, lvl, todo, ready, stop, ckpt>>
  BY DEF DrainWake, Draining
<1>2. /\ st[n] = "Waiting" /\ waitOpen[n] /\ waitOn[n] \in Node
      /\ Contains(deferred, n) /\ IsInjective(deferred) /\ deferred \in Seq(Node)
  BY <1>1, DrainingWaits
<1>3. /\ st'[n] = "Pending" /\ task'[n] = "new"
      /\ \A m \in Node \ {n} : st'[m] = st[m] /\ task'[m] = "none"
  BY <1>1, NoTaskOutsideRun DEF IInv, TypeOK
<1>4. Shard' = {n} /\ Active' = {} /\ ~Over'
  BY <1>1, <1>3 DEF Shard, Active, Over
<1>5. \A m \in Node : st[m] = "Completed" => st'[m] = "Completed"
  BY <1>2, <1>3
<1>6. TaskStates'
  BY <1>1, <1>3, <1>4, NoTaskOutsideRun DEF TaskStates
<1>7. QueuedStates'
  <2>1. Ahead' = Ahead
    BY <1>1 DEF Ahead
  <2>2. todo' = {} /\ ready' = {} /\ plan.level[n] <= lvl
    BY <1>1, <1>2, DrainFacts
  <2>3. \A m \in Ahead : m \in Node /\ st'[m] \notin {"Running", "Waiting"}
    BY <1>1, <1>3, DrainFacts DEF IInv, QueuedStates, Ahead
  <2> QED
    BY <1>1, <1>4, <2>1, <2>2, <2>3 DEF QueuedStates
<1>8. DeferredStates'
  <2>1. /\ IsInjective(deferred')
        /\ \A m : Contains(deferred', m) <=> Contains(deferred, m) /\ m # n
    BY <1>1, <1>2, RemoveFirstMembers DEF CloseWait
  <2>2. drainq \in Seq(Node) /\ drainq # <<>> /\ Head(drainq) = n /\ IsInjective(drainq)
    BY <1>1 DEF Draining, IInv, TypeOK, DeferredStates
  <2>3. IsInjective(drainq') /\ \A m : Contains(drainq', m) <=> Contains(drainq, m) /\ m # n
    BY <1>1, <2>2, TailMembers
  <2>4. \A m \in Node : Contains(deferred', m) <=> st'[m] = "Waiting"
    BY <1>1, <1>3, <2>1, DrainFacts
  <2>5. \A m \in Node : Contains(drainq', m) => Contains(deferred', m)
    BY <2>1, <2>3 DEF IInv, DeferredStates
  <2>6. \A m \in Node : task'[m] # "none" => ~Contains(deferred', m)
    BY <1>3, <2>1
  <2> QED
    BY <1>1, <2>1, <2>3, <2>4, <2>5, <2>6 DEF DeferredStates
<1>9. WaitStates'
  BY <1>1, <1>2, <1>3, WaitCloses DEF CloseWait
<1>10. InputStates'
  <2>1. InjectedCompleted'
    <3>1. \A m \in Node : deps'[m] \subseteq deps[m] \cup {waitOn[n]} /\ deps[m] \subseteq Node
      BY <1>1 DEF IInv, TypeOK
    <3> QED
      BY <1>1, <1>2, <1>5, <3>1 DEF IInv, InputStates, InjectedCompleted
  <2>2. Committed' = {n}
    BY <1>1, <1>3, DrainFacts DEF Committed
  <2>3. plan.producer[n] # NoNode => plan.producer[n] \in Node /\ st[plan.producer[n]] = "Completed"
    BY <1>1, <1>2, ProducerType DEF IInv, WaitStates, WaitsRecorded
  <2> QED
    BY <1>1, <1>5, <2>1, <2>2, <2>3 DEF InputStates
<1>11. PauseStates' /\ CheckpointNeverAhead' /\ WellFormed(plan)'
  BY <1>1, <1>5, DrainFacts, NotPausedYet, CompletedStays DEF IInv
<1> QED
  BY <1>6, <1>7, <1>8, <1>9, <1>10, <1>11 DEF IInv

\* Leaving a node deferred keeps the invariant.
LEMMA DrainKeepStep ==
  ASSUME IInv, TypeOK', NEW n \in Node, DrainKeep(n)
  PROVE  IInv'
<1>1. /\ pc = "drain" /\ pc' = pc /\ Draining(n) /\ drainq' = Tail(drainq)
      /\ UNCHANGED <<plan, runState, st, waitOn, waitOpen, deps, deferred, lvl, todo,
                     ready, mode, task, stop, ckpt>>
  BY DEF DrainKeep, Draining, recordVars, taskVars
<1>2. drainq \in Seq(Node) /\ drainq # <<>> /\ IsInjective(drainq)
  BY <1>1 DEF Draining, IInv, TypeOK, DeferredStates
<1>3. IsInjective(drainq') /\ \A m : Contains(drainq', m) => Contains(drainq, m)
  BY <1>1, <1>2, TailMembers
<1>4. Over' = Over /\ Ahead' = Ahead /\ Shard' = Shard /\ Active' = Active
      /\ Committed' = Committed
  BY <1>1 DEF Over, Ahead, Shard, Active, Committed
<1>5. TaskStates' /\ QueuedStates'
  BY <1>1, <1>4 DEF IInv, TaskStates, QueuedStates
<1>6. DeferredStates'
  BY <1>1, <1>3, <1>4 DEF IInv, DeferredStates
<1>7. WaitStates'
  BY <1>1, WaitsKept DEF IInv
<1>8. InputStates' /\ CheckpointNeverAhead'
  BY <1>1, <1>4, CompletedStays DEF IInv, InputStates
<1>9. PauseStates' /\ WellFormed(plan)'
  BY <1>1, DrainFacts, NotPausedYet DEF IInv
<1> QED
  BY <1>5, <1>6, <1>7, <1>8, <1>9 DEF IInv

\* The end of the drain of a level keeps the invariant.
LEMMA DrainEndsStep ==
  ASSUME IInv, TypeOK', DrainEnds
  PROVE  IInv'
<1>1. /\ pc = "drain" /\ pc' = "layer" /\ lvl' = lvl + 1 /\ drainq = <<>> /\ ckpt' = st
      /\ UNCHANGED <<plan, runState, st, waitOn, waitOpen, deps, deferred, todo,
                     ready, mode, task, stop, drainq>>
  BY DEF DrainEnds, NextLevel, recordVars, taskVars
<1>2. Shard' = {} /\ Active' = {} /\ Committed' = {} /\ ~Over'
  BY <1>1, NoTaskOutsideRun, DrainFacts DEF Shard, Active, Committed, Over
<1>3. TaskStates'
  BY <1>1, <1>2, NoTaskOutsideRun DEF TaskStates
<1>4. QueuedStates'
  <2>1. \A n \in Ahead' : n \in Node /\ plan.level[n] > lvl
    BY <1>1, DrainFacts DEF Ahead
  <2>2. \A n \in Ahead' : n \in Ahead
    BY <2>1 DEF Ahead
  <2> QED
    BY <1>1, <1>2, <2>2, DrainFacts DEF IInv, QueuedStates
<1>5. DeferredStates'
  BY <1>1, <1>2, DrainFacts DEF IInv, DeferredStates
<1>6. WaitStates'
  BY <1>1, WaitsKept DEF IInv
<1>7. InputStates' /\ CheckpointNeverAhead'
  BY <1>1, <1>2, CompletedStays DEF InputStates, CheckpointNeverAhead
<1>8. PauseStates' /\ WellFormed(plan)'
  BY <1>1, DrainFacts, NotPausedYet DEF IInv
<1> QED
  BY <1>3, <1>4, <1>5, <1>6, <1>7, <1>8 DEF IInv

-----------------------------------------------------------------------------
\* The invariant and what follows from it.

\* The invariant holds at the start of ExecuteAsync, in a fresh run and in one that is
\* resumed: no node runs or waits, and open records name producers to wait for.
LEMMA EntryIInv ==
  ASSUME Entry,
         st \in [Node -> NodeState], \A n \in Node : st[n] \notin {"Running", "Waiting"},
         waitOn \in [Node -> Node \cup {NoNode}], waitOpen \in [Node -> BOOLEAN],
         deps \in [Node -> SUBSET Node], InjectedCompleted,
         \A n \in Node : waitOpen[n] =>
            /\ waitOn[n] # NoNode
            /\ plan.producer[n] # NoNode =>
                  waitOn[n] = plan.producer[n] \/ st[plan.producer[n]] = "Completed"
  PROVE  IInv
<1>1. plan \in PlanType /\ WellFormed(plan)
  BY PlansAssumption DEF Entry
<1>2. TypeOK
  <2>1. /\ ckpt \in [Node -> NodeState]
        /\ task \in [Node -> {"none", "new", "run", "backoff", "again", "end"}]
    BY StateNames DEF Entry
  <2>2. attempt \in [Node -> Nat] /\ reinj \in [Node -> 0..2]
    BY DEF Entry
  <2>3. deferred \in Seq(Node) /\ drainq \in Seq(Node)
    BY DEF Entry
  <2>4. /\ runState \in RunState /\ lvl \in Nat
        /\ pc \in {"layer", "prepare", "run", "drain", "done", "thrown"}
        /\ mode \in {"serial", "shards", "drain"}
        /\ todo \in SUBSET Node /\ ready \in SUBSET Node
        /\ stop \in BOOLEAN /\ final \in BOOLEAN
    BY RunStateNames DEF Entry
  <2> QED
    BY <1>1, <2>1, <2>2, <2>3, <2>4 DEF TypeOK
<1>3. Shard = {} /\ Active = {} /\ Committed = {} /\ ~Over
  BY DEF Entry, Shard, Active, Committed, Over
<1>4. TaskStates /\ QueuedStates
  BY <1>3 DEF Entry, TaskStates, QueuedStates, Ahead
<1>5. DeferredStates
  BY EmptyList DEF Entry, DeferredStates
<1>6. WaitStates /\ InputStates /\ PauseStates
  BY <1>3 DEF Entry, WaitStates, WaitsRecorded, InputStates, PauseStates
<1>7. CheckpointNeverAhead
  BY DEF Entry, CheckpointNeverAhead
<1> QED
  BY <1>1, <1>2, <1>4, <1>5, <1>6, <1>7 DEF IInv

\* In a fresh run there are no records.
LEMMA InitIInv == Init => IInv
<1> SUFFICES ASSUME Init PROVE IInv
  OBVIOUS
<1>1. st \in [Node -> NodeState] /\ \A n \in Node : st[n] \notin {"Running", "Waiting"}
  BY StateNames DEF Init
<1>2. /\ waitOn \in [Node -> Node \cup {NoNode}] /\ waitOpen \in [Node -> BOOLEAN]
      /\ \A n \in Node : ~waitOpen[n]
      /\ deps \in [Node -> SUBSET Node] /\ InjectedCompleted
  BY DEF Init, InjectedCompleted
<1> QED
  BY <1>1, <1>2, EntryIInv DEF Init

\* Every step of ExecuteAsync keeps the invariant.
LEMMA NextIInv == IInv /\ [Next]_vars => IInv'
<1> SUFFICES ASSUME IInv, [Next]_vars PROVE IInv'
  OBVIOUS
<1>1. TypeOK'
  BY TypeStep
<1>2. CASE Layer
  BY <1>1, <1>2, LayerCancelStep, LayerSkipStep, LayerPauseStep, LayerEnterStep,
     LayersDoneStep DEF Layer
<1>3. CASE Prepare
  BY <1>1, <1>3, PrepareNoneReadyStep, StartShardStep, PrepareReadyStep, PrepareFailStep,
     PreparePauseStep, PrepareWaitStep DEF Prepare
<1>4. CASE Tasks
  BY <1>1, <1>4, StartNodeStep, VerdictStep, RunnerSettlesStep, RunnerGoesOn, NeedWaitStep
     DEF Tasks
<1>5. CASE Join
  BY <1>1, <1>5, LevelStopsStep, ShardEndsStep, DrainedEndsStep DEF Join
<1>6. CASE Drain
  BY <1>1, <1>6, DrainEndsStep, FinishStep, DrainWakeStep, DrainFailStep, DrainPauseStep,
     DrainKeepStep DEF Drain, DrainTimeout, DrainGiveUp
<1>7. CASE UNCHANGED vars
  <2>1. UNCHANGED <<plan, runState, st, waitOn, waitOpen, deps, deferred, pc, lvl, todo,
                    ready, mode, task, attempt, reinj, stop, drainq, final, ckpt>>
    BY <1>7 DEF vars
  <2>2. /\ Over' = Over /\ Shard' = Shard /\ Active' = Active /\ Ahead' = Ahead
        /\ Committed' = Committed
    BY <2>1 DEF Over, Shard, Active, Ahead, Committed
  <2>3. TaskStates' /\ QueuedStates' /\ DeferredStates'
    BY <2>1, <2>2 DEF IInv, TaskStates, QueuedStates, DeferredStates
  <2>4. WaitStates' /\ InputStates' /\ CheckpointNeverAhead'
    BY <2>1, <2>2, WaitsKept, CompletedStays DEF IInv, InputStates
  <2>5. PauseStates'
    BY <2>1, <2>2 DEF IInv, PauseStates, PauseHasCause
  <2> QED
    BY <1>1, <2>1, <2>3, <2>4, <2>5 DEF IInv
<1> QED
  BY <1>2, <1>3, <1>4, <1>5, <1>6, <1>7 DEF Next, Terminated

\* The inductive invariant holds in every reachable state, for every size and
\* every set of plans.
THEOREM Invariant == Spec => []IInv
<1> QED
  BY InitIInv, NextIInv, PTL DEF Spec

\* Type correctness of the executor's state.
THEOREM TypeCorrect == Spec => []TypeOK
<1>1. IInv => TypeOK
  BY DEF IInv
<1> QED
  BY <1>1, Invariant, PTL

\* nodeRunner works on real inputs: the declared producer and every injected
\* dependency of a running node have completed.
THEOREM RealInputs == Spec => []InputsProduced
<1>1. IInv => InputsProduced
  <2> SUFFICES ASSUME IInv, NEW n \in Active
               PROVE  /\ plan.producer[n] # NoNode => st[plan.producer[n]] = "Completed"
                      /\ \A p \in deps[n] : st[p] = "Completed"
    BY DEF InputsProduced
  <2>1. n \in Node /\ n \in Committed
    BY DEF Active, Committed
  <2> QED
    BY <2>1 DEF IInv, InputStates, InjectedCompleted
<1> QED
  BY <1>1, Invariant, PTL

\* The first half of the ledger is in the invariant; the other is kept besides.
LEMMA RecordsClose ==
  ASSUME IInv, RecordsWait, [Next]_vars
  PROVE  RecordsWait'
<1>1. /\ st \in [Node -> NodeState] /\ waitOpen \in [Node -> BOOLEAN]
      /\ task \in [Node -> {"none", "new", "run", "backoff", "again", "end"}]
  BY DEF IInv, TypeOK
<1>2. ASSUME \A n \in Node : waitOpen'[n] => waitOpen[n], \A n \in Node : st[n] = "Waiting" => st'[n] = "Waiting"
      PROVE  RecordsWait'
  BY <1>2 DEF RecordsWait
<1>3. ASSUME NEW n \in Node, NEW p, st' = NowWaiting(n), RecordWait(n, p) PROVE RecordsWait'
  BY <1>1, <1>3 DEF NowWaiting, RecordWait, RecordsWait
<1>4. ASSUME NEW n \in Node, CloseWait(n), \A m \in Node \ {n} : st[m] = "Waiting" => st'[m] = "Waiting"
      PROVE  RecordsWait'
  BY <1>1, <1>4 DEF CloseWait, RecordsWait
<1>5. ASSUME NEW n \in Node, st[n] # "Waiting", NEW x \in NodeState,
             st' = [st EXCEPT ![n] = x] \/ st' = FailFast(st, n) \/ st' = SkipRemaining(st, n)
      PROVE  \A m \in Node : st[m] = "Waiting" => st'[m] = "Waiting"
  BY <1>1, <1>5, FailFastKeeps, SkipRemainingKeeps
<1>6. CASE Layer
  <2>1. UNCHANGED waitOpen
    BY <1>6 DEF Layer, LayerCancel, LayerSkip, LayerPause, LayerEnter, LayersDone, recordVars
  <2>2. \A m \in Batch : st[m] # "Waiting"
    BY <1>6, LayerFacts DEF Layer, LayerCancel, LayerSkip, LayerPause, LayerEnter, LayersDone, Batch, IInv,
       QueuedStates, Ahead, Over
  <2>3. CASE LayerCancel
    <3>1. UNCHANGED st \/ \E n \in Node : st' = SkipRemaining(st, n)
      BY <2>3 DEF LayerCancel, Return
    <3> QED
      BY <1>1, <1>2, <2>1, <3>1, SkipRemainingKeeps
  <2>4. CASE LayerSkip
    BY <1>1, <1>2, <2>1, <2>2, <2>4 DEF LayerSkip
  <2>5. CASE LayerPause
    <3>1. PICK n \in Batch : st' = [st EXCEPT ![n] = "AwaitingApproval"]
      BY <2>5 DEF LayerPause, Return, IsFirst, Unapproved
    <3> QED
      BY <1>1, <1>2, <2>1, <2>2, <3>1
  <2>6. CASE LayerEnter
    <3>1. PICK S \in SUBSET Batch : st' = [n \in Node |-> IF n \in S THEN "AwaitingClarification" ELSE st[n]]
      BY <2>6 DEF LayerEnter
    <3> QED
      BY <1>1, <1>2, <2>1, <2>2, <3>1
  <2>7. CASE LayersDone
    BY <1>2, <2>7 DEF LayersDone, recordVars
  <2> QED
    BY <1>6, <2>3, <2>4, <2>5, <2>6, <2>7 DEF Layer
<1>7. CASE Prepare
  <2>1. CASE PrepareNoneReady \/ StartShard
    BY <1>2, <2>1 DEF PrepareNoneReady, StartShard, recordVars
  <2>2. ASSUME NEW n \in Node, PrepareReady(n) PROVE RecordsWait'
    BY <1>2, <2>2 DEF PrepareReady
  <2>3. ASSUME NEW n \in Node, PreparePause(n) \/ PrepareWait(n) PROVE RecordsWait'
    BY <1>3, <2>3 DEF PreparePause, PrepareWait, Return
  <2>4. ASSUME NEW n \in Node, PrepareFail(n) PROVE RecordsWait'
    <3>1. st' = FailFast(st, n) /\ UNCHANGED waitOpen /\ n \in todo
      BY <2>4 DEF PrepareFail, Return, recordVars, Preparing, IsFirst
    <3>2. st[n] # "Waiting"
      BY <3>1 DEF IInv, QueuedStates
    <3> QED
      BY <1>2, <1>5, <3>1, <3>2, StateNames
  <2> QED
    BY <1>7, <2>1, <2>2, <2>3, <2>4 DEF Prepare
<1>8. ASSUME NEW n \in Node, StartNode(n) \/ BlockNode(n) \/ RunnerSettles(n) \/ RunnerRetries(n) \/ BackoffEnds(n)
                               \/ RunnerFails(n) \/ RunnerCancelled(n)
                               \/ \E p \in Node : NeedInject(n, p) \/ NeedRepeated(n, p)
      PROVE  RecordsWait'
  <2>1. UNCHANGED waitOpen /\ task[n] \in {"new", "run", "backoff", "again"}
    BY <1>8 DEF StartNode, Starting, BlockNode, RunnerSettles, RunnerRetries, BackoffEnds, RunnerFails,
       RunnerCancelled, NeedInject, NeedRepeated, NeedReady, InRunner, recordVars
  <2>2. st[n] # "Waiting"
    BY <2>1 DEF IInv, TaskStates, Active
  <2>3. st' = st \/ st' = FailFast(st, n) \/ \E x \in NodeState : st' = [st EXCEPT ![n] = x]
    BY <1>8, StateNames DEF StartNode, BlockNode, RunnerSettles, RunnerRetries, BackoffEnds, RunnerFails,
       RunnerCancelled, NeedInject, NeedRepeated, Verdict
  <2> QED
    BY <1>2, <1>5, <2>1, <2>2, <2>3, StateNames
<1>9. ASSUME NEW n \in Node, NEW p \in Node, NeedWait(n, p) PROVE RecordsWait'
  BY <1>3, <1>9 DEF NeedWait
<1>10. CASE LevelStops
  <2>1. PICK w \in InOrder(ShardWaits) :
            LET q == IF mode = "shards" THEN deferred \o w ELSE deferred IN
            ResolveDeferred(q) /\ st' = Resolved(st, q)
    BY <1>10 DEF LevelStops, Return
  <2> QED
    BY <1>1, <2>1 DEF ResolveDeferred, Resolved, RecordsWait
<1>11. CASE ShardEnds \/ DrainedEnds \/ DrainEnds \/ Finish
  <2>1. UNCHANGED <<st, waitOpen>>
    BY <1>11 DEF ShardEnds, DrainedEnds, DrainEnds, Finish, Return, recordVars
  <2> QED
    BY <1>2, <2>1
<1>12. ASSUME NEW n \in Node, DrainFail(n) \/ DrainWake(n) PROVE RecordsWait'
  <2>1. CloseWait(n) /\ (st' = FailFast(st, n) \/ st' = [st EXCEPT ![n] = "Pending"])
    BY <1>12 DEF DrainFail, DrainWake, Return
  <2>2. \A m \in Node \ {n} : st[m] = "Waiting" => st'[m] = "Waiting"
    BY <1>1, <2>1, FailFastKeeps
  <2> QED
    BY <1>4, <2>1, <2>2
<1>13. ASSUME NEW n \in Node, DrainPause(n) \/ DrainKeep(n) PROVE RecordsWait'
  <2>1. UNCHANGED <<st, waitOpen>>
    BY <1>13 DEF DrainPause, DrainKeep, Return, recordVars
  <2> QED
    BY <1>2, <2>1
<1>14. CASE UNCHANGED vars
  BY <1>2, <1>14 DEF vars
<1> QED
  BY <1>6, <1>7, <1>8, <1>9, <1>10, <1>11, <1>12, <1>13, <1>14
     DEF Next, Tasks, Join, Drain, DrainTimeout, DrainGiveUp, Terminated

\* The wait ledger tells the truth: a record is open exactly while its node waits.
THEOREM Ledger == Spec => []WaitLedger
<1>1. Init => RecordsWait
  BY DEF Init, Entry, RecordsWait
<1>2. IInv /\ RecordsWait /\ [Next]_vars => RecordsWait'
  BY RecordsClose
<1>3. IInv /\ RecordsWait => WaitLedger
  BY DEF IInv, WaitStates, WaitsRecorded, RecordsWait, WaitLedger
<1> QED
  BY <1>1, <1>2, <1>3, Invariant, PTL DEF Spec

\* No waiting node is forgotten and none is deferred twice.
THEOREM Deferrals == Spec => []DeferredExact
<1>1. IInv => DeferredExact
  BY DEF IInv, DeferredStates, DeferredExact
<1> QED
  BY <1>1, Invariant, PTL

\* ExecuteAsync joins its tasks before it returns.
THEOREM Joined == Spec => []TasksJoined
<1>1. IInv => TasksJoined
  <2> SUFFICES ASSUME IInv, Over PROVE \A n \in Node : st[n] # "Running" /\ task[n] = "none"
    BY DEF TasksJoined
  <2>1. pc # "run"
    BY DEF Over
  <2> QED
    BY <2>1, NoTaskOutsideRun
<1> QED
  BY <1>1, Invariant, PTL

\* A plan paused for a dependency has a node that waits for another, and that
\* one for the user.
THEOREM Paused == Spec => []PauseHasCause
<1>1. IInv => PauseHasCause
  BY DEF IInv, PauseStates, PauseHasCause
<1> QED
  BY <1>1, Invariant, PTL

\* The checkpoint never claims work that was not done.
THEOREM SafeCheckpoint == Spec => []CheckpointNeverAhead
<1>1. IInv => CheckpointNeverAhead
  BY DEF IInv
<1> QED
  BY <1>1, Invariant, PTL

-----------------------------------------------------------------------------
\* A completed node is never given another state.

\* No step gives a completed node another state.
LEMMA CompletedStep ==
  ASSUME IInv, [Next]_vars, NEW n \in Node, st[n] = "Completed"
  PROVE  st'[n] = "Completed"
<1>1. st \in [Node -> NodeState]
  BY DEF IInv, TypeOK
<1>2. ASSUME NEW m \in Node, st[m] # "Completed", st' = FailFast(st, m)
      PROVE  st'[n] = "Completed"
  BY <1>1, <1>2, FailFastKeeps
<1>3. ASSUME NEW m \in Node, NEW x, st[m] # "Completed", st' = [st EXCEPT ![m] = x]
      PROVE  st'[n] = "Completed"
  BY <1>1, <1>3
<1>4. ASSUME NEW m, st' = SkipRemaining(st, m) PROVE st'[n] = "Completed"
  BY <1>1, <1>4, SkipRemainingKeeps
<1>5. CASE Layer
  <2>1. CASE LayerCancel
    BY <1>4, <2>1 DEF LayerCancel, Return
  <2>2. CASE LayerSkip \/ LayerEnter
    BY <2>2 DEF LayerSkip, LayerEnter, Batch
  <2>3. CASE LayerPause
    <3>1. PICK m \in Node : /\ IsFirst(m, Batch \cap plan.sensitive)
                            /\ st' = [st EXCEPT ![m] = "AwaitingApproval"]
      BY <2>3 DEF LayerPause, Return, Unapproved
    <3>2. st[m] # "Completed"
      BY <3>1 DEF IsFirst, Batch
    <3> QED
      BY <1>3, <3>1, <3>2
  <2>4. CASE LayersDone
    BY <2>4 DEF LayersDone
  <2> QED
    BY <1>5, <2>1, <2>2, <2>3, <2>4 DEF Layer
<1>6. CASE Prepare
  <2>1. CASE PrepareNoneReady \/ StartShard
    BY <2>1 DEF PrepareNoneReady, StartShard
  <2>2. ASSUME NEW m \in Node, Preparing(m) PROVE st[m] # "Completed"
    BY <2>2 DEF Preparing, IsFirst, IInv, QueuedStates
  <2>3. ASSUME NEW m \in Node, PrepareReady(m) PROVE st' = st
    BY <2>3 DEF PrepareReady
  <2>4. ASSUME NEW m \in Node, PrepareFail(m) PROVE st'[n] = "Completed"
    BY <1>2, <2>2, <2>4 DEF PrepareFail, Return
  <2>5. ASSUME NEW m \in Node, PreparePause(m) \/ PrepareWait(m) PROVE st'[n] = "Completed"
    BY <1>3, <2>2, <2>5 DEF PreparePause, PrepareWait, Return, NowWaiting
  <2> QED
    BY <1>6, <2>1, <2>3, <2>4, <2>5 DEF Prepare
<1>7. CASE Tasks
  <2>1. ASSUME NEW m \in Node, task[m] \notin {"none", "end"} PROVE st[m] # "Completed"
    BY <2>1 DEF IInv, TypeOK, TaskStates, Active
  <2>2. ASSUME NEW m \in Node, StartNode(m) \/ RunnerSettles(m) \/ RunnerCancelled(m)
                               \/ \E p \in Node : NeedWait(m, p)
        PROVE  st'[n] = "Completed"
    <3>1. task[m] \notin {"none", "end"}
      BY <2>2 DEF StartNode, Starting, RunnerSettles, RunnerCancelled, NeedWait, InRunner
    <3>2. \E x : st' = [st EXCEPT ![m] = x]
      BY <2>2 DEF StartNode, RunnerSettles, RunnerCancelled, NeedWait, Verdict, NowWaiting
    <3> QED
      BY <1>3, <2>1, <3>1, <3>2
  <2>3. ASSUME NEW m \in Node, BlockNode(m) \/ RunnerFails(m) \/ \E p \in Node : NeedRepeated(m, p)
        PROVE  st'[n] = "Completed"
    <3>1. task[m] \notin {"none", "end"}
      BY <2>3 DEF BlockNode, Starting, RunnerFails, NeedRepeated, NeedReady, InRunner
    <3>2. st' = FailFast(st, m)
      BY <2>3 DEF BlockNode, RunnerFails, NeedRepeated, Verdict
    <3> QED
      BY <1>2, <2>1, <3>1, <3>2
  <2>4. ASSUME NEW m \in Node, RunnerRetries(m) \/ BackoffEnds(m) \/ \E p \in Node : NeedInject(m, p)
        PROVE  st'[n] = "Completed"
    BY <2>4 DEF RunnerRetries, BackoffEnds, NeedInject
  <2> QED
    BY <1>7, <2>2, <2>3, <2>4 DEF Tasks
<1>8. CASE Join
  <2>1. CASE LevelStops
    <3>1. PICK w \in InOrder(ShardWaits) :
            st' = Resolved(st, IF mode = "shards" THEN deferred \o w ELSE deferred)
      BY <2>1 DEF LevelStops, Return
    <3>2. AllReturned
      BY <2>1 DEF LevelStops
    <3>3. ~Contains(deferred, n) /\ ~Contains(deferred \o w, n)
      <4>1. ~Contains(deferred \o w, n)
        BY <3>2, JoinLists
      <4>2. deferred \in Seq(Node) /\ ShardWaits \in SUBSET Node
        BY DEF IInv, TypeOK, ShardWaits, Shard
      <4>3. w \in Seq(Node)
        BY <4>2, InOrderType
      <4> QED
        BY <4>1, <4>2, <4>3, ConcatMembers
    <3> QED
      BY <3>1, <3>3 DEF Resolved
  <2>2. CASE ShardEnds \/ DrainedEnds
    BY <2>2 DEF ShardEnds, DrainedEnds, Return
  <2> QED
    BY <1>8, <2>1, <2>2 DEF Join
<1>9. CASE Drain
  <2>1. CASE DrainEnds \/ Finish
    BY <2>1 DEF DrainEnds, Finish, Return
  <2>2. ASSUME NEW m \in Node, DrainWake(m) PROVE st'[n] = "Completed"
    BY <1>3, <2>2, DrainingWaits DEF DrainWake
  <2>3. ASSUME NEW m \in Node, DrainFail(m) PROVE st'[n] = "Completed"
    <3>1. Draining(m)
      BY <2>3 DEF DrainFail, Draining
    <3> QED
      BY <1>2, <2>3, <3>1, DrainingWaits DEF DrainFail, Return
  <2>4. ASSUME NEW m \in Node, DrainPause(m) \/ DrainKeep(m) PROVE st'[n] = "Completed"
    BY <2>4 DEF DrainPause, DrainKeep, Return
  <2> QED
    BY <1>9, <2>1, <2>2, <2>3, <2>4 DEF Drain, DrainTimeout, DrainGiveUp
<1>10. CASE UNCHANGED vars
  BY <1>10 DEF vars
<1> QED
  BY <1>5, <1>6, <1>7, <1>8, <1>9, <1>10 DEF Next, Terminated

\* A completed node is never run again nor given another state, whatever the
\* plan, the failures and the interleaving of its tasks.
THEOREM NeverRepeated == Spec => CompletedForever
<1>1. IInv /\ [Next]_vars => (\A n \in Node : st[n] = "Completed" => st'[n] = "Completed")
  BY CompletedStep
<1>2. IInv /\ [Next]_vars =>
        [\A n \in Node : st[n] = "Completed" => st'[n] = "Completed"]_vars
  BY <1>1
<1> QED
  BY <1>2, Invariant, PTL DEF Spec, CompletedForever
=============================================================================
