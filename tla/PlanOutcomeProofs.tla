--------------------------- MODULE PlanOutcomeProofs ---------------------------
(***************************************************************************)
(* How a run of PlanScheduler ends: what has had its turn, what is saved,  *)
(* and what never starts; that no nodes wait for each other; and that the  *)
(* executor implements PlanContract.  The invariant of PlanSchedulerProofs *)
(* is used, and others are proved on top of it.                            *)
(***************************************************************************)
EXTENDS PlanRefinement, PlanSchedulerProofs

\* One step of the task of n.  It goes on, ends or begins to wait; or it ends with
\* a verdict, and then Pending nodes may be skipped.
Turn(n) ==
    /\ pc = "run" /\ task[n] \notin {"none", "end"} /\ UNCHANGED TaskFrame
    /\ \A m \in Node \ {n} : task'[m] = task[m]
    /\ task'[n] \notin {"none", "new"}
    /\ \/ /\ UNCHANGED <<stop, runState>>
          /\ \A m \in Node \ {n} : st'[m] = st[m]
          /\ st'[n] \in {"Running", "Waiting", "Completed", "Skipped"}
          /\ st'[n] = "Completed" => task'[n] = "end"
          /\ st'[n] = "Waiting" => plan.needs[n] # {}
       \/ /\ stop' /\ task'[n] = "end"
          /\ \A m \in Node \ {n} : \/ st'[m] = st[m]
                                   \/ st[m] = "Pending" /\ st'[m] = "Skipped"
          /\ \/ runState' = "Finished" /\ st'[n] = "Failed"
             \/ runState' = "Cancelled" /\ st'[n] = "Skipped"

\* Every step of a task is such a turn.
LEMMA Turns == ASSUME IInv, Tasks PROVE \E n \in Node : Turn(n)
<1>1. st \in [Node -> NodeState] /\ task \in [Node -> {"none", "new", "run", "backoff", "again", "end"}]
  BY DEF IInv, TypeOK
<1>2. ASSUME NEW n \in Node, StartNode(n) PROVE Turn(n)
  BY <1>1, <1>2 DEF StartNode, Starting, Turn, TaskFrame
<1>3. ASSUME NEW n \in Node, RunnerSettles(n) PROVE Turn(n)
  BY <1>1, <1>3 DEF RunnerSettles, InRunner, EndTask, Turn, TaskFrame
<1>4. ASSUME NEW n \in Node,
             RunnerRetries(n) \/ BackoffEnds(n) \/ \E p \in Node : NeedInject(n, p)
      PROVE  Turn(n)
  <2>1. pc = "run" /\ task[n] \notin {"none", "end"} /\ st[n] = "Running"
    BY <1>4, InRunnerFacts DEF RunnerRetries, BackoffEnds, NeedInject, NeedReady
  <2>2. /\ \E t \in {"run", "backoff", "again"} : task' = [task EXCEPT ![n] = t]
        /\ UNCHANGED <<st, stop, runState, TaskFrame>>
    BY <1>4 DEF RunnerRetries, BackoffEnds, NeedInject
  <2> QED
    BY <1>1, <2>1, <2>2 DEF Turn
<1>5. ASSUME NEW n \in Node, NEW p \in Node, NeedWait(n, p) PROVE Turn(n)
  BY <1>1, <1>5 DEF NeedWait, InRunner, EndTask, NowWaiting, Turn, TaskFrame
<1>6. ASSUME NEW n \in Node, RunnerCancelled(n) PROVE Turn(n)
  BY <1>1, <1>6 DEF RunnerCancelled, InRunner, Verdict, EndTask, Turn, TaskFrame
<1>7. ASSUME NEW n \in Node, BlockNode(n) \/ RunnerFails(n) \/ \E p \in Node : NeedRepeated(n, p)
      PROVE  Turn(n)
  <2>1. pc = "run" /\ task[n] \notin {"none", "end"} /\ UNCHANGED TaskFrame
    BY <1>7 DEF BlockNode, Starting, RunnerFails, NeedRepeated, NeedReady, InRunner
  <2>2. Verdict(n, FailFast(st, n), "Finished")
    BY <1>7 DEF BlockNode, RunnerFails, NeedRepeated
  <2>3. stop' /\ runState' = "Finished" /\ st' = FailFast(st, n) /\ task' = [task EXCEPT ![n] = "end"]
    BY <2>2 DEF Verdict, EndTask
  <2>4. /\ st'[n] = "Failed"
        /\ \A m \in Node \ {n} : \/ st'[m] = st[m]
                                 \/ st[m] = "Pending" /\ st'[m] = "Skipped"
    BY <1>1, <2>3, FailFastKeeps
  <2>5. task'[n] = "end" /\ \A m \in Node \ {n} : task'[m] = task[m]
    BY <1>1, <2>3
  <2> QED
    BY <2>1, <2>3, <2>4, <2>5 DEF Turn
<1> QED
  BY <1>2, <1>3, <1>4, <1>5, <1>6, <1>7 DEF Tasks

\* A step between two shards that does not end the call.
Pass ==
    /\ ~Over /\ ~Over' /\ ~stop /\ ~stop'
    /\ UNCHANGED runState
    /\ plan' = plan \/ \E S : plan' = [plan EXCEPT !.unclear = S]
    /\ \A n \in Node :
          \/ st'[n] = st[n]
          \/ pc = "layer" /\ n \in Batch /\ st'[n] \in {"Skipped", "AwaitingClarification"}
          \/ pc = "prepare" /\ n \in todo /\ st'[n] = "Waiting"
          \/ pc = "drain" /\ st[n] = "Waiting" /\ st'[n] = "Pending" /\ task'[n] = "new"
    /\ \A n \in Node : task'[n] \in {"none", "new"}
    /\ \A n \in (todo \cup ready \cup Shard)' :
          \/ n \in todo \cup ready \cup Shard
          \/ st[n] = "Waiting"
          \/ pc = "layer" /\ n \in Batch \ plan.sensitive

\* A step by which the call ends.
End ==
    /\ ~Over /\ Over' /\ UNCHANGED <<plan, lvl, final>>
    /\ \A n \in Node :
          \/ st'[n] = st[n]
          \/ st'[n] \in Lost
          \/ pc = "prepare" /\ n \in todo /\ st'[n] = "Waiting"
          \/ pc = "layer" /\ st'[n] = "AwaitingApproval" /\ runState' = "PausedForApproval"
    /\ pc' = "done" => \/ ckpt' = st'
                       \/ pc = "run" /\ mode = "serial" /\ stop /\ ckpt' = ckpt
    /\ runState' = "Finished" =>
          \/ \E n \in Node : st'[n] = "Failed"
          \/ runState = "Finished" /\ \A n \in Node : st[n] = "Failed" => st'[n] = "Failed"
          \/ Finish

\* Between two shards no task is there and nothing has been decided.
LEMMA NoTaskThere ==
  ASSUME IInv, pc \in {"layer", "prepare", "drain"}
  PROVE  ~Over /\ ~stop /\ Shard = {} /\ \A n \in Node : task[n] = "none" /\ st[n] # "Running"
BY NoTaskOutsideRun DEF Over, Shard

\* Every step that leads to the end of the call is such a step.
LEMMA Endings == ASSUME IInv, [Next]_vars, ~UNCHANGED vars, Over' PROVE End
<1>0. st \in [Node -> NodeState]
  BY DEF IInv, TypeOK
<1>1. ASSUME NEW n \in Node, pc' = "done", Return(FailFast(st, n), TRUE), ~Over,
             UNCHANGED <<plan, lvl, final>>
      PROVE  End
  <2>1. st' = FailFast(st, n) /\ ckpt' = st' /\ Over'
    BY <1>1 DEF Return, Over
  <2>2. st'[n] = "Failed" /\ \A m \in Node \ {n} : st'[m] = st[m] \/ st'[m] = "Skipped"
    BY <1>0, <2>1, FailFastKeeps
  <2> QED
    BY <1>1, <2>1, <2>2 DEF End, Lost
<1>2. CASE Layer
  <2>1. pc = "layer" /\ ~Over
    BY <1>2, NoTaskThere DEF Layer, LayerCancel, LayerSkip, LayerPause, LayerEnter, LayersDone
  <2>2. ~LayerSkip /\ ~LayerEnter /\ ~LayersDone
    BY DEF LayerSkip, LayerEnter, LayersDone, NextLevel, Over
  <2>3. CASE LayerCancel
    <3>1. CASE Batch = {}
      BY <2>1, <2>3, <3>1 DEF LayerCancel, End, Over
    <3>2. CASE Batch # {}
      <4>1. PICK n \in Node : Return(SkipRemaining(st, n), TRUE)
        BY <2>3, <3>2 DEF LayerCancel
      <4>2. st' = SkipRemaining(st, n) /\ ckpt' = st' /\ Over'
        BY <4>1 DEF Return, Over
      <4>3. \A m \in Node : st'[m] = st[m] \/ st'[m] = "Skipped"
        BY <1>0, <4>2, SkipRemainingKeeps
      <4> QED
        BY <2>1, <2>3, <4>2, <4>3 DEF LayerCancel, End, Lost
    <3> QED
      BY <3>1, <3>2
  <2>4. CASE LayerPause
    <3>1. PICK n \in Node : Return([st EXCEPT ![n] = "AwaitingApproval"], TRUE)
      BY <2>4 DEF LayerPause
    <3> QED
      BY <1>0, <2>1, <2>4, <3>1 DEF LayerPause, Return, End, Over
  <2> QED
    BY <1>2, <2>2, <2>3, <2>4 DEF Layer
<1>3. CASE Prepare
  <2>1. pc = "prepare" /\ ~Over
    BY <1>3, NoTaskThere DEF Prepare, PrepareNoneReady, StartShard, PrepareReady, PrepareFail,
       PreparePause, PrepareWait, Preparing
  <2>2. ~StartShard /\ \A n \in Node : ~PrepareReady(n) /\ ~PrepareWait(n)
    BY <2>1 DEF StartShard, PrepareReady, PrepareWait, Over
  <2>3. CASE PrepareNoneReady
    BY <2>1, <2>3 DEF PrepareNoneReady, End, Over
  <2>4. ASSUME NEW n \in Node, PrepareFail(n) PROVE End
    BY <1>1, <2>1, <2>4 DEF PrepareFail, Return
  <2>5. ASSUME NEW n \in Node, PreparePause(n) PROVE End
    BY <1>0, <2>1, <2>5 DEF PreparePause, Preparing, IsFirst, NowWaiting, Return, End
  <2> QED
    BY <1>3, <2>2, <2>3, <2>4, <2>5 DEF Prepare
<1>4. CASE Tasks
  BY <1>4, Turns DEF Turn, TaskFrame, Over
<1>5. CASE Join
  <2>1. ~ShardEnds
    BY DEF ShardEnds, AllReturned, Over
  <2>2. CASE DrainedEnds
    BY <2>2 DEF DrainedEnds, AllReturned, Return, End, Over
  <2>3. CASE LevelStops
    <3>1. PICK q : Return(Resolved(st, q), mode = "shards")
      BY <2>3 DEF LevelStops
    <3>2. /\ pc = "run" /\ stop /\ mode \in {"serial", "shards"} /\ runState' = runState
          /\ UNCHANGED <<plan, lvl, final>>
      BY <2>3 DEF LevelStops, AllReturned, IInv, TypeOK
    <3>3. st' = Resolved(st, q) /\ ckpt' = IF mode = "shards" THEN st' ELSE ckpt
      BY <3>1 DEF Return
    <3>4. \A n \in Node : \/ st'[n] = st[n]
                          \/ runState = "Cancelled" /\ st'[n] = "Skipped"
                          \/ runState # "Cancelled" /\ st'[n] = "Failed"
      BY <3>3 DEF Resolved
    <3> QED
      BY <3>2, <3>3, <3>4 DEF End, Over, Lost
  <2> QED
    BY <1>5, <2>1, <2>2, <2>3 DEF Join
<1>6. CASE Drain
  <2>1. pc = "drain" /\ ~Over
    BY <1>6, NoTaskThere DEF Drain, DrainEnds, Finish, DrainWake, DrainTimeout, DrainGiveUp,
       DrainFail, DrainPause, DrainKeep, Draining
  <2>2. ~DrainEnds /\ \A n \in Node : ~DrainWake(n) /\ ~DrainKeep(n)
    BY <2>1 DEF DrainEnds, NextLevel, DrainWake, DrainKeep, Over
  <2>3. CASE Finish
    <3>1. st' = st /\ ckpt' = st' /\ UNCHANGED <<plan, lvl, final>>
      BY <2>3 DEF Finish, Return
    <3> QED
      BY <2>1, <2>3, <3>1 DEF End
  <2>4. ASSUME NEW n \in Node, DrainFail(n) PROVE End
    BY <1>1, <2>1, <2>4 DEF DrainFail, Return
  <2>5. ASSUME NEW n \in Node, DrainPause(n) PROVE End
    BY <2>1, <2>5 DEF DrainPause, Return, End
  <2> QED
    BY <1>6, <2>2, <2>3, <2>4, <2>5 DEF Drain, DrainTimeout, DrainGiveUp
<1> QED
  BY <1>2, <1>3, <1>4, <1>5, <1>6 DEF Next, Terminated

\* There are finitely many nodes.
LEMMA NodesFinite == IsFiniteSet(Node)
BY SizeAssumption, FS_Interval DEF Node

\* Every step is the turn of a task, a pass, the end of the call or a stutter.
LEMMA Kinds ==
  ASSUME IInv, [Next]_vars, ~UNCHANGED vars
  PROVE  \/ \E n \in Node : Turn(n)
         \/ Pass
         \/ End
<1> SUFFICES ASSUME ~Over', ~Tasks PROVE Pass
  BY Turns, Endings
<1>0. st \in [Node -> NodeState] /\ todo \subseteq Node /\ ready \subseteq Node
  BY DEF IInv, TypeOK
<1>1. CASE Layer
  <2>1. pc = "layer" /\ stop' = stop /\ task' = task /\ runState' = runState
    BY <1>1 DEF Layer, LayerCancel, LayerSkip, LayerPause, LayerEnter, LayersDone, taskVars,
       Return, Over
  <2>2. ~Over /\ ~stop /\ Shard = {} /\ Shard' = {} /\ \A n \in Node : task'[n] = "none"
    BY <2>1, NoTaskThere DEF Shard
  <2>3. CASE LayerSkip
    BY <1>0, <2>1, <2>2, <2>3 DEF LayerSkip, Pass
  <2>4. CASE LayerEnter
    <3>1. PICK answered \in SUBSET (Batch \cap plan.unclear) :
            /\ plan' = [plan EXCEPT !.unclear = @ \ answered]
            /\ st' = [n \in Node |-> IF n \in Batch \ ((Batch \ plan.unclear) \cup answered)
                                     THEN "AwaitingClarification" ELSE st[n]]
            /\ todo' = (Batch \ plan.unclear) \cup answered
      BY <2>4 DEF LayerEnter
    <3>2. \E S : plan' = [plan EXCEPT !.unclear = S]
      BY <3>1
    <3>3. \A n \in Node : \/ st'[n] = st[n]
                          \/ n \in Batch /\ st'[n] = "AwaitingClarification"
      BY <3>1
    <3>4. \A n \in todo' : n \in Batch \ plan.sensitive
      BY <2>4, <3>1 DEF LayerEnter, Unapproved
    <3>5. ready' = ready
      BY <2>4 DEF LayerEnter
    <3> QED
      BY <2>1, <2>2, <3>2, <3>3, <3>4, <3>5 DEF Pass
  <2>5. CASE LayersDone
    BY <2>1, <2>2, <2>5 DEF LayersDone, Pass
  <2> QED
    BY <1>1, <2>3, <2>4, <2>5 DEF Layer, LayerCancel, LayerPause, Return, Over
<1>2. CASE Prepare
  <2>1. pc = "prepare" /\ stop' = stop /\ runState' = runState /\ plan' = plan
    BY <1>2 DEF Prepare, PrepareNoneReady, StartShard, PrepareReady, PrepareFail,
       PreparePause, PrepareWait, Preparing, taskVars, Return, Over
  <2>2. ~Over /\ ~stop /\ Shard = {} /\ \A n \in Node : task[n] = "none"
    BY <2>1, NoTaskThere
  <2>3. ASSUME UNCHANGED task PROVE Shard' = {} /\ \A n \in Node : task'[n] = "none"
    BY <2>2, <2>3 DEF Shard
  <2>4. CASE PrepareNoneReady
    BY <2>1, <2>2, <2>3, <2>4 DEF PrepareNoneReady, taskVars, Pass
  <2>5. CASE StartShard
    <3>1. PICK shard \in SUBSET ready : CreateTasks(shard)
      BY <2>5 DEF StartShard, IsFirst, Chunk
    <3>2. /\ \A n \in Node : task'[n] \in {"none", "new"}
          /\ Shard' \subseteq ready
      BY <3>1 DEF CreateTasks, Shard
    <3> QED
      BY <2>1, <2>2, <2>5, <3>2 DEF StartShard, Pass
  <2>6. ASSUME NEW n \in Node, PrepareReady(n) PROVE Pass
    BY <2>1, <2>2, <2>3, <2>6 DEF PrepareReady, Preparing, IsFirst, taskVars, Pass
  <2>7. ASSUME NEW n \in Node, PrepareWait(n) PROVE Pass
    BY <1>0, <2>1, <2>2, <2>3, <2>7 DEF PrepareWait, Preparing, IsFirst, NowWaiting, taskVars, Pass
  <2> QED
    BY <1>2, <2>4, <2>5, <2>6, <2>7 DEF Prepare, PrepareFail, PreparePause, Return, Over
<1>3. CASE Join
  <2>1. ~LevelStops /\ ~stop /\ ~Over
    BY <1>3 DEF Join, LevelStops, ShardEnds, DrainedEnds, AllReturned, Return, Over
  <2>2. PICK shard \in SUBSET ready : CreateTasks(shard)
    <3>1. CASE ClearTasks
      <4>1. CreateTasks({})
        BY <3>1 DEF ClearTasks, CreateTasks
      <4> QED
        BY <4>1
    <3>2. CASE CreateTasks(Chunk(ready, plan.par))
      BY <3>2 DEF Chunk
    <3> QED
      BY <1>3, <2>1, <3>1, <3>2 DEF Join, ShardEnds, DrainedEnds
  <2>3. /\ \A n \in Node : task'[n] \in {"none", "new"}
        /\ Shard' \subseteq ready
    BY <2>2 DEF CreateTasks, Shard
  <2>4. ~stop' /\ UNCHANGED <<plan, runState, st, todo>> /\ ready' \subseteq ready
    BY <1>3, <2>1 DEF Join, ShardEnds, DrainedEnds, ClearTasks
  <2> QED
    BY <2>1, <2>3, <2>4 DEF Pass
<1>4. CASE Drain
  <2>1. pc = "drain" /\ stop' = stop /\ plan' = plan /\ runState' = runState
    <3>1. ~Finish /\ \A n \in Node : ~DrainFail(n) /\ ~DrainPause(n)
      BY DEF Finish, DrainFail, DrainPause, Return, Over
    <3>2. DrainEnds \/ \E n \in Node : DrainWake(n) \/ DrainKeep(n)
      BY <1>4, <3>1 DEF Drain, DrainTimeout, DrainGiveUp
    <3> QED
      BY <3>2 DEF DrainEnds, DrainWake, DrainKeep, Draining, taskVars
  <2>2. ~Over /\ ~stop /\ Shard = {} /\ \A n \in Node : task[n] = "none"
    BY <2>1, NoTaskThere
  <2>3. ASSUME UNCHANGED task PROVE Shard' = {} /\ \A n \in Node : task'[n] = "none"
    BY <2>2, <2>3 DEF Shard
  <2>4. CASE DrainEnds
    BY <2>1, <2>2, <2>3, <2>4 DEF DrainEnds, taskVars, Pass
  <2>5. ASSUME NEW n \in Node, DrainWake(n) PROVE Pass
    <3>1. st[n] = "Waiting"
      BY <2>5, DrainingWaits DEF DrainWake
    <3>2. /\ st' = [st EXCEPT ![n] = "Pending"] /\ task' = [task EXCEPT ![n] = "new"]
          /\ UNCHANGED <<todo, ready>>
      BY <2>5 DEF DrainWake
    <3>3. task \in [Node -> {"none", "new", "run", "backoff", "again", "end"}]
      BY DEF IInv, TypeOK
    <3>4. Shard' = {n} /\ task'[n] = "new" /\ \A m \in Node : task'[m] \in {"none", "new"}
      BY <2>2, <3>2, <3>3 DEF Shard
    <3> QED
      BY <1>0, <2>1, <2>2, <3>1, <3>2, <3>4 DEF Pass
  <2>6. ASSUME NEW n \in Node, DrainKeep(n) PROVE Pass
    BY <2>1, <2>2, <2>3, <2>6 DEF DrainKeep, taskVars, Pass
  <2> QED
    BY <1>4, <2>4, <2>5, <2>6 DEF Drain, DrainTimeout, DrainGiveUp, Finish, DrainFail,
       DrainPause, Return, Over
<1> QED
  BY <1>1, <1>2, <1>3, <1>4 DEF Next, Terminated

-----------------------------------------------------------------------------
\* Verdicts.

LEMMA VerdictsKept ==
  ASSUME IInv, IInv', VerdictStates, [Next]_vars, ~UNCHANGED vars
  PROVE  VerdictStates'
<1>1. CASE End
  BY <1>1, NoTaskOutsideRun DEF IInv, TaskStates, Over, VerdictStates, End
<1>2. CASE Pass
  BY <1>2 DEF Pass, VerdictStates
<1>3. ASSUME NEW n \in Node, Turn(n) PROVE VerdictStates'
  <2>1. ~Over /\ task[n] # "end"
    BY <1>3 DEF Turn, Over
  <2> QED
    BY <1>3, <2>1 DEF VerdictStates, Turn
<1> QED
  BY <1>1, <1>2, <1>3, Kinds

-----------------------------------------------------------------------------
\* Sensitive nodes.

\* A pass changes at most what is known to be unclear.
LEMMA PlanKept ==
  ASSUME IInv, Pass \/ End \/ \E n \in Node : Turn(n)
  PROVE  /\ plan'.sensitive = plan.sensitive /\ plan'.needs = plan.needs /\ plan'.par = plan.par
         /\ plan'.level = plan.level /\ plan'.dependsOn = plan.dependsOn
<1>1. plan \in PlanType
  BY DEF IInv, TypeOK
<1> QED
  BY <1>1 DEF Pass, End, Turn, TaskFrame, PlanType

LEMMA SensitiveKept ==
  ASSUME IInv, IInv', SensitiveStates, [Next]_vars, ~UNCHANGED vars
  PROVE  SensitiveStates'
<1>0. plan.sensitive \subseteq Node
  BY DEF IInv, TypeOK, PlanType
<1>1. CASE End
  <2>1. Shard' = {} /\ todo' = {} /\ ready' = {}
    BY <1>1 DEF IInv, TaskStates, QueuedStates, End, Over
  <2> QED
    BY <1>0, <1>1, <2>1, PlanKept DEF SensitiveStates, SensitiveNeverRuns, End, Lost
<1>2. CASE Pass
  <2>1. \A n \in plan.sensitive : n \notin (todo \cup ready \cup Shard)'
    BY <1>0, <1>2 DEF Pass, SensitiveStates, SensitiveNeverRuns
  <2>2. \A n \in plan.sensitive : st'[n] \notin {"Running", "Completed", "Waiting"}
    BY <1>0, <1>2 DEF Pass, SensitiveStates, SensitiveNeverRuns
  <2> QED
    BY <1>2, <2>1, <2>2, PlanKept DEF SensitiveStates, SensitiveNeverRuns
<1>3. ASSUME NEW n \in Node, Turn(n) PROVE SensitiveStates'
  <2>1. n \in Shard /\ UNCHANGED <<todo, ready>> /\ plan' = plan
    BY <1>3 DEF Turn, Shard, TaskFrame
  <2>2. Shard' = Shard
    BY <1>3 DEF Turn, Shard
  <2>3. \A m \in Node \ {n} : st'[m] = st[m] \/ st'[m] = "Skipped"
    BY <1>3 DEF Turn
  <2> QED
    BY <1>0, <2>1, <2>2, <2>3 DEF SensitiveStates, SensitiveNeverRuns
<1> QED
  BY <1>1, <1>2, <1>3, Kinds

-----------------------------------------------------------------------------
\* Checkpoints.

\* A list of no nodes.
LEMMA NoneWaits ==
  ASSUME IInv, AllReturned, ShardWaits = {}, NEW w \in InOrder(ShardWaits)
  PROVE  \A n : Contains(deferred \o w, n) <=> Contains(deferred, n)
<1>1. w \in Seq(Node) /\ \A n : ~Contains(w, n)
  BY InOrderType
<1> QED
  BY <1>1, ConcatMembers DEF IInv, TypeOK

\* Where a pass leads from, and what it does to the checkpoint.
LEMMA Passing ==
  ASSUME IInv, [Next]_vars, ~UNCHANGED vars, Pass
  PROVE  /\ pc' \in {"layer", "prepare"} => \/ pc \in {"layer", "prepare"} /\ UNCHANGED ckpt
                                            \/ UNCHANGED st /\ ckpt' = st
         /\ pc' = "run" /\ mode' = "serial" => /\ pc = "prepare" /\ UNCHANGED <<st, ckpt>>
                                               /\ \A m, n \in Shard' : m = n
<1>1. CASE Layer
  BY <1>1 DEF Layer, LayerCancel, LayerSkip, LayerPause, LayerEnter, LayersDone, NextLevel,
     Pass, Return, Over
<1>2. CASE Prepare
  <2>1. CASE StartShard
    <3>1. pc = "prepare" /\ pc' = "run" /\ UNCHANGED <<st, ckpt>>
      BY <2>1 DEF StartShard
    <3>2. ASSUME mode' = "serial" PROVE \A m, n \in Shard' : m = n
      <4>1. PICK n \in Node : CreateTasks({n})
        BY <2>1, <3>2 DEF StartShard
      <4> QED
        BY <4>1 DEF CreateTasks, Shard
    <3> QED
      BY <3>1, <3>2
  <2>2. CASE ~StartShard
    BY <1>2, <2>2 DEF Prepare, PrepareNoneReady, PrepareReady, PrepareWait, PrepareFail,
       PreparePause, Preparing, Pass, Return, Over
  <2> QED
    BY <2>1, <2>2
<1>3. CASE Join
  <2>1. AllReturned /\ ~LevelStops
    BY <1>3 DEF Join, LevelStops, ShardEnds, DrainedEnds, Return, Pass, Over
  <2>2. CASE DrainedEnds
    BY <2>2 DEF DrainedEnds, Return, Pass, Over
  <2>3. CASE ShardEnds
    BY <2>1, <2>3 DEF ShardEnds, AllReturned, IInv, QueuedStates
  <2> QED
    BY <1>3, <2>1, <2>2, <2>3 DEF Join
<1>4. CASE Drain
  <2>1. CASE DrainEnds
    BY <2>1 DEF DrainEnds, NextLevel
  <2>2. CASE ~DrainEnds
    BY <1>4, <2>2 DEF Drain, DrainWake, DrainKeep, Draining, DrainTimeout, DrainGiveUp, Finish,
       DrainFail, DrainPause, Return, Pass, Over
  <2> QED
    BY <2>1, <2>2
<1>5. CASE Tasks
  BY <1>5, Turns DEF Turn, TaskFrame, Pass
<1> QED
  BY <1>1, <1>2, <1>3, <1>4, <1>5 DEF Next, Terminated

LEMMA SavedKept ==
  ASSUME IInv, VerdictStates, SavedStates, [Next]_vars, ~UNCHANGED vars
  PROVE  SavedStates'
<1>1. CASE End
  <2>1. pc' \in {"done", "thrown"} /\ \A n \in Node : st'[n] = "Completed" => st[n] = "Completed"
    BY <1>1 DEF End, Over, Lost
  <2>2. ASSUME pc' = "done", NEW n \in Node, st'[n] = "Completed" PROVE ckpt'[n] = "Completed"
    BY <1>1, <2>1, <2>2 DEF End, SavedStates
  <2> QED
    BY <2>1, <2>2 DEF SavedStates
<1>2. CASE Pass
  <2>1. ASSUME pc' \in {"layer", "prepare"}, NEW n \in Node, st'[n] = "Completed"
        PROVE  ckpt'[n] = "Completed"
    <3>1. st[n] = "Completed"
      BY <1>2, <2>1 DEF Pass
    <3> QED
      BY <1>2, <2>1, <3>1, Passing DEF SavedStates
  <2>2. ASSUME pc' = "run", mode' = "serial", NEW n \in Node, st'[n] = "Completed"
        PROVE  ckpt'[n] = "Completed"
    BY <1>2, <2>2, Passing DEF SavedStates
  <2>3. pc' # "done"
    BY <1>2 DEF Pass, Over
  <2> QED
    BY <1>2, <2>1, <2>2, <2>3, Passing DEF SavedStates
<1>3. ASSUME NEW n \in Node, Turn(n) PROVE SavedStates'
  <2>1. pc = "run" /\ pc' = "run" /\ UNCHANGED <<mode, ckpt>> /\ Shard' = Shard /\ n \in Shard
    BY <1>3 DEF Turn, TaskFrame, Shard
  <2> SUFFICES ASSUME mode = "serial", NEW m \in Node, st'[m] = "Completed"
               PROVE  ckpt[m] = "Completed" \/ (m \in Shard /\ ~stop')
    BY <2>1 DEF SavedStates
  <2>2. \A k \in Shard : k = n
    BY <2>1 DEF SavedStates
  <2>3. ~stop
    BY <1>3, <2>2 DEF VerdictStates, Shard, Turn
  <2>4. CASE m = n
    BY <1>3, <2>1, <2>3, <2>4 DEF Turn
  <2>5. CASE m # n
    <3>1. st[m] = "Completed"
      BY <1>3, <2>5 DEF Turn
    <3> QED
      BY <2>1, <2>2, <2>5, <3>1 DEF SavedStates
  <2> QED
    BY <2>4, <2>5
<1> QED
  BY <1>1, <1>2, <1>3, Kinds

-----------------------------------------------------------------------------
\* Turns of the nodes.

\* What VisitedStates says while the call goes on.
Visited ==
    /\ \A n \in Node : st[n] = "Pending" => n \in Ahead \cup todo \cup ready \/ task[n] = "new"
    /\ \A n \in todo \cup ready : plan.level[n] = lvl
    /\ pc = "run" => \/ mode = "drain" /\ \A m, n \in Shard : m = n
                     \/ mode # "drain" /\ \A n \in Shard : plan.level[n] = lvl

LEMMA VisitedKept ==
  ASSUME IInv, VisitedStates, [Next]_vars, ~UNCHANGED vars
  PROVE  VisitedStates'
<1> SUFFICES ASSUME plan'.par > 1, ~Over' PROVE Visited'
  BY DEF VisitedStates, Visited
<1>1. CASE End
  BY <1>1 DEF End
<1>2. ASSUME NEW n \in Node, Turn(n) PROVE Visited'
  <2>1. /\ UNCHANGED <<plan, pc, lvl, todo, ready, mode>> /\ pc = "run" /\ ~Over
        /\ Shard' = Shard /\ Ahead' = Ahead
    BY <1>2 DEF Turn, TaskFrame, Shard, Ahead, Over
  <2>2. Visited
    BY <2>1 DEF VisitedStates, Visited
  <2>3. \A m \in Node : st'[m] = "Pending" => st[m] = "Pending" /\ task'[m] = task[m]
    BY <1>2 DEF Turn
  <2> QED
    BY <2>1, <2>2, <2>3 DEF Visited
<1>3. CASE Pass
  <2>0. /\ plan'.par = plan.par /\ plan'.level = plan.level /\ ~Over
        /\ plan.level \in [Node -> Nat] /\ lvl \in Nat /\ plan.par \in Nat /\ N \in Node
    BY <1>3, PlanKept, NodeFacts DEF Pass, IInv, TypeOK, PlanType
  <2>1. Visited
    BY <2>0 DEF VisitedStates, Visited
  <2>2. \A n \in Node : plan.level[n] <= LastLevel
    <3> SUFFICES ASSUME NEW n \in Node PROVE plan.level[n] <= plan.level[N]
      BY DEF LastLevel
    <3>1. n < N \/ n = N
      BY SizeAssumption DEF Node
    <3> QED
      BY <2>0, <3>1 DEF IInv, WellFormed
  <2>3. CASE Layer
    <3>1. pc = "layer" /\ todo = {} /\ ready = {} /\ \A n \in Node : task[n] = "none"
      BY <2>3, LayerFacts DEF Layer, LayerCancel, LayerSkip, LayerPause, LayerEnter, LayersDone
    <3>2. \A n \in Node : st[n] = "Pending" => plan.level[n] >= lvl
      BY <2>0, <2>1, <3>1 DEF Visited, Ahead
    <3>3. CASE LayerSkip
      <4>1. pc' = "layer" /\ lvl' = lvl + 1 /\ todo' = {} /\ ready' = {}
        BY <3>1, <3>3 DEF LayerSkip, NextLevel
      <4>2. \A n \in Node : st'[n] = "Pending" => st[n] = "Pending" /\ plan.level[n] # lvl
        BY <3>3 DEF LayerSkip, Batch
      <4>3. \A n \in Node : st'[n] = "Pending" => plan.level[n] >= lvl + 1
        BY <2>0, <3>2, <4>2
      <4> QED
        BY <2>0, <4>1, <4>3 DEF Visited, Ahead
    <3>4. CASE LayerEnter
      <4>1. PICK answered \in SUBSET (Batch \cap plan.unclear) :
              LET executable == (Batch \ plan.unclear) \cup answered IN
              /\ st' = [n \in Node |-> IF n \in Batch \ executable
                                       THEN "AwaitingClarification" ELSE st[n]]
              /\ todo' = executable
              /\ IF executable = {} THEN NextLevel ELSE pc' = "prepare" /\ UNCHANGED lvl
        BY <3>4 DEF LayerEnter
      <4>2. todo' \subseteq Batch /\ ready' = {}
        BY <3>1, <3>4, <4>1 DEF LayerEnter
      <4>3. \A n \in Node : st'[n] = "Pending" =>
              st[n] = "Pending" /\ (n \in todo' \/ plan.level[n] # lvl)
        BY <4>1 DEF Batch
      <4>4. \A n \in Node : st'[n] = "Pending" => n \in todo' \/ plan.level[n] > lvl
        BY <2>0, <3>2, <4>3
      <4>5. \/ pc' = "layer" /\ lvl' = lvl + 1 /\ todo' = {}
            \/ pc' = "prepare" /\ lvl' = lvl
        BY <4>1 DEF NextLevel
      <4> QED
        BY <2>0, <4>2, <4>4, <4>5 DEF Visited, Ahead, Batch
    <3>5. CASE LayersDone
      <4>1. lvl > LastLevel /\ LastLevel \in Nat
        BY <2>0, <3>5 DEF LayersDone, LastLevel
      <4>2. \A n \in Node : st[n] # "Pending"
        BY <2>0, <2>2, <3>2, <4>1
      <4> QED
        BY <3>1, <3>5, <4>2 DEF LayersDone, Visited
    <3> QED
      BY <1>3, <2>3, <3>3, <3>4, <3>5 DEF Layer, LayerCancel, LayerPause, Return, Pass, Over
  <2>4. CASE Prepare
    <3>0. pc = "prepare" /\ ready \subseteq Node /\ \A n \in Node : task[n] = "none"
      BY <2>4, NoTaskThere DEF Prepare, PrepareNoneReady, StartShard, PrepareReady, PrepareFail,
         PreparePause, PrepareWait, Preparing, IInv, TypeOK
    <3>1. CASE PrepareNoneReady
      BY <2>0, <2>1, <3>0, <3>1 DEF PrepareNoneReady, Visited, Ahead, taskVars
    <3>2. CASE StartShard
      <4>1. /\ todo = {} /\ todo' = {} /\ pc' = "run" /\ mode' # "drain"
            /\ UNCHANGED <<st, lvl>> /\ Ahead' = Ahead
        BY <2>0, <3>0, <3>2 DEF StartShard, Ahead
      <4>2. PICK shard \in SUBSET ready : CreateTasks(shard) /\ ready' = ready \ shard
        <5>1. CASE Cardinality(ready) = 1
          <6>1. PICK x : ready = {x}
            BY <3>0, <5>1, FS_Singleton, NodesFinite, FS_Subset
          <6>2. PICK n \in Node : n \in ready /\ CreateTasks({n}) /\ ready' = {}
            BY <3>2, <5>1 DEF StartShard, IsFirst
          <6>3. ready' = ready \ {n}
            BY <6>1, <6>2
          <6> QED
            BY <6>2, <6>3
        <5>2. CASE Cardinality(ready) # 1
          <6>1. ~(plan.par <= 1)
            BY <2>0
          <6>2. LET shard == Chunk(ready, plan.par) IN CreateTasks(shard) /\ ready' = ready \ shard
            BY <3>2, <5>2, <6>1 DEF StartShard
          <6>3. Chunk(ready, plan.par) \subseteq ready
            BY DEF Chunk
          <6> QED
            BY <6>2, <6>3
        <5> QED
          BY <5>1, <5>2
      <4>3. Shard' = shard /\ \A n \in shard : task'[n] = "new"
        BY <3>0, <4>2 DEF CreateTasks, Shard
      <4> QED
        BY <2>0, <2>1, <3>0, <4>1, <4>2, <4>3 DEF Visited
    <3>3. ASSUME NEW n \in Node, PrepareReady(n) PROVE Visited'
      BY <2>0, <2>1, <3>0, <3>3 DEF PrepareReady, Preparing, IsFirst, Visited, Ahead, taskVars
    <3>4. ASSUME NEW n \in Node, PrepareWait(n) PROVE Visited'
      BY <2>0, <2>1, <3>0, <3>4 DEF PrepareWait, Preparing, IsFirst, NowWaiting, Visited, Ahead,
         taskVars, IInv, TypeOK
    <3> QED
      BY <1>3, <2>4, <3>1, <3>2, <3>3, <3>4 DEF Prepare, PrepareFail, PreparePause, Return, Pass, Over
  <2>5. CASE Join
    <3>1. /\ AllReturned /\ todo = {} /\ pc = "run" /\ UNCHANGED <<st, lvl, todo>>
          /\ \A n \in Node : task[n] # "new"
      BY <1>3, <2>5, JoinFacts, ReturnedNotRunning
         DEF Join, LevelStops, ShardEnds, DrainedEnds, Return, Pass, Over
    <3>2. Ahead' = Ahead /\ pc' \in {"run", "drain"}
      BY <1>3, <2>0, <2>5, <3>1 DEF Join, LevelStops, ShardEnds, DrainedEnds, Return, Pass, Over, Ahead
    <3>3. \A n \in Node : st[n] = "Pending" => n \in Ahead \cup ready
      BY <2>1, <3>1 DEF Visited
    <3>4. CASE pc' = "drain"
      BY <1>3, <2>0, <2>1, <2>5, <3>1, <3>2, <3>3, <3>4
         DEF Join, LevelStops, ShardEnds, DrainedEnds, Return, Pass, Over, Visited
    <3>5. CASE pc' = "run"
      <4>1. PICK shard \in SUBSET ready :
              CreateTasks(shard) /\ ready' = ready \ shard /\ mode' = mode /\ mode # "drain"
        BY <1>3, <2>5, <3>5 DEF Join, LevelStops, ShardEnds, DrainedEnds, Return, Pass, Over, Chunk
      <4>2. Shard' = shard /\ \A n \in shard : task'[n] = "new"
        BY <4>1 DEF CreateTasks, Shard, IInv, TypeOK
      <4> QED
        BY <2>0, <2>1, <3>1, <3>2, <3>3, <4>1, <4>2 DEF Visited
    <3> QED
      BY <3>2, <3>4, <3>5
  <2>6. CASE Drain
    <3>0. pc = "drain" /\ todo = {} /\ ready = {} /\ Shard = {} /\ \A n \in Node : task[n] = "none"
      BY <2>6, DrainFacts, NoTaskThere DEF Drain, DrainEnds, Finish, DrainWake, DrainTimeout,
         DrainGiveUp, DrainFail, DrainPause, DrainKeep, Draining
    <3>1. CASE DrainEnds
      <4>1. pc' = "layer" /\ lvl' = lvl + 1 /\ UNCHANGED <<st, todo, ready>>
        BY <3>1 DEF DrainEnds, NextLevel
      <4> QED
        BY <2>0, <2>1, <3>0, <4>1 DEF Visited, Ahead
    <3>2. ASSUME NEW n \in Node, DrainWake(n) PROVE Visited'
      <4>1. /\ pc' = "run" /\ mode' = "drain" /\ UNCHANGED <<lvl, todo, ready>>
            /\ st' = [st EXCEPT ![n] = "Pending"] /\ task' = [task EXCEPT ![n] = "new"]
        BY <3>2 DEF DrainWake
      <4>2. Ahead' = Ahead /\ Shard' = {n} /\ task'[n] = "new"
        BY <2>0, <3>0, <4>1 DEF Ahead, Shard, IInv, TypeOK
      <4>3. \A m \in Node \ {n} : st'[m] = st[m] /\ task'[m] = task[m]
        BY <4>1 DEF IInv, TypeOK
      <4> QED
        BY <2>0, <2>1, <3>0, <4>1, <4>2, <4>3 DEF Visited
    <3>3. ASSUME NEW n \in Node, DrainKeep(n) PROVE Visited'
      BY <2>0, <2>1, <3>0, <3>3 DEF DrainKeep, Visited, Ahead, taskVars
    <3> QED
      BY <1>3, <2>6, <3>1, <3>2, <3>3 DEF Drain, DrainTimeout, DrainGiveUp, Finish, DrainFail,
         DrainPause, Return, Pass, Over
  <2>7. CASE Tasks
    BY <1>3, <2>7, Turns DEF Turn, Pass
  <2> QED
    BY <2>3, <2>4, <2>5, <2>6, <2>7 DEF Next, Terminated
<1> QED
  BY <1>1, <1>2, <1>3, Kinds

-----------------------------------------------------------------------------
\* Why a plan is over.

\* What FinishStates says but for FinishedCleanly.
Reasons ==
    /\ runState = "Finished" /\ ~Over => stop /\ \E n \in Node : st[n] = "Failed"
    /\ \A n \in Node : st[n] = "AwaitingApproval" => Over /\ runState = "PausedForApproval"
    /\ Declared => \A n \in Node : task[n] = "end" => st[n] # "Waiting"

LEMMA ReasonsKept ==
  ASSUME IInv, IInv', VerdictStates, FinishStates, [Next]_vars, ~UNCHANGED vars
  PROVE  Reasons'
<1>1. CASE End
  <2>1. \A n \in Node : task'[n] = "none"
    BY <1>1 DEF End, Over, IInv, TaskStates, Shard
  <2>2. \A n \in Node : st'[n] = "AwaitingApproval" => runState' = "PausedForApproval"
    BY <1>1 DEF End, FinishStates, Lost
  <2> QED
    BY <1>1, <2>1, <2>2 DEF End, Reasons
<1>2. CASE Pass
  BY <1>2 DEF Pass, FinishStates, Reasons
<1>3. ASSUME NEW n \in Node, Turn(n) PROVE Reasons'
  <2>1. ~Over /\ plan' = plan
    BY <1>3 DEF Turn, TaskFrame, Over
  <2>2. ASSUME runState' = "Finished" PROVE stop' /\ \E m \in Node : st'[m] = "Failed"
    <3>1. CASE UNCHANGED <<stop, runState>>
      <4>1. PICK m \in Node : st[m] = "Failed"
        BY <2>1, <2>2, <3>1 DEF FinishStates
      <4>2. m # n /\ stop
        BY <1>3, <2>1, <4>1 DEF Turn, VerdictStates
      <4> QED
        BY <1>3, <3>1, <4>1, <4>2 DEF Turn
    <3> QED
      BY <1>3, <2>2, <3>1 DEF Turn
  <2>3. \A m \in Node : st'[m] # "AwaitingApproval"
    BY <1>3, <2>1 DEF Turn, FinishStates
  <2>4. ASSUME Declared, NEW m \in Node, task'[m] = "end" PROVE st'[m] # "Waiting"
    BY <1>3, <2>4 DEF Turn, Declared, FinishStates
  <2> QED
    BY <2>1, <2>2, <2>3, <2>4 DEF Reasons, Declared
<1> QED
  BY <1>1, <1>2, <1>3, Kinds

\* The last drain: no node that still waits is left out of it.
LastDrain ==
    /\ final => lvl > LastLevel /\ pc # "prepare"
    /\ Declared /\ final /\ ~Over => \A n \in Node : Contains(deferred, n) => Contains(drainq, n)

LEMMA LastDrainKept ==
  ASSUME IInv, FinishStates, [Next]_vars, ~UNCHANGED vars
  PROVE  LastDrain'
<1>0. /\ LastDrain /\ lvl \in Nat /\ LastLevel \in Nat /\ plan.level \in [Node -> Nat]
      /\ deferred \in Seq(Node) /\ drainq \in Seq(Node) /\ N \in Node
  BY NodeFacts DEF FinishStates, LastDrain, IInv, TypeOK, PlanType, LastLevel
<1>1. CASE End
  BY <1>0, <1>1 DEF End, LastDrain, LastLevel, Over
<1>2. ASSUME NEW n \in Node, Turn(n) PROVE LastDrain'
  BY <1>0, <1>2 DEF Turn, TaskFrame, LastDrain, LastLevel, Declared, Over
<1>3. CASE Pass
  <2>0. LastLevel' = LastLevel /\ Declared' = Declared /\ ~Over
    BY <1>3, PlanKept DEF LastLevel, Declared, Pass
  <2>1. CASE Layer
    <3>1. CASE LayersDone
      BY <1>0, <2>0, <3>1 DEF LayersDone, LastDrain
    <3>2. CASE LayerSkip \/ LayerEnter
      <4>1. final' = final /\ lvl <= LastLevel
        BY <3>2 DEF LayerSkip, LayerEnter
      <4>2. ~final'
        BY <1>0, <4>1 DEF LastDrain
      <4> QED
        BY <4>2 DEF LastDrain
    <3> QED
      BY <1>3, <2>1, <3>1, <3>2 DEF Layer, LayerCancel, LayerPause, Return, Pass, Over
  <2>2. CASE Prepare
    <3>1. pc = "prepare" /\ final' = final
      BY <2>2 DEF Prepare, PrepareNoneReady, StartShard, PrepareReady, PrepareFail,
         PreparePause, PrepareWait, Preparing
    <3>2. ~final'
      BY <1>0, <3>1 DEF LastDrain
    <3> QED
      BY <3>2 DEF LastDrain
  <2>3. CASE Join
    <3>1. /\ AllReturned /\ UNCHANGED <<final, lvl>> /\ pc' # "prepare"
          /\ drainq' \in {drainq, deferred'}
      BY <1>3, <2>3 DEF Join, LevelStops, ShardEnds, DrainedEnds, AllReturned, Return, Pass, Over
    <3>2. PICK w \in InOrder(ShardWaits) : deferred' = deferred \o w
      BY <1>3, <2>3 DEF Join, LevelStops, ShardEnds, DrainedEnds, Return, Pass, Over
    <3>3. ASSUME Declared PROVE \A n \in Node : Contains(deferred', n) <=> Contains(deferred, n)
      <4>1. ShardWaits = {}
        BY <3>1, <3>3 DEF FinishStates, ShardWaits, Shard, AllReturned
      <4> QED
        BY <3>1, <3>2, <4>1, NoneWaits
    <3> QED
      BY <1>0, <2>0, <3>1, <3>3 DEF LastDrain
  <2>4. CASE Drain
    <3>1. CASE DrainEnds \/ \E n \in Node : DrainKeep(n)
      BY <1>0, <2>0, <3>1 DEF DrainEnds, DrainKeep, LastDrain
    <3>2. ASSUME NEW n \in Node, DrainWake(n) PROVE LastDrain'
      <4>1. /\ UNCHANGED <<final, lvl>> /\ pc' = "run" /\ drainq # <<>> /\ n = Head(drainq)
            /\ drainq' = Tail(drainq) /\ deferred' = RemoveFirst(deferred, n) /\ Draining(n)
        BY <3>2 DEF DrainWake, Draining, CloseWait
      <4>2. Contains(deferred, n) /\ IsInjective(deferred) /\ IsInjective(drainq)
        BY <4>1, DrainingWaits DEF IInv, DeferredStates
      <4>3. \A m : Contains(deferred', m) <=> Contains(deferred, m) /\ m # n
        BY <1>0, <4>1, <4>2, RemoveFirstMembers
      <4>4. \A m : Contains(drainq', m) <=> Contains(drainq, m) /\ m # n
        BY <1>0, <4>1, <4>2, TailMembers
      <4> QED
        BY <1>0, <2>0, <4>1, <4>3, <4>4 DEF LastDrain
    <3> QED
      BY <1>3, <2>4, <3>1, <3>2 DEF Drain, DrainTimeout, DrainGiveUp, Finish, DrainFail,
         DrainPause, Return, Pass, Over
  <2>5. CASE Tasks
    BY <1>3, <2>5, Turns DEF Turn, Pass
  <2> QED
    BY <2>1, <2>2, <2>3, <2>4, <2>5 DEF Next, Terminated
<1> QED
  BY <1>1, <1>2, <1>3, Kinds

\* After the last drain every node has come to an end.
LEMMA FinishIsClean ==
  ASSUME IInv, VisitedStates, FinishStates, Finish, Declared, plan.par > 1,
         \A n \in Node : st[n] # "Failed"
  PROVE  \A n \in Node : st[n] \in {"Completed", "Skipped", "AwaitingClarification"}
<1> SUFFICES ASSUME NEW n \in Node
             PROVE  st[n] \in {"Completed", "Skipped", "AwaitingClarification"}
  OBVIOUS
<1>1. /\ pc = "drain" /\ drainq = <<>> /\ final /\ ~Over /\ todo = {} /\ ready = {}
      /\ task[n] = "none" /\ st[n] # "Running"
  BY DrainFacts, NoTaskThere DEF Finish
<1>2. st[n] # "Waiting"
  BY <1>1, DrainFacts, EmptyList DEF FinishStates
<1>3. st[n] # "AwaitingApproval"
  BY <1>1 DEF FinishStates
<1>4. st[n] # "Pending"
  <2>1. n \notin Ahead
    <3>1. plan.level[n] <= plan.level[N]
      <4>1. n < N \/ n = N
        BY SizeAssumption DEF Node
      <4> QED
        BY <4>1, NodeFacts DEF IInv, TypeOK, PlanType, WellFormed
    <3>2. plan.level[N] < lvl /\ plan.level[n] \in Nat /\ plan.level[N] \in Nat /\ lvl \in Nat
      BY <1>1, NodeFacts DEF FinishStates, LastLevel, IInv, TypeOK, PlanType
    <3> QED
      BY <1>1, <3>1, <3>2 DEF Ahead
  <2> QED
    BY <1>1, <2>1 DEF VisitedStates
<1>5. st[n] \in NodeState
  BY DEF IInv, TypeOK
<1> QED
  BY <1>1, <1>2, <1>3, <1>4, <1>5 DEF NodeState

LEMMA FinishKept ==
  ASSUME IInv, IInv', VerdictStates, VisitedStates, FinishStates, [Next]_vars, ~UNCHANGED vars
  PROVE  FinishStates'
<1>1. Reasons' /\ LastDrain'
  BY ReasonsKept, LastDrainKept
<1>2. FinishedCleanly'
  <2> SUFFICES ASSUME Declared', plan'.par > 1, pc' = "done", runState' = "Finished",
                      \A n \in Node : st'[n] # "Failed"
               PROVE  \A n \in Node : st'[n] \in {"Completed", "Skipped", "AwaitingClarification"}
    BY DEF FinishedCleanly
  <2>1. End
    BY Kinds DEF Turn, TaskFrame, Pass, Over
  <2>2. ~(runState = "Finished" /\ \A n \in Node : st[n] = "Failed" => st'[n] = "Failed")
    BY <2>1 DEF End, FinishStates
  <2>3. Finish /\ st' = st /\ plan' = plan
    BY <2>1, <2>2 DEF End, Finish, Return
  <2> QED
    BY <2>3, FinishIsClean DEF Declared
<1> QED
  BY <1>1, <1>2 DEF FinishStates, Reasons, LastDrain

-----------------------------------------------------------------------------
\* The second invariant and what follows from it.

LEMMA InitOutcome == Init => OutcomeInv
<1> SUFFICES ASSUME Init PROVE OutcomeInv
  OBVIOUS
<1>1. Shard = {} /\ ~Over /\ plan \in PlanType
  BY PlansAssumption DEF Init, Entry, Shard, Over
<1>2. VerdictStates /\ SavedStates
  BY <1>1 DEF Init, Entry, VerdictStates, SavedStates
<1>3. SensitiveStates
  BY <1>1 DEF Init, Entry, SensitiveStates, SensitiveNeverRuns, PlanType
<1>4. VisitedStates
  <2>1. \A n \in Node : plan.level[n] \in Nat
    BY <1>1 DEF PlanType
  <2> QED
    BY <2>1 DEF Init, Entry, VisitedStates, Ahead
<1>5. FinishStates
  BY DEF Init, Entry, FinishStates, FinishedCleanly
<1> QED
  BY <1>2, <1>3, <1>4, <1>5 DEF OutcomeInv

LEMMA OutcomeStutters == ASSUME OutcomeInv, UNCHANGED vars PROVE OutcomeInv'
<1>1. UNCHANGED <<plan, runState, st, waitOn, waitOpen, deps, deferred, pc, lvl, todo,
                  ready, mode, task, attempt, reinj, stop, drainq, final, ckpt>>
  BY DEF vars
<1>2. Over' = Over /\ Shard' = Shard /\ Ahead' = Ahead /\ LastLevel' = LastLevel
      /\ Declared' = Declared
  BY <1>1 DEF Over, Shard, Ahead, LastLevel, Declared
<1>3. VerdictStates' /\ SavedStates' /\ SensitiveStates' /\ VisitedStates'
  BY <1>1, <1>2 DEF OutcomeInv, VerdictStates, SavedStates, SensitiveStates, SensitiveNeverRuns,
     VisitedStates
<1>4. FinishStates'
  BY <1>1, <1>2 DEF OutcomeInv, FinishStates, FinishedCleanly
<1> QED
  BY <1>3, <1>4 DEF OutcomeInv

LEMMA NextOutcome == IInv /\ OutcomeInv /\ [Next]_vars => OutcomeInv'
<1> SUFFICES ASSUME IInv, OutcomeInv, [Next]_vars, ~UNCHANGED vars PROVE OutcomeInv'
  BY OutcomeStutters
<1>1. IInv'
  BY NextIInv
<1> QED
  BY <1>1, VerdictsKept, SensitiveKept, SavedKept, VisitedKept, FinishKept DEF OutcomeInv

\* The second inductive invariant, for every size and every set of plans.
THEOREM Outcomes == Spec => [](IInv /\ OutcomeInv)
<1>1. Init => IInv /\ OutcomeInv
  BY InitIInv, InitOutcome
<1>2. IInv /\ OutcomeInv /\ [Next]_vars => (IInv /\ OutcomeInv)'
  BY NextIInv, NextOutcome
<1> QED
  BY <1>1, <1>2, PTL DEF Spec

\* A sensitive node is never run, never waits and never completes: the approval
\* of the user comes first.
THEOREM Approved == Spec => []SensitiveNeverRuns
<1>1. OutcomeInv => SensitiveNeverRuns
  BY DEF OutcomeInv, SensitiveStates
<1> QED
  BY <1>1, Outcomes, PTL

\* When ExecuteAsync has returned, every completed node is in the checkpoint.
THEOREM Saved == Spec => []CheckpointComplete
<1>1. OutcomeInv => CheckpointComplete
  BY DEF OutcomeInv, SavedStates, CheckpointComplete
<1> QED
  BY <1>1, Outcomes, PTL

\* A plan that finished without a failure has run every node to an end.
THEOREM Clean == Spec => []FinishedCleanly
<1>1. OutcomeInv => FinishedCleanly
  BY DEF OutcomeInv, FinishStates
<1> QED
  BY <1>1, Outcomes, PTL

\* A node runs only when each node it depends on has had its turn.
THEOREM Ordered == Spec => []DependenciesVisited
<1>1. IInv /\ OutcomeInv => DependenciesVisited
  <2> SUFFICES ASSUME IInv, VisitedStates, plan.par > 1, NEW n \in Active,
                      NEW d \in plan.dependsOn[n]
               PROVE  st[d] \notin {"Pending", "Running"}
    BY DEF DependenciesVisited, OutcomeInv
  <2>1. /\ n \in Node /\ n \in Shard /\ d \in Node /\ plan.level[d] < plan.level[n]
        /\ plan.level[n] <= lvl /\ lvl \in Nat /\ plan.level[d] \in Nat /\ plan.level[n] \in Nat
    BY DEF Active, Shard, IInv, TypeOK, PlanType, WellFormed, QueuedStates
  <2>2. pc = "run" /\ ~Over
    BY <2>1 DEF IInv, TaskStates, Over
  <2>3. d \notin Shard
    BY <2>1, <2>2 DEF VisitedStates
  <2>4. st[d] # "Running"
    BY <2>1, <2>3 DEF IInv, TaskStates, Active, Shard
  <2>5. d \notin Ahead \cup todo \cup ready
    BY <2>1, <2>2 DEF Ahead, VisitedStates
  <2>6. st[d] # "Pending"
    BY <2>1, <2>2, <2>3, <2>5 DEF VisitedStates, Shard
  <2> QED
    BY <2>4, <2>6
<1> QED
  BY <1>1, Outcomes, PTL

\* After a failure no task of another shard starts its node.
THEOREM Stopped == Spec => FailureStopsStarts
<1>1. IInv /\ OutcomeInv /\ [Next]_vars =>
        [\A m, n \in Node : st[m] = "Failed" /\ task[n] = "new" /\ task'[n] = "run"
            => task[m] = "end"]_vars
  <2> SUFFICES ASSUME IInv, OutcomeInv, [Next]_vars, NEW m \in Node, NEW n \in Node,
                      st[m] = "Failed", task[n] = "new", task'[n] = "run"
               PROVE  task[m] = "end"
    OBVIOUS
  <2>1. pc = "run"
    BY DEF IInv, TaskStates, Shard
  <2> QED
    BY <2>1 DEF OutcomeInv, VerdictStates, Over
<1> QED
  BY <1>1, Outcomes, PTL DEF Spec, FailureStopsStarts

-----------------------------------------------------------------------------
\* Nodes that wait for each other.

\* From every node there is a chain along f.
LEMMA ChainExists ==
  ASSUME NEW f \in [Node -> Node \cup {NoNode}], NEW p \in Node
  PROVE  \E w \in [0..N -> Node \cup {NoNode}] :
            /\ w[0] = p
            /\ \A k \in 1..N : w[k] = IF w[k - 1] = NoNode THEN NoNode ELSE f[w[k - 1]]
<1> DEFINE R == Node \cup {NoNode}
           g == [k \in 1..N |-> [x \in R |-> IF x = NoNode THEN NoNode ELSE f[x]]]
<1>1. N \in Nat /\ p \in R
  BY SizeAssumption
<1>2. g \in [1..N -> [R -> R]]
  OBVIOUS
<1>3. \A k \in 1..N, x \in R : g[k][x] = IF x = NoNode THEN NoNode ELSE f[x]
  OBVIOUS
<1> HIDE DEF R, g
<1>4. PICK w \in [0..N -> R] : w[0] = p /\ \A k \in 1..N : w[k] = g[k][w[k - 1]]
  <2>1. Iterations(R, p, N, g) # {}
    BY <1>1, <1>2, Recursion
  <2> QED
    BY <2>1 DEF Iterations
<1>5. \A k \in 1..N : w[k] = IF w[k - 1] = NoNode THEN NoNode ELSE f[w[k - 1]]
  <2> SUFFICES ASSUME NEW k \in 1..N
               PROVE  w[k] = IF w[k - 1] = NoNode THEN NoNode ELSE f[w[k - 1]]
    OBVIOUS
  <2>1. k - 1 \in 0..N
    BY <1>1
  <2> QED
    BY <1>3, <1>4, <2>1
<1> QED
  BY <1>4, <1>5 DEF R

\* The chain of wait records that starts at p, link by link.
LEMMA WaitChainLinks ==
  ASSUME waitOn \in [Node -> Node \cup {NoNode}], NEW p \in Node
  PROVE  /\ WaitChain(p) \in [0..N -> Node \cup {NoNode}]
         /\ WaitChain(p)[0] = p
         /\ \A k \in 1..N : WaitChain(p)[k] = IF WaitChain(p)[k - 1] = NoNode THEN NoNode
                                              ELSE waitOn[WaitChain(p)[k - 1]]
<1>1. N \in Nat
  BY SizeAssumption
<1>2. PICK w \in [0..N -> Node \cup {NoNode}] :
          /\ w[0] = p
          /\ \A k \in 1..N : w[k] = IF w[k - 1] = NoNode THEN NoNode ELSE waitOn[w[k - 1]]
  BY ChainExists
<1>3. w = [k \in 0..N |-> IF k = 0 THEN p
                          ELSE IF w[k - 1] = NoNode THEN NoNode ELSE waitOn[w[k - 1]]]
  <2>1. \A k \in 0..N : k # 0 => k \in 1..N
    BY <1>1
  <2>2. \A k \in 0..N : w[k] = IF k = 0 THEN p
                               ELSE IF w[k - 1] = NoNode THEN NoNode ELSE waitOn[w[k - 1]]
    BY <1>2, <2>1, Zenon
  <2> QED
    BY <2>2, Zenon
<1>4. WaitChain(p) = [k \in 0..N |->
          IF k = 0 THEN p
          ELSE IF WaitChain(p)[k - 1] = NoNode THEN NoNode ELSE waitOn[WaitChain(p)[k - 1]]]
  BY <1>3, Zenon DEF WaitChain
<1> DEFINE c == WaitChain(p)
<1> HIDE DEF c
<1>5. c = [k \in 0..N |-> IF k = 0 THEN p
                          ELSE IF c[k - 1] = NoNode THEN NoNode ELSE waitOn[c[k - 1]]]
  BY <1>4, Zenon DEF c
<1>6. c[0] = p /\ \A k \in 1..N : c[k] = IF c[k - 1] = NoNode THEN NoNode ELSE waitOn[c[k - 1]]
  <2>1. 0 \in 0..N /\ \A k \in 1..N : k \in 0..N /\ k # 0
    BY <1>1
  <2>2. \A k \in 0..N : c[k] = IF k = 0 THEN p
                               ELSE IF c[k - 1] = NoNode THEN NoNode ELSE waitOn[c[k - 1]]
    BY <1>5, Zenon
  <2> QED
    BY <2>1, <2>2, Zenon
<1>7. \A k \in 0..N : c[k] = w[k]
  <2> DEFINE T == {k \in Nat : k <= N => c[k] = w[k]}
  <2>1. 0 \in T
    BY <1>2, <1>6
  <2>2. ASSUME NEW k \in Nat, k \in T PROVE k + 1 \in T
    <3> SUFFICES ASSUME k + 1 <= N PROVE c[k + 1] = w[k + 1]
      OBVIOUS
    <3>1. k + 1 \in 1..N /\ (k + 1) - 1 = k /\ c[k] = w[k]
      BY <1>1, <2>2
    <3> QED
      BY <1>2, <1>6, <3>1
  <2> HIDE DEF T
  <2>3. Nat \subseteq T
    BY <2>1, <2>2, SetInduction
  <2> QED
    BY <1>1, <2>3 DEF T
<1>8. c \in [0..N -> Node \cup {NoNode}]
  <2>1. c = [k \in 0..N |-> c[k]]
    BY <1>5, Zenon
  <2>2. \A k \in 0..N : c[k] \in Node \cup {NoNode}
    BY <1>2, <1>7
  <2> QED
    BY <2>1, <2>2, Zenon
<1> QED
  BY <1>6, <1>8 DEF c

\* Where no nodes wait in a circle, a new record whose chain comes to an end closes
\* none: a set with a circle holds the new waiter, and with it the whole chain, to
\* the end that is no node.
LEMMA NewWaitGrounded ==
  ASSUME waitOn \in [Node -> Node \cup {NoNode}],
         \A S \in SUBSET Node : S # {} => \E m \in S : waitOn[m] \notin S,
         NEW n \in Node, NEW p \in Node, ~CreatesWaitCycle(n, p),
         waitOn' = [waitOn EXCEPT ![n] = p]
  PROVE  \A S \in SUBSET Node : S # {} => \E m \in S : waitOn'[m] \notin S
<1> SUFFICES ASSUME NEW S \in SUBSET Node, S # {}, \A m \in S : waitOn'[m] \in S PROVE FALSE
  OBVIOUS
<1>1. \A m \in S : m # n => waitOn[m] \in S
  OBVIOUS
<1>2. n \in S
  BY <1>1
<1>3. p \in S
  BY <1>2
<1> DEFINE c == WaitChain(p)
           T == {k \in Nat : k <= N => c[k] \in S}
<1>4. c[0] = p /\ \A k \in 1..N : c[k] = IF c[k - 1] = NoNode THEN NoNode ELSE waitOn[c[k - 1]]
  BY WaitChainLinks
<1>5. c[N] = NoNode /\ \A k \in 0..N : c[k] # n
  BY DEF CreatesWaitCycle
<1> HIDE DEF c
<1>6. 0 \in T
  BY <1>3, <1>4
<1>7. ASSUME NEW k \in Nat, k \in T PROVE k + 1 \in T
  <2> SUFFICES ASSUME k + 1 <= N PROVE c[k + 1] \in S
    OBVIOUS
  <2>1. k + 1 \in 1..N /\ (k + 1) - 1 = k /\ k \in 0..N /\ c[k] \in S
    BY SizeAssumption, <1>7
  <2>2. c[k] # NoNode
    BY <2>1, NodeFacts, Zenon
  <2>3. c[k + 1] = waitOn[c[k]]
    BY <1>4, <2>1, <2>2
  <2> QED
    BY <1>1, <1>5, <2>1, <2>3
<1> HIDE DEF T
<1>8. N \in T
  BY <1>6, <1>7, SetInduction, SizeAssumption
<1>9. c[N] \in S
  BY <1>8, SizeAssumption DEF T
<1> QED
  BY <1>5, <1>9, NodeFacts, Zenon

\* A record is made where the check has found no cycle, or by a node that finds out
\* while it runs.
LEMMA RecordsMade ==
  ASSUME IInv, [Next]_vars
  PROVE  \/ waitOn' = waitOn
         \/ \E n, p \in Node : /\ waitOn' = [waitOn EXCEPT ![n] = p]
                               /\ ~CreatesWaitCycle(n, p) \/ p \in plan.needs[n]
<1>1. CASE UNCHANGED vars
  BY <1>1 DEF vars
<1>2. CASE Layer
  BY <1>2 DEF Layer, LayerCancel, LayerSkip, LayerPause, LayerEnter, LayersDone, recordVars
<1>3. CASE Prepare
  <2>1. ASSUME NEW n \in Node, PreparePause(n) \/ PrepareWait(n)
        PROVE  \E p \in Node : waitOn' = [waitOn EXCEPT ![n] = p] /\ ~CreatesWaitCycle(n, p)
    <3> DEFINE p == plan.producer[n]
    <3>1. p \in Node
      BY <2>1, ProducerType DEF PreparePause, PrepareWait, IInv
    <3>2. waitOn' = [waitOn EXCEPT ![n] = p] /\ ~CreatesWaitCycle(n, p)
      BY <2>1 DEF PreparePause, PrepareWait, RecordWait
    <3> QED
      BY <3>1, <3>2
  <2>2. ASSUME NEW n \in Node, PrepareReady(n) \/ PrepareFail(n) PROVE waitOn' = waitOn
    BY <2>2 DEF PrepareReady, PrepareFail, recordVars
  <2>3. CASE PrepareNoneReady \/ StartShard
    BY <2>3 DEF PrepareNoneReady, StartShard, recordVars
  <2> QED
    BY <1>3, <2>1, <2>2, <2>3 DEF Prepare
<1>4. CASE Tasks
  <2>1. PICK n \in Node :
            \/ StartNode(n) \/ BlockNode(n)
            \/ RunnerSettles(n) \/ RunnerRetries(n) \/ BackoffEnds(n)
            \/ RunnerFails(n) \/ RunnerCancelled(n)
            \/ \E p \in Node : NeedInject(n, p) \/ NeedRepeated(n, p) \/ NeedWait(n, p)
    BY <1>4 DEF Tasks
  <2>2. CASE StartNode(n) \/ BlockNode(n) \/ RunnerSettles(n) \/ RunnerRetries(n) \/ BackoffEnds(n)
             \/ RunnerFails(n) \/ RunnerCancelled(n)
    BY <2>2 DEF StartNode, BlockNode, RunnerSettles, RunnerRetries, BackoffEnds, RunnerFails,
                RunnerCancelled, recordVars
  <2>3. ASSUME NEW p \in Node, NeedInject(n, p) \/ NeedRepeated(n, p) PROVE waitOn' = waitOn
    BY <2>3 DEF NeedInject, NeedRepeated, recordVars
  <2>4. ASSUME NEW p \in Node, NeedWait(n, p)
        PROVE  waitOn' = [waitOn EXCEPT ![n] = p] /\ p \in plan.needs[n]
    BY <2>4 DEF NeedWait, RecordWait
  <2> QED
    BY <2>1, <2>2, <2>3, <2>4
<1>5. CASE Join
  BY <1>5 DEF Join, LevelStops, ShardEnds, DrainedEnds, recordVars
<1>6. CASE Drain
  BY <1>6 DEF Drain, DrainEnds, Finish, DrainWake, DrainTimeout, DrainGiveUp, DrainFail, DrainPause,
              DrainKeep, recordVars
<1>7. CASE Terminated
  BY <1>7 DEF Terminated, vars
<1> QED
  BY <1>1, <1>2, <1>3, <1>4, <1>5, <1>6, <1>7 DEF Next

\* As long as every wait is declared, none closes a circle.
LEMMA WaitsStayGrounded == IInv /\ WaitsGrounded /\ [Next]_vars => WaitsGrounded'
<1> SUFFICES ASSUME IInv, WaitsGrounded, [Next]_vars, Declared'
             PROVE  \A S \in SUBSET Node : S # {} => \E m \in S : waitOn'[m] \notin S
  BY DEF WaitsGrounded
<1>1. plan'.needs = plan.needs
  BY Kinds, PlanKept DEF vars
<1>2. Declared /\ waitOn \in [Node -> Node \cup {NoNode}]
  BY <1>1 DEF Declared, IInv, TypeOK
<1>3. CASE waitOn' = waitOn
  BY <1>2, <1>3 DEF WaitsGrounded
<1>4. ASSUME NEW n \in Node, NEW p \in Node, waitOn' = [waitOn EXCEPT ![n] = p],
             ~CreatesWaitCycle(n, p)
      PROVE  \A S \in SUBSET Node : S # {} => \E m \in S : waitOn'[m] \notin S
  BY <1>2, <1>4, NewWaitGrounded DEF WaitsGrounded
<1> QED
  BY <1>2, <1>3, <1>4, RecordsMade DEF Declared

\* A chain that came back to its node would be a set without such a node.
LEMMA GroundedIsAcyclic == IInv /\ WaitsGrounded => DeclaredWaitsAcyclic
<1> SUFFICES ASSUME IInv, WaitsGrounded, Declared, NEW n \in Node,
                    NEW k \in 1..N, WaitChain(n)[k] = n
             PROVE  FALSE
  BY DEF DeclaredWaitsAcyclic, WaitsAcyclic
<1> DEFINE c == WaitChain(n)
           T == {j \in Nat : j <= k => c[k - j] # NoNode}
           S == {c[j] : j \in 0..k - 1}
<1>1. /\ c \in [0..N -> Node \cup {NoNode}] /\ c[0] = n
      /\ \A j \in 1..N : c[j] = IF c[j - 1] = NoNode THEN NoNode ELSE waitOn[c[j - 1]]
  BY WaitChainLinks DEF IInv, TypeOK
<1>2. c[k] = n
  OBVIOUS
<1> HIDE DEF c
<1>3. N \in Nat /\ k \in Nat /\ k <= N /\ k > 0
  BY SizeAssumption
<1>4. 0 \in T
  BY <1>2, <1>3, NodeFacts
<1>5. ASSUME NEW j \in Nat, j \in T PROVE j + 1 \in T
  <2> SUFFICES ASSUME j + 1 <= k PROVE c[k - (j + 1)] # NoNode
    OBVIOUS
  <2>1. c[k - j] # NoNode /\ k - j \in 1..N /\ (k - j) - 1 = k - (j + 1)
    BY <1>3, <1>5
  <2> QED
    BY <1>1, <2>1
<1> HIDE DEF T
<1>6. \A j \in 0..k : j \in T
  BY <1>4, <1>5, SetInduction
<1>7. \A j \in 0..k : c[j] \in Node
  <2> SUFFICES ASSUME NEW j \in 0..k PROVE c[j] \in Node
    OBVIOUS
  <2>1. k - j \in 0..k /\ k - (k - j) = j /\ j \in 0..N /\ k - j <= k
    BY <1>3
  <2>2. c[j] # NoNode
    BY <1>6, <2>1 DEF T
  <2> QED
    BY <1>1, <2>1, <2>2
<1>8. S \in SUBSET Node /\ S # {}
  BY <1>3, <1>7
<1>9. ASSUME NEW m \in S PROVE waitOn[m] \in S
  <2>1. PICK j \in 0..k - 1 : m = c[j]
    OBVIOUS
  <2>2. j + 1 \in 1..N /\ (j + 1) - 1 = j /\ j \in 0..k
    BY <1>3
  <2>3. waitOn[m] = c[j + 1]
    BY <1>1, <1>7, <2>1, <2>2, NodeFacts
  <2>4. CASE j = k - 1
    BY <1>1, <1>2, <1>3, <2>3, <2>4
  <2>5. CASE j # k - 1
    <3>1. j + 1 \in 0..k - 1
      BY <1>3, <2>5
    <3> QED
      BY <2>3, <3>1
  <2> QED
    BY <2>4, <2>5
<1> QED
  BY <1>8, <1>9 DEF WaitsGrounded

\* DeclaredWaitsAcyclic: no cycle of waiting nodes comes past CreatesWaitCycle,
\* however long the chain of records is.
THEOREM Acyclic == Spec => []DeclaredWaitsAcyclic
<1>1. Init => WaitsGrounded
  <2> SUFFICES ASSUME Init, NEW S \in SUBSET Node, S # {} PROVE \E m \in S : waitOn[m] \notin S
    BY DEF WaitsGrounded
  <2>1. \A m \in S : waitOn[m] = NoNode
    BY DEF Init, Entry
  <2> QED
    BY <2>1, NodeFacts
<1>2. Spec => []WaitsGrounded
  BY <1>1, Invariant, WaitsStayGrounded, PTL DEF Spec
<1> QED
  BY <1>2, Invariant, GroundedIsAcyclic, PTL

-----------------------------------------------------------------------------
\* What the executor promises: PlanContract.

\* The work of a node, by its state.
LEMMA WorkDefined == \A n \in Node : Work[n] = IF st[n] = "Running" THEN "busy"
                                     ELSE IF st[n] = "Completed" THEN "done" ELSE "open"
  BY DEF Work

\* The initial states map to initial states.
LEMMA InitContract == Init => Contract!Init
<1> SUFFICES ASSUME Init PROVE Contract!Init
  OBVIOUS
<1>1. plan.producer \in [Node -> Node \cup {NoNode}]
  BY PlansAssumption DEF Init, Entry, PlanType
<1>2. Work = [n \in Node |-> "open"]
  BY DEF Init, Entry, Work
<1>3. ~Over
  BY DEF Init, Entry, Over
<1> QED
  BY <1>1, <1>2, <1>3 DEF Contract!Init

\* A step that keeps Running and Completed as they are is a stutter, or the
\* return of the call.
LEMMA QuietStep ==
  ASSUME IInv, plan'.producer = plan.producer,
         \A n \in Node : /\ st'[n] = "Running" <=> st[n] = "Running"
                         /\ st'[n] = "Completed" <=> st[n] = "Completed",
         Over => Over',
         ~Over /\ Over' => \A n \in Node : st[n] # "Running"
  PROVE  [Contract!Next]_(Contract!contractVars)
<1>1. Work' = Work
  BY DEF Work
<1>2. CASE Over' = Over
  BY <1>1, <1>2 DEF Contract!contractVars
<1>3. CASE ~Over /\ Over'
  <2>1. \A n \in Node : Work[n] # "busy"
    BY <1>3, WorkDefined
  <2>2. Contract!Return
    BY <1>1, <1>3, <2>1 DEF Contract!Return
  <2> QED
    BY <2>2 DEF Contract!Next
<1> QED
  BY <1>2, <1>3 DEF Over

\* A step of one task takes the work of its node from one state to another.
LEMMA TurnStep ==
  ASSUME IInv, NEW n \in Node, pc = "run", pc' = "run", plan' = plan,
         \A m \in Node \ {n} : /\ st'[m] = "Running" <=> st[m] = "Running"
                               /\ st'[m] = "Completed" <=> st[m] = "Completed",
         NEW from, NEW to, from = Work[n], to = Work'[n]
  PROVE  Contract!Turn(n, from, to)
<1>1. ~Over /\ ~Over'
  BY DEF Over
<1>2. Work' = [Work EXCEPT ![n] = to]
  <2>1. \A m \in Node \ {n} : Work'[m] = Work[m]
    BY DEF Work
  <2>2. Work \in [Node -> {"open", "busy", "done"}] /\ Work' \in [Node -> {"open", "busy", "done"}]
    BY DEF Work
  <2> HIDE DEF Work
  <2> QED
    BY <2>1, <2>2
<1>3. plan'.producer = plan.producer /\ Over' = Over
  BY DEF Over
<1> QED
  BY <1>1, <1>2, <1>3 DEF Contract!Turn

\* No step but those of a runner has a node Running or Completed that was not.
LEMMA QuietStates ==
  ASSUME IInv, NEW n \in Node,
         Layer \/ Prepare \/ Join \/ Drain \/ \E m \in Node : BlockNode(m)
  PROVE  \/ st'[n] = st[n]
         \/ st[n] \notin {"Running", "Completed"} /\ st'[n] \notin {"Running", "Completed"}
<1>1. st \in [Node -> NodeState]
  BY DEF IInv, TypeOK
<1>2. ASSUME NEW m \in Node, st[m] \notin {"Running", "Completed"}, st' = FailFast(st, m)
      PROVE  \/ st'[n] = st[n]
             \/ st[n] \notin {"Running", "Completed"} /\ st'[n] \notin {"Running", "Completed"}
  BY <1>1, <1>2, FailFastKeeps
<1>3. ASSUME NEW m \in Node, NEW x, st[m] \notin {"Running", "Completed"},
             x \notin {"Running", "Completed"}, st' = [st EXCEPT ![m] = x]
      PROVE  \/ st'[n] = st[n]
             \/ st[n] \notin {"Running", "Completed"} /\ st'[n] \notin {"Running", "Completed"}
  BY <1>1, <1>3
<1>4. ASSUME NEW m, st' = SkipRemaining(st, m)
      PROVE  \/ st'[n] = st[n]
             \/ st[n] \notin {"Running", "Completed"} /\ st'[n] \notin {"Running", "Completed"}
  BY <1>1, <1>4, SkipRemainingKeeps
<1>5. CASE Layer
  <2>0. pc = "layer" /\ \A m \in Node : st[m] # "Running"
    BY <1>5, NoTaskOutsideRun DEF Layer, LayerCancel, LayerSkip, LayerPause, LayerEnter, LayersDone
  <2>1. CASE LayerCancel
    BY <1>4, <2>1 DEF LayerCancel, Return
  <2>2. CASE LayerSkip \/ LayerEnter
    BY <2>0, <2>2 DEF LayerSkip, LayerEnter, Batch
  <2>3. CASE LayerPause
    <3>1. PICK m \in Node : /\ IsFirst(m, Batch \cap plan.sensitive)
                            /\ st' = [st EXCEPT ![m] = "AwaitingApproval"]
      BY <2>3 DEF LayerPause, Return, Unapproved
    <3>2. st[m] \notin {"Running", "Completed"}
      BY <2>0, <3>1 DEF IsFirst, Batch
    <3> QED
      BY <1>3, <3>1, <3>2
  <2>4. CASE LayersDone
    BY <2>4 DEF LayersDone
  <2> QED
    BY <1>5, <2>1, <2>2, <2>3, <2>4 DEF Layer
<1>6. CASE Prepare
  <2>1. CASE PrepareNoneReady \/ StartShard
    BY <2>1 DEF PrepareNoneReady, StartShard
  <2>2. ASSUME NEW m \in Node, Preparing(m) PROVE st[m] \notin {"Running", "Completed"}
    BY <2>2 DEF Preparing, IsFirst, IInv, QueuedStates
  <2>3. ASSUME NEW m \in Node, PrepareReady(m) PROVE st' = st
    BY <2>3 DEF PrepareReady
  <2>4. ASSUME NEW m \in Node, PrepareFail(m)
        PROVE  \/ st'[n] = st[n]
               \/ st[n] \notin {"Running", "Completed"} /\ st'[n] \notin {"Running", "Completed"}
    BY <1>2, <2>2, <2>4 DEF PrepareFail, Return
  <2>5. ASSUME NEW m \in Node, PreparePause(m) \/ PrepareWait(m)
        PROVE  \/ st'[n] = st[n]
               \/ st[n] \notin {"Running", "Completed"} /\ st'[n] \notin {"Running", "Completed"}
    <3>1. st[m] \notin {"Running", "Completed"} /\ st' = [st EXCEPT ![m] = "Waiting"]
      BY <2>2, <2>5 DEF PreparePause, PrepareWait, Return, NowWaiting
    <3> QED
      BY <1>3, <3>1
  <2> QED
    BY <1>6, <2>1, <2>3, <2>4, <2>5 DEF Prepare
<1>7. CASE \E m \in Node : BlockNode(m)
  <2>1. PICK m \in Node : BlockNode(m)
    BY <1>7
  <2>2. st[m] \notin {"Running", "Completed"} /\ st' = FailFast(st, m)
    BY <2>1 DEF BlockNode, Starting, Verdict, IInv, TaskStates, Active
  <2> QED
    BY <1>2, <2>2
<1>8. CASE Join
  <2>1. CASE LevelStops
    <3>1. PICK w \in InOrder(ShardWaits) :
            st' = Resolved(st, IF mode = "shards" THEN deferred \o w ELSE deferred)
      BY <2>1 DEF LevelStops, Return
    <3>2. AllReturned
      BY <2>1 DEF LevelStops
    <3>3. deferred \in Seq(Node) /\ ShardWaits \in SUBSET Node
      BY DEF IInv, TypeOK, ShardWaits, Shard
    <3>4. w \in Seq(Node)
      BY <3>3, InOrderType
    <3>5. Contains(deferred, n) \/ Contains(deferred \o w, n) => st[n] = "Waiting"
      BY <3>2, <3>3, <3>4, JoinLists, ConcatMembers
    <3> QED
      BY <3>1, <3>5 DEF Resolved
  <2>2. CASE ShardEnds \/ DrainedEnds
    BY <2>2 DEF ShardEnds, DrainedEnds, Return
  <2> QED
    BY <1>8, <2>1, <2>2 DEF Join
<1>9. CASE Drain
  <2>1. CASE DrainEnds \/ Finish
    BY <2>1 DEF DrainEnds, Finish, Return
  <2>2. ASSUME NEW m \in Node, DrainWake(m)
        PROVE  \/ st'[n] = st[n]
               \/ st[n] \notin {"Running", "Completed"} /\ st'[n] \notin {"Running", "Completed"}
    <3>1. st[m] = "Waiting" /\ st' = [st EXCEPT ![m] = "Pending"]
      BY <2>2, DrainingWaits DEF DrainWake
    <3> QED
      BY <1>3, <3>1
  <2>3. ASSUME NEW m \in Node, DrainFail(m)
        PROVE  \/ st'[n] = st[n]
               \/ st[n] \notin {"Running", "Completed"} /\ st'[n] \notin {"Running", "Completed"}
    <3>1. st[m] = "Waiting" /\ st' = FailFast(st, m)
      BY <2>3, DrainingWaits DEF DrainFail, Return
    <3> QED
      BY <1>2, <3>1
  <2>4. ASSUME NEW m \in Node, DrainPause(m) \/ DrainKeep(m) PROVE st' = st
    BY <2>4 DEF DrainPause, DrainKeep, Return
  <2> QED
    BY <1>9, <2>1, <2>2, <2>3, <2>4 DEF Drain, DrainTimeout, DrainGiveUp
<1> QED
  BY <1>5, <1>6, <1>7, <1>8, <1>9

\* Every step of the executor is a step of the contract or a stutter.
LEMMA StepContract == IInv /\ [Next]_vars => [Contract!Next]_(Contract!contractVars)
<1> SUFFICES ASSUME IInv, [Next]_vars PROVE [Contract!Next]_(Contract!contractVars)
  OBVIOUS
<1>0. IInv'
  BY NextIInv
<1>1. plan'.producer = plan.producer
  <2>1. CASE LayerEnter
    <3>1. PICK answered : plan' = [plan EXCEPT !.unclear = @ \ answered]
      BY <2>1 DEF LayerEnter
    <3> QED
      BY <3>1, AnsweredType DEF IInv, TypeOK
  <2>2. CASE ~LayerEnter
    BY <2>2 DEF Next, Layer, LayerCancel, LayerSkip, LayerPause, LayersDone,
       Prepare, PrepareNoneReady, StartShard, PrepareReady, PrepareFail, PreparePause, PrepareWait,
       Tasks, TaskFrame, StartNode, BlockNode, RunnerSettles, RunnerRetries, BackoffEnds,
       RunnerFails, RunnerCancelled, NeedInject, NeedRepeated, NeedWait,
       Join, LevelStops, ShardEnds, DrainedEnds,
       Drain, DrainEnds, Finish, DrainWake, DrainTimeout, DrainGiveUp, DrainFail, DrainPause,
       DrainKeep, Terminated, vars
  <2> QED
    BY <2>1, <2>2
<1>2. CASE Layer \/ Prepare \/ Join \/ Drain \/ \E m \in Node : BlockNode(m)
  <2>1. \A n \in Node : /\ st'[n] = "Running" <=> st[n] = "Running"
                        /\ st'[n] = "Completed" <=> st[n] = "Completed"
    BY <1>2, QuietStates
  <2>2. ~Over
    BY <1>2 DEF Over, Layer, LayerCancel, LayerSkip, LayerPause, LayerEnter, LayersDone,
       Prepare, PrepareNoneReady, StartShard, PrepareReady, PrepareFail, PreparePause, PrepareWait,
       Preparing, BlockNode, Starting, Join, LevelStops, ShardEnds, DrainedEnds, AllReturned,
       Drain, DrainEnds, Finish, DrainWake, DrainTimeout, DrainGiveUp, DrainFail, DrainPause,
       DrainKeep, Draining
  <2>3. Over' => \A n \in Node : st[n] # "Running"
    BY <1>0, <2>1, NoTaskOutsideRun DEF IInv, TaskStates, Active, Shard, Over
  <2> QED
    BY <1>1, <2>1, <2>2, <2>3, QuietStep
<1>3. ASSUME NEW n \in Node, StartNode(n) PROVE Contract!Begin(n)
  <2>1. /\ pc = "run" /\ task[n] = "new" /\ pc' = "run" /\ plan' = plan
        /\ st' = [st EXCEPT ![n] = "Running"]
    BY <1>3 DEF StartNode, Starting, TaskFrame
  <2>2. st[n] \notin {"Running", "Completed"} /\ n \in Committed
    BY <2>1 DEF IInv, TaskStates, Active, Committed
  <2>3. st'[n] = "Running" /\ \A m \in Node \ {n} : st'[m] = st[m]
    BY <2>1 DEF IInv, TypeOK
  <2>4. Work[n] = "open" /\ Work'[n] = "busy"
    BY <2>2, <2>3 DEF Work
  <2>5. Contract!Turn(n, "open", "busy")
    BY <2>1, <2>3, <2>4, TurnStep
  <2>6. plan.producer[n] # NoNode => Work[plan.producer[n]] = "done"
    <3>1. plan.producer[n] # NoNode =>
            plan.producer[n] \in Node /\ st[plan.producer[n]] = "Completed"
      BY <2>2, ProducerType DEF IInv, InputStates
    <3> QED
      BY <3>1 DEF Work
  <2> QED
    BY <2>5, <2>6 DEF Contract!Begin
<1>4. ASSUME NEW n \in Node, pc = "run", pc' = "run", plan' = plan, st[n] = "Running",
             st'[n] # "Running",
             \A m \in Node \ {n} : \/ st'[m] = st[m]
                                   \/ st[m] = "Pending" /\ st'[m] = "Skipped"
      PROVE  Contract!Complete(n) \/ Contract!Release(n)
  <2>1. \A m \in Node \ {n} : /\ st'[m] = "Running" <=> st[m] = "Running"
                              /\ st'[m] = "Completed" <=> st[m] = "Completed"
    <3> TAKE m \in Node \ {n}
    <3>1. st'[m] = st[m] \/ (st[m] = "Pending" /\ st'[m] = "Skipped")
      BY <1>4
    <3> QED
      BY <3>1
  <2>2. Work[n] = "busy" /\ Work'[n] \in {"open", "done"}
    BY <1>4 DEF Work
  <2>3. Contract!Turn(n, "busy", Work'[n])
    BY <1>4, <2>1, <2>2, TurnStep
  <2> QED
    BY <2>2, <2>3 DEF Contract!Complete, Contract!Release
<1>5. ASSUME NEW n \in Node,
             RunnerSettles(n) \/ RunnerFails(n) \/ RunnerCancelled(n)
                \/ \E p \in Node : NeedRepeated(n, p) \/ NeedWait(n, p)
      PROVE  Contract!Complete(n) \/ Contract!Release(n)
  <2>1. pc = "run" /\ st[n] = "Running"
    BY <1>5, InRunnerFacts
    DEF RunnerSettles, RunnerFails, RunnerCancelled, NeedRepeated, NeedReady, NeedWait
  <2>2. UNCHANGED TaskFrame
    BY <1>5 DEF RunnerSettles, RunnerFails, RunnerCancelled, NeedRepeated, NeedWait
  <2>3. \/ st' = FailFast(st, n)
        \/ \E x \in {"Completed", "Skipped", "Waiting"} : st' = [st EXCEPT ![n] = x]
    BY <1>5 DEF RunnerSettles, RunnerFails, RunnerCancelled, NeedRepeated, NeedWait, Verdict,
                NowWaiting
  <2>4. st \in [Node -> NodeState]
    BY DEF IInv, TypeOK
  <2>5. /\ st'[n] # "Running"
        /\ \A m \in Node \ {n} : st'[m] = st[m] \/ (st[m] = "Pending" /\ st'[m] = "Skipped")
    BY <2>3, <2>4, FailFastKeeps
  <2>6. pc' = "run" /\ plan' = plan
    BY <2>1, <2>2 DEF TaskFrame
  <2> QED
    BY <1>4, <2>1, <2>5, <2>6
<1>6. ASSUME NEW n \in Node,
             RunnerRetries(n) \/ BackoffEnds(n) \/ \E p \in Node : NeedInject(n, p)
      PROVE  st' = st /\ UNCHANGED <<plan, pc>>
  BY <1>6 DEF RunnerRetries, BackoffEnds, NeedInject, TaskFrame
<1>7. ASSUME st' = st, UNCHANGED <<plan, pc>>
      PROVE  [Contract!Next]_(Contract!contractVars)
  <2>1. Over' = Over
    BY <1>7 DEF Over
  <2> QED
    BY <1>7, <2>1, QuietStep
<1>8. CASE UNCHANGED vars
  BY <1>7, <1>8 DEF vars
<1>9. CASE Tasks
  BY <1>2, <1>3, <1>5, <1>6, <1>7, <1>9 DEF Tasks, Contract!Next
<1> QED
  BY <1>2, <1>8, <1>9 DEF Next, Terminated

\* The executor keeps what the contract promises, for every plan and schedule.
THEOREM Refinement == Spec => ImplementsContract
<1> QED
  BY InitContract, StepContract, Invariant, PTL DEF Spec, ImplementsContract, Contract!Spec
================================================================================
