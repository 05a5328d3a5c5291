--------------------------- MODULE PlanResumeProofs ---------------------------
(***************************************************************************)
(* What a plan takes with it from turn to turn.  A resumed run begins in a *)
(* state that satisfies the invariant of the executor (all of it but the   *)
(* truth of the wait records), so what is proved of a run in               *)
(* PlanSchedulerProofs holds in every turn.  With that, the effects, the   *)
(* outputs and the answers are right wherever the process dies.            *)
(***************************************************************************)
EXTENDS PlanResume, PlanSchedulerProofs

-----------------------------------------------------------------------------
\* The executor.

\* What the turns need to know of the executor: it closes questions of the plan, and
\* opens none.
LEMMA QuestionsClose ==
  ASSUME plan \in PlanType, Next
  PROVE  plan'.unclear \subseteq plan.unclear
<1>1. CASE LayerEnter
  <2>1. PICK answers : plan' = [plan EXCEPT !.unclear = @ \ answers]
    BY <1>1 DEF LayerEnter
  <2> QED
    BY <2>1 DEF PlanType
<1>2. CASE Layer /\ ~LayerEnter
  BY <1>2 DEF Layer, LayerCancel, LayerSkip, LayerPause, LayersDone
<1>3. CASE Prepare
  BY <1>3 DEF Prepare, PrepareNoneReady, StartShard, PrepareReady, PrepareFail, PreparePause, PrepareWait
<1>4. CASE Tasks
  BY <1>4 DEF Tasks, StartNode, BlockNode, RunnerSettles, RunnerRetries, BackoffEnds, RunnerFails, RunnerCancelled,
       NeedInject, NeedRepeated, NeedWait, TaskFrame
<1>5. CASE Join
  BY <1>5 DEF Join, LevelStops, ShardEnds, DrainedEnds
<1>6. CASE Drain
  BY <1>6 DEF Drain, DrainEnds, Finish, DrainWake, DrainTimeout, DrainGiveUp, DrainFail, DrainPause, DrainKeep
<1>7. CASE Terminated
  BY <1>7 DEF Terminated, vars
<1> QED
  BY <1>1, <1>2, <1>3, <1>4, <1>5, <1>6, <1>7 DEF Next

\* ExecuteAsync may begin in any state that a checkpoint can seed.
LEMMA EntryInv ==
  ASSUME Entered, runState' = "Running", plan' \in PlanType, WellFormed(plan'),
         st' \in [Node -> NodeState], \A n \in Node : st'[n] \notin {"Running", "Waiting"},
         waitOn' \in [Node -> Node \cup {NoNode}], waitOpen' \in [Node -> BOOLEAN],
         deps' \in [Node -> SUBSET Node], InjectedCompleted',
         \A n \in Node : waitOpen'[n] =>
            /\ waitOn'[n] # NoNode
            /\ plan'.producer[n] # NoNode =>
                  waitOn'[n] = plan'.producer[n] \/ st'[plan'.producer[n]] = "Completed"
  PROVE  IInv'
<1>1. TypeOK'
  <2>1. /\ ckpt' \in [Node -> NodeState]
        /\ task' \in [Node -> {"none", "new", "run", "backoff", "again", "end"}]
    BY StateNames DEF Entered
  <2>2. attempt' \in [Node -> Nat] /\ reinj' \in [Node -> 0..2]
    BY DEF Entered
  <2>3. deferred' \in Seq(Node) /\ drainq' \in Seq(Node)
    BY DEF Entered
  <2>4. /\ runState' \in RunState /\ lvl' \in Nat
        /\ pc' \in {"layer", "prepare", "run", "drain", "done", "thrown"}
        /\ mode' \in {"serial", "shards", "drain"}
        /\ todo' \in SUBSET Node /\ ready' \in SUBSET Node
        /\ stop' \in BOOLEAN /\ final' \in BOOLEAN
    BY RunStateNames DEF Entered
  <2> QED
    BY <2>1, <2>2, <2>3, <2>4 DEF TypeOK
<1>2. Shard' = {} /\ Active' = {} /\ Committed' = {} /\ ~Over'
  BY DEF Entered, Shard, Active, Committed, Over
<1>3. TaskStates' /\ QueuedStates'
  BY <1>2 DEF Entered, TaskStates, QueuedStates, Ahead
<1>4. DeferredStates'
  BY EmptyList DEF Entered, DeferredStates
<1>5. WaitStates' /\ InputStates' /\ PauseStates'
  BY <1>2 DEF WaitStates, WaitsRecorded, InputStates, PauseStates
<1>6. CheckpointNeverAhead'
  BY DEF Entered, CheckpointNeverAhead
<1> QED
  BY <1>1, <1>3, <1>4, <1>5, <1>6 DEF IInv

-----------------------------------------------------------------------------
\* The messages of the user.

LEMMA FreshKept ==
  ASSUME ResumeInv, Message, FreshRun, Entered, store' = store \/ store' = NoCheckpoint, UNCHANGED historyVars
  PROVE  ResumeInv'
<1>1. /\ messages \in 0..MaxMessages /\ messages' = messages + 1 /\ messages < MaxMessages /\ turn = "idle"
      /\ planId' = messages + 1 /\ turn' = "fresh" /\ outputs' = {} /\ UNCHANGED <<effects, answered, dropped>>
  BY DEF Message, FreshRun, ResumeInv, Identities, historyVars
<1>2. /\ planId' \in PlanIds /\ planId' <= messages' /\ messages' \in 0..MaxMessages /\ planId' > messages
      /\ \A i \in PlanIds : i > messages' => i > messages
      /\ \A i \in 1..messages : i \in 1..messages' /\ i # planId'
  BY <1>1, ResumeAssumption DEF PlanIds
<1>3. Identities'
  BY <1>1, <1>2 DEF ResumeInv, Identities
<1>4. StoreStates' /\ StoreHoldsOutputs' /\ OutputsHeld'
  BY DEF ResumeInv, StoreStates, StoreHoldsOutputs, OutputsHeld, FreshRun
<1>5. Questions'
  BY <1>1, <1>2 DEF ResumeInv, Questions
<1>6. EffectStates'
  <2>1. effects'[planId'] = Done(st)'
    BY <1>1, <1>2 DEF ResumeInv, EffectStates, Done, FreshRun
  <2> QED
    BY <1>1, <1>2, <2>1 DEF ResumeInv, EffectStates, EffectsOnce
<1>7. IInv'
  <2>1. plan' \in PlanType /\ WellFormed(plan')
    BY PlansAssumption DEF FreshRun
  <2>2. /\ st' \in [Node -> NodeState] /\ waitOn' \in [Node -> Node \cup {NoNode}]
        /\ waitOpen' \in [Node -> BOOLEAN] /\ deps' \in [Node -> SUBSET Node] /\ InjectedCompleted'
    BY StateNames DEF FreshRun, InjectedCompleted
  <2>3. \A n \in Node : st'[n] \notin {"Running", "Waiting"} /\ ~waitOpen'[n]
    BY DEF FreshRun
  <2> QED
    BY <2>1, <2>2, <2>3, EntryInv DEF FreshRun
<1> QED
  BY <1>3, <1>4, <1>5, <1>6, <1>7 DEF ResumeInv

\* The stored run is seeded: what had completed has completed, nothing runs or waits.
LEMMA SeededStates ==
  ASSUME NEW s \in [Node -> NodeState]
  PROVE  /\ Seeded(s) \in [Node -> NodeState]
         /\ \A n \in Node : Seeded(s)[n] \notin {"Running", "Waiting"}
         /\ \A n \in Node : Seeded(s)[n] = "Completed" <=> s[n] = "Completed"
BY StateNames DEF Seeded, AwaitingUser

LEMMA ResumptionKept == ResumeInv /\ MessageResumes => ResumeInv'
<1> SUFFICES ASSUME ResumeInv, MessageResumes PROVE ResumeInv'
  OBVIOUS
<1>1. /\ messages \in 0..MaxMessages /\ messages' = messages + 1 /\ messages < MaxMessages
      /\ turn = "idle" /\ turn' = "resumed" /\ store # NoCheckpoint /\ store' = store
      /\ UNCHANGED <<dropped, effects>> /\ planId' = store.id /\ outputs' = store.outputs
  BY DEF MessageResumes, Message, Loadable, ResumeInv, Identities
<1>2. /\ store.id \in 1..messages /\ store.id \in PlanIds /\ store.id \in 1..messages' /\ store.id <= messages'
      /\ messages' \in 0..MaxMessages
      /\ \A i \in PlanIds : i > messages' => i > messages /\ i # store.id
  BY <1>1, ResumeAssumption DEF ResumeInv, Identities, PlanIds
<1>3. /\ store.plan \in PlanType /\ WellFormed(store.plan) /\ store.st \in [Node -> NodeState]
      /\ store.awaiting \in Node
  BY <1>1 DEF ResumeInv, StoreStates, Identities
<1>4. /\ plan' \in PlanType /\ plan'.unclear = store.plan.unclear \ {store.awaiting}
      /\ plan'.level = store.plan.level /\ plan'.producer = store.plan.producer
      /\ plan'.dependsOn = store.plan.dependsOn
  BY <1>3 DEF MessageResumes, Settled, PlanType
<1>5. answered' = [answered EXCEPT ![store.id] = @ \cup {store.awaiting}]
  BY DEF MessageResumes
<1>6. /\ st' \in [Node -> NodeState] /\ \A n \in Node : st'[n] \notin {"Running", "Waiting"}
      /\ \A n \in Node : st'[n] = "Completed" <=> store.st[n] = "Completed"
  BY <1>3, SeededStates DEF MessageResumes
<1>7. Identities'
  BY <1>1, <1>2 DEF ResumeInv, Identities
<1>8. StoreStates' /\ StoreHoldsOutputs' /\ OutputsHeld'
  BY <1>1, <1>6 DEF ResumeInv, StoreStates, StoreHoldsOutputs, OutputsHeld
<1>9. Questions'
  <2>1. store.id \notin dropped => answered'[store.id] \cap plan'.unclear = {}
    BY <1>1, <1>2, <1>4, <1>5 DEF ResumeInv, Questions
  <2>2. answered' \in [PlanIds -> SUBSET Node]
    BY <1>2, <1>3, <1>5 DEF ResumeInv, Questions
  <2>3. \A i \in PlanIds : i > messages' => answered'[i] = {}
    BY <1>2, <1>5 DEF ResumeInv, Questions
  <2> QED
    BY <1>1, <2>1, <2>2, <2>3 DEF Questions
<1>10. EffectStates'
  <2>1. Done(st)' = Done(store.st)
    BY <1>6 DEF Done
  <2> QED
    BY <1>1, <1>2, <2>1 DEF ResumeInv, EffectStates, EffectsOnce
<1>11. IInv'
  <2>1. WellFormed(plan')
    BY <1>3, <1>4 DEF WellFormed
  <2>2. /\ waitOn' = store.waitOn /\ waitOpen' = store.waitOpen /\ deps' = store.deps
        /\ runState' = "Running" /\ Entered
    BY DEF MessageResumes
  <2>3. \A n \in Node : plan'.producer[n] # NoNode => plan'.producer[n] \in Node
    BY <1>4 DEF PlanType
  <2>4. InjectedCompleted'
    BY <1>1, <1>6, <2>2 DEF InjectedCompleted, ResumeInv, StoreStates
  <2>5. /\ waitOn' \in [Node -> Node \cup {NoNode}] /\ waitOpen' \in [Node -> BOOLEAN]
        /\ deps' \in [Node -> SUBSET Node]
    BY <1>1, <2>2 DEF ResumeInv, StoreStates
  <2>6. \A n \in Node : waitOpen'[n] =>
            /\ waitOn'[n] # NoNode
            /\ plan'.producer[n] # NoNode =>
                  waitOn'[n] = plan'.producer[n] \/ st'[plan'.producer[n]] = "Completed"
    BY <1>1, <1>4, <1>6, <2>2, <2>3 DEF ResumeInv, StoreStates
  <2> QED
    BY <1>4, <1>6, <2>1, <2>2, <2>4, <2>5, <2>6, EntryInv
<1> QED
  BY <1>7, <1>8, <1>9, <1>10, <1>11 DEF ResumeInv

-----------------------------------------------------------------------------
\* The rest of a turn.

LEMMA ExecutionKept == ResumeInv /\ Execute => ResumeInv'
<1> SUFFICES ASSUME ResumeInv, Execute PROVE ResumeInv'
  OBVIOUS
<1>1. /\ Next /\ UNCHANGED <<turn, store, planId, messages, answered, dropped>> /\ turn # "idle"
      /\ IInv /\ planId \in PlanIds /\ planId <= messages /\ messages \in 0..MaxMessages
  BY DEF Execute, ResumeInv, Identities
<1> DEFINE completed == {n \in Node : st[n] # "Completed" /\ st'[n] = "Completed"}
<1>2. /\ outputs' = outputs \cup (completed \ Silent)
      /\ effects' = [effects EXCEPT ![planId] = [n \in Node |-> @[n] + IF n \in completed THEN 1 ELSE 0]]
  BY DEF Execute
<1>3. IInv'
  BY <1>1, NextIInv
<1>4. Identities' /\ StoreStates' /\ StoreHoldsOutputs'
  BY <1>1, <1>2 DEF ResumeInv, Identities, StoreStates, StoreHoldsOutputs
<1>5. OutputsHeld'
  BY <1>1, <1>2 DEF ResumeInv, OutputsHeld
<1>6. Questions'
  <2>1. plan'.unclear \subseteq plan.unclear
    BY <1>1, QuestionsClose DEF IInv, TypeOK
  <2> QED
    BY <1>1, <2>1 DEF ResumeInv, Questions
<1>7. EffectStates'
  <2>1. effects \in [PlanIds -> [Node -> Nat]]
    BY DEF ResumeInv, EffectStates
  <2>2. /\ effects'[planId] = [n \in Node |-> effects[planId][n] + IF n \in completed THEN 1 ELSE 0]
        /\ \A i \in PlanIds \ {planId} : effects'[i] = effects[i]
    BY <1>1, <1>2, <2>1
  <2>3. effects' \in [PlanIds -> [Node -> Nat]]
    <3>1. [n \in Node |-> effects[planId][n] + IF n \in completed THEN 1 ELSE 0] \in [Node -> Nat]
      BY <1>1, <2>1
    <3> QED
      BY <1>1, <1>2, <2>1, <3>1
  <2>4. planId \notin dropped => effects'[planId] = Done(st)'
    <3> SUFFICES ASSUME planId \notin dropped
                 PROVE  effects'[planId] = [n \in Node |-> IF st'[n] = "Completed" THEN 1 ELSE 0]
      BY DEF Done
    <3>1. effects[planId] = [n \in Node |-> IF st[n] = "Completed" THEN 1 ELSE 0]
      BY <1>1 DEF ResumeInv, EffectStates, Done
    <3>2. \A n \in Node : st[n] = "Completed" => st'[n] = "Completed"
      BY <1>1, CompletedStep
    <3>3. \A n \in Node : effects[planId][n] + (IF n \in completed THEN 1 ELSE 0)
                          = IF st'[n] = "Completed" THEN 1 ELSE 0
      BY <3>1, <3>2
    <3> QED
      BY <2>2, <3>3
  <2>5. planId \notin dropped => \A n \in Node : effects'[planId][n] <= 1
    BY <2>4 DEF Done
  <2>6. EffectsOnce'
    BY <1>1, <2>2, <2>5 DEF ResumeInv, EffectStates, EffectsOnce
  <2>7. \A i \in PlanIds : i > messages' => effects'[i] = [n \in Node |-> 0]
    <3>1. \A i \in PlanIds : i > messages => i # planId
      BY <1>1, ResumeAssumption DEF PlanIds
    <3> QED
      BY <1>1, <2>2, <3>1 DEF ResumeInv, EffectStates
  <2>8. store # NoCheckpoint /\ store.id \notin dropped /\ turn # "resumed" => effects'[store.id] = Done(store.st)
    <3> SUFFICES ASSUME store # NoCheckpoint, store.id \notin dropped, turn # "resumed"
                 PROVE  effects'[store.id] = Done(store.st)
      OBVIOUS
    <3>1. store.id # planId /\ store.id \in PlanIds
      BY <1>1, ResumeAssumption DEF ResumeInv, Identities, PlanIds
    <3> QED
      BY <2>2, <3>1 DEF ResumeInv, EffectStates
  <2> QED
    BY <1>1, <2>3, <2>4, <2>6, <2>7, <2>8 DEF EffectStates
<1> QED
  BY <1>3, <1>4, <1>5, <1>6, <1>7 DEF ResumeInv

\* A checkpoint that a turn leaves behind is the one it found, or one of its own state.
LEMMA Captured ==
  ASSUME Capture
  PROVE  store' = store \/ \E n \in plan.unclear : store' = Snapshot(n)
BY DEF Capture, Asking

LEMMA UnchangedInv ==
  ASSUME IInv, UNCHANGED vars
  PROVE  IInv'
BY NextIInv

\* The turn is over: the store holds what it held, nothing, or the state of the turn.
\* A resumed turn that leaves the store as it was gives the plan up.
LEMMA TurnKept ==
  ASSUME ResumeInv, turn # "idle", turn' = "idle",
         UNCHANGED <<vars, outputs, planId, messages, answered, effects>>,
         dropped' = dropped \/ dropped' = dropped \cup {planId},
         \/ store' = store /\ (turn = "resumed" => planId \in dropped')
         \/ store' = NoCheckpoint
         \/ \E n \in plan.unclear : store' = Snapshot(n)
  PROVE  ResumeInv'
<1>1. IInv' /\ planId \in PlanIds /\ dropped \subseteq dropped' /\ dropped' \subseteq PlanIds /\ UNCHANGED <<st, plan>>
  BY UnchangedInv DEF ResumeInv, Identities, vars
<1>2. OutputsHeld'
  BY DEF OutputsHeld
<1>3. EffectsOnce'
  BY <1>1 DEF ResumeInv, EffectStates, EffectsOnce
<1>4. CASE store' = NoCheckpoint
  BY <1>1, <1>2, <1>3, <1>4 DEF ResumeInv, Identities, StoreStates, StoreHoldsOutputs, Questions, EffectStates
<1>5. CASE store' = store /\ (turn = "resumed" => planId \in dropped')
  BY <1>1, <1>2, <1>3, <1>5 DEF ResumeInv, Identities, StoreStates, StoreHoldsOutputs, Questions, EffectStates
<1>6. ASSUME NEW n \in plan.unclear, store' = Snapshot(n) PROVE ResumeInv'
  <2>1. /\ store'.id = planId /\ store'.plan = plan /\ store'.st = st /\ store'.outputs = outputs
        /\ store'.awaiting = n /\ store'.waitOn = waitOn /\ store'.waitOpen = waitOpen /\ store'.deps = deps
    BY <1>6 DEF Snapshot
  <2>2. plan \in PlanType /\ n \in Node
    BY <1>6 DEF ResumeInv, IInv, TypeOK, PlanType
  <2>3. Identities'
    BY <1>1, <2>1, <2>2, ResumeAssumption DEF ResumeInv, Identities, PlanIds
  <2>4. StoreStates'
    BY <2>1 DEF ResumeInv, IInv, TypeOK, WaitStates, InputStates, InjectedCompleted, StoreStates
  <2>5. StoreHoldsOutputs'
    BY <2>1 DEF ResumeInv, OutputsHeld, StoreHoldsOutputs
  <2>6. Questions' /\ EffectStates'
    BY <1>1, <1>3, <1>6, <2>1 DEF ResumeInv, Questions, EffectStates
  <2> QED
    BY <1>1, <1>2, <2>3, <2>4, <2>5, <2>6 DEF ResumeInv
<1> QED
  BY <1>4, <1>5, <1>6

\* A message that is only reported changes nothing but the store.
LEMMA ReportKept ==
  ASSUME ResumeInv, Message, store' = NoCheckpoint, UNCHANGED <<vars, turn, outputs, planId, historyVars>>
  PROVE  ResumeInv'
<1>1. /\ messages' = messages + 1 /\ turn = "idle" /\ UNCHANGED <<plan, st, effects, answered, dropped>>
  BY DEF Message, historyVars, vars
<1>2. messages' \in 0..MaxMessages /\ \A i \in PlanIds : i > messages' => i > messages
  BY <1>1, ResumeAssumption DEF Message, ResumeInv, Identities, PlanIds
<1>3. IInv'
  BY UnchangedInv DEF ResumeInv
<1> QED
  BY <1>1, <1>2, <1>3 DEF ResumeInv, Identities, StoreStates, StoreHoldsOutputs, OutputsHeld, Questions,
     EffectStates, EffectsOnce

LEMMA ResumeStep == ResumeInv /\ [ResumeNext]_allVars => ResumeInv'
<1> SUFFICES ASSUME ResumeInv, [ResumeNext]_allVars PROVE ResumeInv'
  OBVIOUS
<1>1. CASE MessageStartsPlan
  BY <1>1, FreshKept DEF MessageStartsPlan
<1>2. CASE MessageVoidsCheckpoint
  BY <1>2, FreshKept, ReportKept DEF MessageVoidsCheckpoint
<1>3. CASE EndFreshTurn
  <2>1. store' = store \/ \E n \in plan.unclear : store' = Snapshot(n)
    BY <1>3, Captured DEF EndFreshTurn
  <2> QED
    BY <1>3, <2>1, TurnKept DEF EndFreshTurn, historyVars
<1>4. CASE EndResumedTurn
  <2>1. store' = store \/ store' = NoCheckpoint \/ \E n \in plan.unclear : store' = Snapshot(n)
    BY <1>4, Captured DEF EndResumedTurn
  <2>2. store' = store => planId \in dropped'
    BY <1>4 DEF EndResumedTurn, Forget, ResumeInv, Identities
  <2> QED
    BY <1>4, <2>1, <2>2, TurnKept DEF EndResumedTurn, Forget
<1>5. CASE Crash
  <2>1. turn = "resumed" => planId \in dropped'
    BY <1>5 DEF Crash, Forget, ResumeInv, Identities
  <2> QED
    BY <1>5, <2>1, TurnKept DEF Crash, Forget
<1>6. CASE UNCHANGED allVars
  <2>1. UNCHANGED vars /\ UNCHANGED <<plan, st, turn, store, outputs, planId, messages, effects, answered, dropped>>
    BY <1>6 DEF allVars, vars, resumeVars, historyVars
  <2>2. IInv'
    BY <2>1, UnchangedInv DEF ResumeInv
  <2> QED
    BY <2>1, <2>2 DEF ResumeInv, Identities, StoreStates, StoreHoldsOutputs, OutputsHeld, Questions, EffectStates,
       EffectsOnce
<1> QED
  BY <1>1, <1>2, <1>3, <1>4, <1>5, <1>6, ResumptionKept, ExecutionKept DEF ResumeNext, Quiet

-----------------------------------------------------------------------------
\* The theorems.

\* The invariants of the executor and of the turns.
THEOREM Resumed == ResumeSpec => []ResumeInv
<1>1. ResumeInit => ResumeInv
  <2> SUFFICES ASSUME ResumeInit PROVE ResumeInv
    OBVIOUS
  <2>1. IInv
    BY InitIInv DEF ResumeInit
  <2>2. Identities
    BY ResumeAssumption DEF ResumeInit, Identities, PlanIds
  <2>3. StoreStates /\ StoreHoldsOutputs /\ OutputsHeld /\ Questions
    BY DEF ResumeInit, StoreStates, StoreHoldsOutputs, OutputsHeld, Questions
  <2>4. EffectStates
    BY DEF ResumeInit, EffectStates, EffectsOnce
  <2> QED
    BY <2>1, <2>2, <2>3, <2>4 DEF ResumeInv
<1> QED
  BY <1>1, ResumeStep, PTL DEF ResumeSpec

\* Identities, checkpoints, histories keep their types.
THEOREM ResumeTypes == ResumeSpec => []ResumeTypeOK
<1>1. ResumeInv => ResumeTypeOK
  <2> SUFFICES ASSUME ResumeInv PROVE ResumeTypeOK
    OBVIOUS
  <2>1. store # NoCheckpoint => store.id \in PlanIds
    BY ResumeAssumption DEF ResumeInv, Identities, PlanIds
  <2> QED
    BY <2>1 DEF ResumeInv, IInv, Identities, Questions, EffectStates, ResumeTypeOK
<1> QED
  BY <1>1, Resumed, PTL

\* The deferred list of a resumed run is exact too.
THEOREM ResumedDeferrals == ResumeSpec => []DeferredExact
<1>1. ResumeInv => DeferredExact
  BY DEF ResumeInv, IInv, DeferredStates, DeferredExact
<1> QED
  BY <1>1, Resumed, PTL

\* Across turns and crashes no node has its effects twice, as long as no checkpoint
\* was left behind by a turn that went on from it.
THEOREM Effects == ResumeSpec => []EffectsOnce
<1>1. ResumeInv => EffectsOnce
  BY DEF ResumeInv, EffectStates
<1> QED
  BY <1>1, Resumed, PTL

\* A turn holds the outputs of all that has completed, before it or in it.
THEOREM Outputs == ResumeSpec => []OutputsHeld
<1>1. ResumeInv => OutputsHeld
  BY DEF ResumeInv
<1> QED
  BY <1>1, Resumed, PTL

\* No question is put again that the user has answered.
THEOREM Answers == ResumeSpec => []NotAskedTwice
<1>1. ResumeInv => NotAskedTwice
  BY DEF ResumeInv, Questions, NotAskedTwice
<1> QED
  BY <1>1, Resumed, PTL
===============================================================================
