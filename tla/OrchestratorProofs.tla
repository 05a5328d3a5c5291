-------------------------- MODULE OrchestratorProofs --------------------------
(***************************************************************************)
(* The orchestrator drives the executor of PlanScheduler: all that is      *)
(* proved of PlanScheduler holds of its fresh runs, and the invariant of   *)
(* PlanScheduler of its resumed ones too.  What it judges and keeps for    *)
(* itself is right for every plan, workspace and scope.                    *)
(***************************************************************************)
EXTENDS Orchestrator, PlanOutcomeProofs

-----------------------------------------------------------------------------
\* The executor inside.

LEMMA ExecutorStep == [OrchNext]_allVars => [Next]_vars
BY DEF OrchNext, Schedule, BeginCall, Result, Settle, Fail, Retry, Write, AttemptGreen, AttemptOutside,
       AttemptRepeated, AttemptEmpty, AttemptFailed, EndCall, Next, Tasks, allVars

\* The runner is one that PlanScheduler allows: every theorem about PlanScheduler is
\* one about an orchestrated plan that is run afresh.
THEOREM Composition == Init /\ OrchSpec => Spec
BY ExecutorStep, PTL DEF OrchSpec, Spec

\* In a fresh run the orchestrator keeps what PlanContract promises to the callers of
\* ExecuteAsync.
THEOREM Contracted == Init /\ OrchSpec => ImplementsContract
BY Composition, Refinement

-----------------------------------------------------------------------------
\* What the executor does between the calls.

\* Synchronous code completes no node.
LEMMA NoneCompletes ==
  ASSUME IInv, Schedule, NEW n \in Node, st'[n] = "Completed"
  PROVE  st[n] = "Completed"
<1>1. st \in [Node -> NodeState]
  BY DEF IInv, TypeOK
<1>2. ASSUME NEW m \in Node, NEW x \in {"AwaitingApproval", "Waiting", "Pending"}, st' = [st EXCEPT ![m] = x]
      PROVE  st[n] = "Completed"
  BY <1>1, <1>2
<1>3. ASSUME NEW m \in Node, st' = FailFast(st, m) PROVE st[n] = "Completed"
  BY <1>1, <1>3, FailFastKeeps
<1>4. ASSUME NEW m \in Node, st' = SkipRemaining(st, m) PROVE st[n] = "Completed"
  BY <1>1, <1>4, SkipRemainingKeeps
<1>5. CASE UNCHANGED st
  BY <1>5
<1>6. CASE LayerSkip
  BY <1>1, <1>6 DEF LayerSkip
<1>7. CASE LayerEnter
  <2>1. PICK S : st' = [m \in Node |-> IF m \in S THEN "AwaitingClarification" ELSE st[m]]
    BY <1>7 DEF LayerEnter
  <2> QED
    BY <1>1, <2>1
<1>8. CASE LevelStops
  <2>1. PICK q : st' = Resolved(st, q)
    BY <1>8 DEF LevelStops, Return
  <2> QED
    BY <1>1, <2>1 DEF Resolved
<1>9. CASE Layer
  BY <1>2, <1>4, <1>5, <1>6, <1>7, <1>9 DEF Layer, LayerCancel, LayerPause, LayersDone, Return
<1>10. CASE Prepare
  BY <1>2, <1>3, <1>5, <1>10
     DEF Prepare, PrepareNoneReady, StartShard, PrepareReady, PrepareFail, PreparePause, PrepareWait, Return, NowWaiting
<1>11. CASE Join
  BY <1>5, <1>8, <1>11 DEF Join, ShardEnds, DrainedEnds, Return
<1>12. CASE Drain
  BY <1>2, <1>3, <1>5, <1>12
     DEF Drain, DrainEnds, Finish, DrainWake, DrainTimeout, DrainGiveUp, DrainFail, DrainPause, DrainKeep, Return
<1> QED
  BY <1>3, <1>5, <1>9, <1>10, <1>11, <1>12 DEF Schedule, BlockNode, Verdict, Terminated, vars

\* It leaves the tasks alone that await a call.
LEMMA CallsAwaited ==
  ASSUME IInv, Schedule, NEW n \in Node, task[n] = "run"
  PROVE  task'[n] = "run" /\ pc' = "run"
<1>1. pc = "run" /\ task \in [Node -> {"none", "new", "run", "backoff", "again", "end"}] /\ n \in Shard
  BY NoTaskOutsideRun DEF IInv, TypeOK, Shard
<1>2. ~AllReturned
  BY <1>1 DEF AllReturned
<1>3. ~Layer /\ ~Prepare /\ ~Join /\ ~Drain /\ ~Terminated
  BY <1>1, <1>2 DEF Layer, LayerCancel, LayerSkip, LayerPause, LayerEnter, LayersDone,
       Prepare, PrepareNoneReady, StartShard, PrepareReady, PrepareFail, PreparePause, PrepareWait, Preparing,
       Join, LevelStops, ShardEnds, DrainedEnds,
       Drain, DrainEnds, Finish, DrainWake, DrainTimeout, DrainGiveUp, DrainFail, DrainPause, DrainKeep, Draining,
       Terminated, Over
<1>4. PICK m \in Node : BlockNode(m)
  BY <1>3 DEF Schedule
<1> QED
  BY <1>1, <1>4 DEF BlockNode, Starting, Verdict, EndTask, TaskFrame

\* A verdict is carried to the end of the plan, and its node stays lost.
LEMMA VerdictEndsPlan ==
  ASSUME IInv, Schedule, NEW n \in Node, st[n] \in Lost,
         pc = "done" \/ (pc = "run" /\ stop /\ task[n] = "end")
  PROVE  st'[n] \in Lost /\ (pc' = "done" \/ (pc' = "run" /\ stop' /\ task'[n] = "end"))
<1>1. /\ st \in [Node -> NodeState]
      /\ task \in [Node -> {"none", "new", "run", "backoff", "again", "end"}]
  BY DEF IInv, TypeOK
<1>2. CASE Layer \/ Prepare \/ Drain
  BY <1>2 DEF Layer, LayerCancel, LayerSkip, LayerPause, LayerEnter, LayersDone,
       Prepare, PrepareNoneReady, StartShard, PrepareReady, PrepareFail, PreparePause, PrepareWait, Preparing,
       Drain, DrainEnds, Finish, DrainWake, DrainTimeout, DrainGiveUp, DrainFail, DrainPause, DrainKeep, Draining
<1>3. CASE LevelStops
  <2>1. PICK q : st' = Resolved(st, q) /\ pc' = "done"
    BY <1>3 DEF LevelStops, Return
  <2> QED
    BY <1>1, <2>1 DEF Resolved, Lost
<1>4. CASE ShardEnds \/ DrainedEnds
  BY <1>4 DEF ShardEnds, DrainedEnds, AllReturned, Return
<1>5. ASSUME NEW m \in Node, BlockNode(m) PROVE st'[n] \in Lost /\ pc' = "run" /\ stop' /\ task'[n] = "end"
  <2>1. pc = "run" /\ pc' = "run" /\ stop' /\ task' = [task EXCEPT ![m] = "end"] /\ st' = FailFast(st, m)
    BY <1>5 DEF BlockNode, Starting, Verdict, EndTask, TaskFrame
  <2>2. st'[n] \in Lost
    BY <1>1, <2>1, FailFastKeeps DEF Lost
  <2> QED
    BY <1>1, <2>1, <2>2
<1>6. CASE Terminated
  BY <1>6 DEF Terminated, vars
<1> QED
  BY <1>2, <1>3, <1>4, <1>5, <1>6 DEF Schedule, Join

-----------------------------------------------------------------------------
\* The invariant.

\* What a step of one node does: it begins a call, ends one, or works.
NodeStep(n) ==
  \/ BeginCall(n) \/ Result(n) \/ \E f \in File : Write(n, f)
  \/ AttemptGreen(n) \/ AttemptOutside(n) \/ AttemptRepeated(n) \/ AttemptEmpty(n) \/ AttemptFailed(n)

LEMMA OrchSteps ==
  ASSUME [OrchNext]_allVars
  PROVE  Schedule \/ UNCHANGED allVars \/ \E n \in Node : NodeStep(n)
BY DEF OrchNext, NodeStep

\* Within an attempt the executor stands still.
LEMMA Attempting ==
  ASSUME NEW n \in Node,
         \/ AttemptGreen(n) \/ AttemptOutside(n) \/ AttemptRepeated(n) \/ AttemptEmpty(n)
         \/ AttemptFailed(n)
  PROVE  /\ UNCHANGED vars /\ UNCHANGED <<files, before, writes, touched, wroteBy>>
         /\ Working(n)
         /\ call' = call \/ \E r \in {"Completed", "Failed", "Transient"} : call' = [call EXCEPT ![n] = r]
BY DEF AttemptGreen, AttemptOutside, AttemptRepeated, AttemptEmpty, AttemptFailed, EndCall

LEMMA EarlierKept ==
  ASSUME [OrchNext]_allVars
  PROVE  earlier' = earlier
BY DEF OrchNext, allVars

LEMMA OrchTypesKept ==
  ASSUME OrchTypeOK, TypeOK', [OrchNext]_allVars
  PROVE  OrchTypeOK'
<1>0. earlier' = earlier
  BY EarlierKept
<1>1. CASE Schedule \/ UNCHANGED allVars
  BY <1>0, <1>1 DEF Schedule, orchVars, allVars, OrchTypeOK
<1>2. ASSUME NEW n \in Node, BeginCall(n) PROVE OrchTypeOK'
  BY <1>0, <1>2, OrchestratorAssumption DEF BeginCall, OrchTypeOK
<1>3. ASSUME NEW n \in Node, Result(n) PROVE OrchTypeOK'
  BY <1>0, <1>3 DEF Result, OrchTypeOK
<1>4. ASSUME NEW n \in Node, NEW f \in File, Write(n, f) PROVE OrchTypeOK'
  <2>0. MaxWrites \in Nat /\ writes \in 0..MaxWrites /\ writes < MaxWrites /\ writes' = writes + 1
    BY <1>4, OrchestratorAssumption DEF Write, OrchTypeOK
  <2>1. writes' \in 0..MaxWrites /\ 0 \in 0..MaxWrites
    BY <2>0
  <2>2. files' \in [File -> 0..MaxWrites] /\ wroteBy' \in [File -> Node \cup {NoNode}]
    <3>1. \E v \in 0..MaxWrites : files' = [files EXCEPT ![f] = v]
      BY <1>4, <2>1 DEF Write, Absent
    <3>2. wroteBy' = wroteBy \/ wroteBy' = [wroteBy EXCEPT ![f] = n]
      BY <1>4 DEF Write
    <3> QED
      BY <3>1, <3>2 DEF OrchTypeOK
  <2>3. touched' \in [Node -> SUBSET File]
    BY <1>4 DEF Write, OrchTypeOK
  <2> QED
    BY <1>0, <1>4, <2>1, <2>2, <2>3 DEF Write, OrchTypeOK
<1>5. ASSUME NEW n \in Node, AttemptRepeated(n) PROVE OrchTypeOK'
  <2>1. budget[n] \in 1..MaxNodeBudget /\ esc[n] \in 0..MaxEscalations /\ esc[n] < MaxEscalations
    BY <1>5 DEF AttemptRepeated, MayEscalate, OrchTypeOK
  <2>2. Escalated(budget[n]) \in 1..MaxNodeBudget
    BY <2>1 DEF Escalated, MaxNodeBudget
  <2>3. esc[n] + 1 \in 0..MaxEscalations
    BY <2>1, OrchestratorAssumption
  <2> QED
    BY <1>0, <1>5, <2>2, <2>3 DEF AttemptRepeated, OrchTypeOK
<1>6. ASSUME NEW n \in Node, AttemptGreen(n) \/ AttemptOutside(n) \/ AttemptEmpty(n) \/ AttemptFailed(n)
      PROVE  OrchTypeOK'
  <2>1. UNCHANGED <<files, before, budget, esc, writes, touched, wroteBy>>
    BY <1>6 DEF AttemptGreen, AttemptOutside, AttemptEmpty, AttemptFailed, EndCall
  <2>2. call' \in [Node -> {"none", "attempt", "Completed", "Failed", "Transient"}]
    BY <1>6, Attempting DEF OrchTypeOK
  <2>3. blamed' \in [Node -> SUBSET {"out_of_scope", "no_artifact"}] /\ upstream' \subseteq Node
    BY <1>6 DEF AttemptGreen, AttemptOutside, AttemptEmpty, AttemptFailed, OrchTypeOK
  <2> QED
    BY <1>0, <2>1, <2>2, <2>3 DEF OrchTypeOK
<1> QED
  BY <1>1, <1>2, <1>3, <1>4, <1>5, <1>6, OrchSteps DEF NodeStep

\* A step of node n changes what is its own, and leaves to the others the states
\* they are in, but for Pending ones that a failure skips.
LEMMA OwnStep ==
  ASSUME IInv, OrchTypeOK, CallStates, NEW n \in Node, NodeStep(n), NEW m \in Node, m # n
  PROVE  /\ call'[m] = call[m] /\ before'[m] = before[m] /\ blamed'[m] = blamed[m]
         /\ task'[m] = task[m] /\ pc' = pc /\ (stop => stop')
         /\ st'[m] = st[m] \/ (st[m] = "Pending" /\ st'[m] = "Skipped")
<1>1. /\ st \in [Node -> NodeState]
      /\ task \in [Node -> {"none", "new", "run", "backoff", "again", "end"}]
  BY DEF IInv, TypeOK
<1>2. CASE BeginCall(n)
  <2>1. task'[m] = task[m] /\ st'[m] = st[m] /\ UNCHANGED <<pc, stop>>
    BY <1>1, <1>2 DEF BeginCall, StartNode, BackoffEnds, TaskFrame
  <2> QED
    BY <1>2, <2>1 DEF BeginCall, OrchTypeOK
<1>3. CASE Result(n)
  <2>1. ASSUME RunnerFails(n)
        PROVE  task'[m] = task[m] /\ pc' = pc /\ stop' /\ (st'[m] = st[m] \/ (st[m] = "Pending" /\ st'[m] = "Skipped"))
    <3>1. task' = [task EXCEPT ![n] = "end"] /\ pc' = pc /\ stop' /\ st' = FailFast(st, n)
      BY <2>1 DEF RunnerFails, Verdict, EndTask, TaskFrame
    <3> QED
      BY <1>1, <3>1, FailFastKeeps
  <2>2. ASSUME RunnerSettles(n) \/ RunnerRetries(n) \/ RunnerCancelled(n)
        PROVE  task'[m] = task[m] /\ pc' = pc /\ (stop => stop') /\ st'[m] = st[m]
    BY <1>1, <2>2 DEF RunnerSettles, RunnerRetries, RunnerCancelled, Verdict, EndTask, TaskFrame
  <2>3. call'[m] = call[m] /\ UNCHANGED <<before, blamed>>
    BY <1>3 DEF Result, OrchTypeOK
  <2> QED
    BY <1>3, <2>1, <2>2, <2>3 DEF Result, Settle, Fail, Retry
<1>4. CASE \E f \in File : Write(n, f)
  BY <1>4 DEF Write, vars
<1>5. CASE AttemptGreen(n) \/ AttemptOutside(n) \/ AttemptRepeated(n) \/ AttemptEmpty(n) \/ AttemptFailed(n)
  <2>1. UNCHANGED <<task, pc, stop, st, before>> /\ call'[m] = call[m]
    BY <1>5, Attempting DEF vars, OrchTypeOK
  <2>2. blamed'[m] = blamed[m]
    BY <1>5 DEF AttemptGreen, AttemptOutside, AttemptRepeated, AttemptEmpty, AttemptFailed, OrchTypeOK
  <2> QED
    BY <2>1, <2>2
<1> QED
  BY <1>2, <1>3, <1>4, <1>5 DEF NodeStep

LEMMA CallsKept ==
  ASSUME IInv, OrchTypeOK, CallStates, [OrchNext]_allVars
  PROVE  CallStates'
<1>1. task \in [Node -> {"none", "new", "run", "backoff", "again", "end"}]
  BY DEF IInv, TypeOK
<1>2. CASE Schedule
  <2>1. UNCHANGED call
    BY <1>2 DEF Schedule, orchVars
  <2> QED
    BY <1>2, <2>1, CallsAwaited DEF CallStates
<1>3. ASSUME NEW n \in Node, NodeStep(n), call'[n] # "none" => task'[n] = "run" PROVE CallStates'
  BY <1>3, OwnStep DEF CallStates
<1>4. ASSUME NEW n \in Node, BeginCall(n) PROVE task'[n] = "run"
  BY <1>1, <1>4 DEF BeginCall, StartNode, BackoffEnds
<1>5. ASSUME NEW n \in Node, Result(n) PROVE call'[n] = "none"
  BY <1>5 DEF Result, OrchTypeOK
<1>6. ASSUME NEW n \in Node, NodeStep(n), ~BeginCall(n), ~Result(n) PROVE task'[n] = "run"
  <2>1. Working(n) /\ UNCHANGED task
    BY <1>6, Attempting DEF NodeStep, Write, vars
  <2> QED
    BY <2>1 DEF Working, CallStates
<1>7. CASE UNCHANGED allVars
  BY <1>7 DEF allVars, vars, orchVars, CallStates
<1> QED
  BY <1>2, <1>3, <1>4, <1>5, <1>6, <1>7, OrchSteps

\* Only an attempt in order makes a node succeed.
LEMMA Succeeds ==
  ASSUME IInv, OrchTypeOK, CallStates, NEW n \in Node, NodeStep(n), NEW m \in Node, Succeeded(m)'
  PROVE  Succeeded(m) \/ (m = n /\ AttemptGreen(n))
<1>1. /\ st \in [Node -> NodeState]
      /\ \A k \in Node : task[k] = "backoff" => st[k] = "Running"
  BY DEF IInv, TypeOK, TaskStates, Active
<1>2. CASE m # n
  BY <1>2, OwnStep DEF Succeeded
<1>3. CASE m = n /\ BeginCall(n)
  BY <1>1, <1>3 DEF BeginCall, StartNode, BackoffEnds, Succeeded, OrchTypeOK
<1>4. CASE m = n /\ Result(n)
  <2>1. call'[n] = "none"
    BY <1>4 DEF Result, OrchTypeOK
  <2>2. CASE Settle(n)
    BY <1>4, <2>2 DEF Settle, Succeeded
  <2>3. CASE RunnerFails(n)
    BY <1>1, <1>4, <2>1, <2>3, FailFastKeeps DEF RunnerFails, Verdict, Succeeded
  <2>4. CASE RunnerRetries(n) \/ RunnerCancelled(n)
    BY <1>1, <1>4, <2>1, <2>4 DEF RunnerRetries, RunnerCancelled, Verdict, Succeeded
  <2> QED
    BY <1>4, <2>2, <2>3, <2>4 DEF Result, Fail, Retry
<1>5. CASE m = n /\ \E f \in File : Write(n, f)
  BY <1>5 DEF Write, vars, Succeeded
<1>6. CASE m = n /\ AttemptRepeated(n)
  BY <1>6 DEF AttemptRepeated, vars, Succeeded
<1>7. CASE m = n /\ (AttemptOutside(n) \/ AttemptEmpty(n) \/ AttemptFailed(n))
  <2>1. call'[n] \in {"Failed", "Transient"} /\ UNCHANGED st
    BY <1>7 DEF AttemptOutside, AttemptEmpty, AttemptFailed, EndCall, vars, OrchTypeOK
  <2> QED
    BY <1>7, <2>1 DEF Succeeded
<1> QED
  BY <1>2, <1>3, <1>4, <1>5, <1>6, <1>7 DEF NodeStep

LEMMA OutputsStay ==
  ASSUME IInv, OrchTypeOK, CallStates, OutputsKept, [OrchNext]_allVars
  PROVE  OutputsKept'
<1>1. CASE Schedule
  BY <1>1, NoneCompletes, EarlierKept DEF Schedule, orchVars, OutputsKept, Succeeded
<1>2. CASE UNCHANGED allVars
  BY <1>2 DEF allVars, vars, orchVars, OutputsKept, Succeeded
<1>3. ASSUME NEW n \in Node, NodeStep(n) PROVE OutputsKept'
  <2>1. upstream \subseteq upstream'
    BY <1>3 DEF NodeStep, BeginCall, Result, Write, AttemptGreen, AttemptOutside, AttemptRepeated, AttemptEmpty, AttemptFailed
  <2>2. AttemptGreen(n) => n \in upstream' \cup Quiet
    BY DEF AttemptGreen
  <2>3. earlier' = earlier
    BY EarlierKept
  <2> QED
    BY <1>3, <2>1, <2>2, <2>3, Succeeds DEF OutputsKept
<1> QED
  BY <1>1, <1>2, <1>3, OrchSteps

LEMMA ScopesStayJudged ==
  ASSUME IInv, OrchTypeOK, CallStates, ScopesJudged, [OrchNext]_allVars
  PROVE  ScopesJudged'
<1>1. CASE Schedule
  BY <1>1, NoneCompletes DEF Schedule, orchVars, ScopesJudged, Succeeded
<1>2. CASE UNCHANGED allVars
  BY <1>2 DEF allVars, vars, orchVars, ScopesJudged, Succeeded
<1>3. ASSUME NEW n \in Node, NodeStep(n), NEW m \in Node, Succeeded(m)', Scope[m] # {},
             NEW f \in File \ Scope[m], wroteBy'[f] = m
      PROVE  files'[f] \in {Absent, before'[m][f]}
  <2>1. CASE m = n /\ AttemptGreen(n)
    BY <1>3, <2>1 DEF AttemptGreen, EndCall, OutOfScope, Changed
  <2>2. CASE Succeeded(m) /\ ~AttemptGreen(n)
    <3>1. wroteBy[f] = m => files[f] \in {Absent, before[m][f]}
      BY <1>3, <2>2 DEF ScopesJudged
    <3>2. CASE \E g \in File : Write(n, g)
      <4>1. PICK g \in File : Write(n, g)
        BY <3>2
      <4>2. m # n
        BY <2>2, <4>1 DEF Write, Working, InRunner, Succeeded, CallStates, IInv, TaskStates, Active
      <4> QED
        BY <1>3, <3>1, <4>1, <4>2 DEF Write, OrchTypeOK
    <3>3. CASE BeginCall(n)
      <4>1. ~Succeeded(n)'
        BY <3>3 DEF BeginCall, StartNode, BackoffEnds, Succeeded, OrchTypeOK, IInv, TypeOK, TaskStates, Active
      <4>2. before'[m] = before[m]
        BY <1>3, <3>3, <4>1, OwnStep
      <4> QED
        BY <1>3, <3>1, <3>3, <4>2 DEF BeginCall
    <3>4. CASE ~BeginCall(n) /\ ~\E g \in File : Write(n, g)
      <4>1. UNCHANGED <<files, before, wroteBy>>
        BY <1>3, <3>4, Attempting DEF NodeStep, Result
      <4> QED
        BY <1>3, <3>1, <4>1
    <3> QED
      BY <3>2, <3>3, <3>4
  <2>3. CASE Succeeded(m) /\ AttemptGreen(n) /\ m # n
    BY <1>3, <2>3 DEF AttemptGreen, EndCall, ScopesJudged
  <2> QED
    BY <1>3, <2>1, <2>2, <2>3, Succeeds
<1> QED
  BY <1>1, <1>2, <1>3, OrchSteps DEF ScopesJudged

LEMMA BlameKept ==
  ASSUME IInv, OrchTypeOK, CallStates, BlameStates, [OrchNext]_allVars
  PROVE  BlameStates'
<1>1. CASE Schedule
  BY <1>1, VerdictEndsPlan DEF Schedule, orchVars, BlameStates
<1>2. CASE UNCHANGED allVars
  BY <1>2 DEF allVars, vars, orchVars, BlameStates
<1>3. ASSUME NEW n \in Node, NodeStep(n), NEW m \in Node, blamed'[m] # {}
      PROVE  \/ call'[m] = "Failed"
             \/ st'[m] \in Lost /\ (pc' = "done" \/ (pc' = "run" /\ stop' /\ task'[m] = "end"))
  <2>1. CASE m # n
    <3>1. \/ call[m] = "Failed"
          \/ st[m] \in Lost /\ (pc = "done" \/ (pc = "run" /\ stop /\ task[m] = "end"))
      BY <1>3, <2>1, OwnStep DEF BlameStates
    <3> QED
      BY <1>3, <2>1, <3>1, OwnStep DEF Lost
  <2>2. CASE AttemptOutside(n) \/ AttemptEmpty(n)
    <3>1. call'[n] = "Failed"
      BY <2>2 DEF AttemptOutside, AttemptEmpty, EndCall, OrchTypeOK
    <3> QED
      BY <2>1, <3>1
  <2>3. CASE m = n /\ blamed[n] # {}
    <3>1. \/ call[n] = "Failed" /\ task[n] = "run"
          \/ pc = "done" \/ (pc = "run" /\ task[n] = "end")
      BY <2>3 DEF BlameStates, CallStates
    <3>2. ~BeginCall(n)
      BY <3>1 DEF BeginCall, StartNode, Starting, BackoffEnds
    <3>3. ~Working(n)
      BY <3>1 DEF Working, InRunner
    <3>4. Result(n)
      BY <1>3, <3>2, <3>3, Attempting DEF NodeStep, Write
    <3>5. call[n] = "Failed"
      BY <3>1, <3>4 DEF Result, Settle, RunnerSettles, Fail, RunnerFails, Retry, RunnerRetries, RunnerCancelled, InRunner
    <3>6. RunnerFails(n) \/ RunnerCancelled(n)
      BY <3>4, <3>5 DEF Result, Settle, Fail, Retry
    <3>7. pc' = "run" /\ stop' /\ task'[n] = "end"
      BY <3>6 DEF RunnerFails, RunnerCancelled, InRunner, Verdict, EndTask, TaskFrame, IInv, TypeOK
    <3>8. st'[n] \in Lost
      <4>1. st \in [Node -> NodeState]
        BY DEF IInv, TypeOK
      <4>2. st' = FailFast(st, n) \/ st' = [st EXCEPT ![n] = "Skipped"]
        BY <3>6 DEF RunnerFails, RunnerCancelled, Verdict
      <4> QED
        BY <4>1, <4>2, FailFastKeeps DEF Lost
    <3> QED
      BY <2>3, <3>7, <3>8
  <2>4. CASE m = n /\ blamed[n] = {} /\ ~AttemptOutside(n) /\ ~AttemptEmpty(n)
    <3>1. blamed' = blamed
      BY <1>3, <2>4 DEF NodeStep, BeginCall, Result, Write, AttemptGreen, AttemptRepeated, AttemptFailed
    <3> QED
      BY <1>3, <2>4, <3>1
  <2> QED
    BY <2>1, <2>2, <2>3, <2>4
<1> QED
  BY <1>1, <1>2, <1>3, OrchSteps DEF BlameStates

\* The plan's retries are what they were, and only a call brings a task to a back-off.
LEMMA ScheduleKeeps ==
  ASSUME IInv, Schedule
  PROVE  /\ plan'.retries = plan.retries
         /\ \A n \in Node : task'[n] \in {task[n], "none", "new", "end"}
<1>1. /\ plan \in PlanType
      /\ task \in [Node -> {"none", "new", "run", "backoff", "again", "end"}]
  BY DEF IInv, TypeOK
<1>2. CASE Layer
  BY <1>1, <1>2 DEF Layer, LayerCancel, LayerSkip, LayerPause, LayerEnter, LayersDone, PlanType, taskVars
<1>3. CASE Prepare
  BY <1>1, <1>3 DEF Prepare, PrepareNoneReady, StartShard, PrepareReady, PrepareFail, PreparePause, PrepareWait,
       CreateTasks, taskVars
<1>4. CASE Join
  BY <1>1, <1>4 DEF Join, LevelStops, ShardEnds, DrainedEnds, ClearTasks, CreateTasks
<1>5. CASE Drain
  BY <1>1, <1>5 DEF Drain, DrainEnds, Finish, DrainWake, DrainTimeout, DrainGiveUp, DrainFail, DrainPause, DrainKeep,
       taskVars
<1>6. ASSUME NEW n \in Node, BlockNode(n) PROVE plan' = plan /\ task' = [task EXCEPT ![n] = "end"]
  BY <1>6 DEF BlockNode, Verdict, EndTask, TaskFrame
<1>7. CASE Terminated
  BY <1>7 DEF Terminated, vars
<1> QED
  BY <1>1, <1>2, <1>3, <1>4, <1>5, <1>6, <1>7 DEF Schedule

LEMMA NodeKeepsPlan ==
  ASSUME NEW n \in Node, NodeStep(n)
  PROVE  plan' = plan
<1>1. CASE BeginCall(n)
  BY <1>1 DEF BeginCall, StartNode, BackoffEnds, TaskFrame
<1>2. CASE Result(n)
  BY <1>2 DEF Result, Settle, Fail, Retry, RunnerSettles, RunnerFails, RunnerRetries, RunnerCancelled, TaskFrame
<1>3. CASE \E f \in File : Write(n, f)
  BY <1>3 DEF Write, vars
<1> QED
  BY <1>1, <1>2, <1>3, Attempting DEF NodeStep, vars

LEMMA NodeIsSomeone == NoNode \notin Node
BY SizeAssumption DEF Node, NoNode

LEMMA StampsKept ==
  ASSUME OrchTypeOK, StampStates, [OrchNext]_allVars
  PROVE  StampStates'
<1>0. MaxWrites \in Nat /\ writes \in Nat /\ files \in [File -> Nat] /\ before \in [Node -> [File -> Nat]]
  BY OrchestratorAssumption DEF OrchTypeOK
<1>1. CASE Schedule \/ UNCHANGED allVars
  BY <1>1 DEF Schedule, orchVars, allVars, StampStates
<1>2. ASSUME NEW n \in Node, BeginCall(n) PROVE StampStates'
  BY <1>0, <1>2 DEF BeginCall, StampStates
<1>3. ASSUME NEW n \in Node, NEW f \in File, Write(n, f) PROVE StampStates'
  <2>1. writes' = writes + 1 /\ UNCHANGED before
    BY <1>3 DEF Write
  <2>2. \A g \in File \ {f} : files'[g] = files[g] /\ wroteBy'[g] = wroteBy[g]
    BY <1>3 DEF Write, OrchTypeOK
  <2>3. f \in touched'[n] /\ \A m \in Node : touched[m] \subseteq touched'[m]
    BY <1>3 DEF Write, OrchTypeOK
  <2>4. files'[f] = Absent \/ (files'[f] = writes' /\ wroteBy'[f] = n)
    BY <1>3 DEF Write, OrchTypeOK
  <2>5. ASSUME NEW g \in File PROVE files'[g] <= writes' /\ \A m \in Node : before'[m][g] <= writes'
    <3>1. \A m \in Node : before[m][g] \in Nat /\ before[m][g] <= writes
      BY <1>0 DEF StampStates
    <3>2. files[g] \in Nat /\ files[g] <= writes
      BY <1>0 DEF StampStates
    <3> QED
      BY <1>0, <2>1, <2>2, <2>4, <3>1, <3>2 DEF Absent
  <2>6. ASSUME NEW g \in File \ {f}
        PROVE  touched'[n] \cap {g} = touched[n] \cap {g} /\ \A m \in Node \ {n} : touched'[m] = touched[m]
    BY <1>3 DEF Write, OrchTypeOK
  <2>7. ASSUME NEW g \in File, files'[g] # Absent
        PROVE  \/ wroteBy'[g] \in Node /\ g \in touched'[wroteBy'[g]]
               \/ wroteBy'[g] = NoNode /\ \A m \in Node : before'[m][g] = files'[g] /\ g \notin touched'[m]
    <3>1. CASE g = f
      BY <2>3, <2>4, <2>7, <3>1
    <3>2. CASE g # f
      <4>1. files'[g] = files[g] /\ wroteBy'[g] = wroteBy[g] /\ before' = before
        BY <2>1, <2>2, <3>2
      <4>2. \A m \in Node : g \in touched'[m] <=> g \in touched[m]
        BY <2>6, <3>2
      <4> QED
        BY <2>7, <4>1, <4>2 DEF StampStates
    <3> QED
      BY <3>1, <3>2
  <2> QED
    BY <2>5, <2>7 DEF StampStates
<1>4. ASSUME NEW n \in Node, NodeStep(n), ~BeginCall(n), ~\E f \in File : Write(n, f) PROVE StampStates'
  <2>1. UNCHANGED <<files, before, writes, touched, wroteBy>>
    BY <1>4, Attempting DEF NodeStep, Result
  <2> QED
    BY <2>1 DEF StampStates
<1> QED
  BY <1>1, <1>2, <1>3, <1>4, OrchSteps

\* What CalledOnce says of one node.
Once(n) ==
  plan.retries[n] = 0 =>
    /\ task[n] \notin {"backoff", "again"}
    /\ touched[n] # {} =>
          \/ st[n] \in {"Running", "Completed"}
          \/ st[n] \in Lost /\ (pc = "done" \/ (pc = "run" /\ stop /\ task[n] = "end"))
    /\ \A f \in File : files[f] # Absent /\ wroteBy[f] = n => files[f] > before[n][f]

LEMMA OnceOfSchedule ==
  ASSUME IInv, IInv', CalledOnce, Schedule, NEW n \in Node
  PROVE  Once(n)'
<1>1. UNCHANGED orchVars /\ plan'.retries = plan.retries /\ Once(n)
  BY ScheduleKeeps DEF Schedule, CalledOnce, Once
<1>2. CASE st[n] = "Running" /\ plan.retries[n] = 0
  <2>1. task[n] = "run"
    BY <1>1, <1>2 DEF Once, IInv, TaskStates, Active, TypeOK
  <2>2. task'[n] = "run" /\ pc' = "run"
    BY <2>1, CallsAwaited
  <2>3. st'[n] = "Running"
    BY <2>2 DEF IInv, TaskStates, Active
  <2> QED
    BY <1>1, <2>2, <2>3 DEF Once, orchVars
<1>3. CASE st[n] = "Completed"
  <2>1. st'[n] = "Completed"
    BY <1>3, CompletedStep DEF Schedule, Next, Tasks
  <2> QED
    BY <1>1, <2>1, ScheduleKeeps DEF Once, orchVars
<1>4. CASE st[n] \in Lost
  BY <1>1, <1>4, ScheduleKeeps, VerdictEndsPlan DEF Once, orchVars, Lost
<1>5. CASE st[n] \notin {"Running", "Completed"} /\ st[n] \notin Lost
  BY <1>1, <1>5, ScheduleKeeps DEF Once, orchVars
<1> QED
  BY <1>1, <1>2, <1>3, <1>4, <1>5 DEF Once

\* A node that is called begins with nothing written; while it works, what it writes
\* is newer than its snapshot.
LEMMA OnceOfNode ==
  ASSUME IInv, OrchTypeOK, CallStates, StampStates, CalledOnce, NEW n \in Node, NodeStep(n), plan.retries[n] = 0
  PROVE  Once(n)'
<1>0. /\ plan' = plan /\ Once(n) /\ plan \in PlanType
      /\ st \in [Node -> NodeState]
      /\ task \in [Node -> {"none", "new", "run", "backoff", "again", "end"}]
      /\ attempt \in [Node -> Nat]
  BY NodeKeepsPlan DEF IInv, TypeOK, CalledOnce, Once
<1>1. CASE BeginCall(n)
  <2>1. StartNode(n)
    BY <1>0, <1>1 DEF BeginCall, BackoffEnds, Once
  <2>2. task'[n] = "run" /\ task[n] = "new" /\ pc = "run"
    BY <1>0, <2>1 DEF StartNode, Starting
  <2>3. st[n] \notin {"Running", "Completed"}
    BY <2>2 DEF IInv, TaskStates, Active
  <2>4. touched[n] = {}
    BY <1>0, <2>2, <2>3 DEF Once
  <2>5. UNCHANGED <<files, touched, wroteBy>>
    BY <1>1 DEF BeginCall
  <2>6. \A f \in File : ~(files[f] # Absent /\ wroteBy[f] = n)
    BY <2>4, NodeIsSomeone DEF StampStates
  <2> QED
    BY <2>2, <2>4, <2>5, <2>6 DEF Once
<1>2. CASE Result(n)
  <2>1. UNCHANGED <<files, before, touched, wroteBy>>
    BY <1>2 DEF Result
  <2>2. ~RunnerRetries(n)
    BY <1>0 DEF RunnerRetries
  <2>3. pc = "run" /\ pc' = pc /\ task' = [task EXCEPT ![n] = "end"]
    BY <1>2, <2>2 DEF Result, Settle, Fail, Retry, RunnerSettles, RunnerFails, RunnerCancelled, Verdict, EndTask,
         TaskFrame, InRunner
  <2>4. \/ st'[n] = "Completed"
        \/ st'[n] \in Lost /\ stop'
    <3>1. CASE Settle(n)
      BY <3>1 DEF Settle
    <3>2. CASE RunnerFails(n)
      BY <1>0, <3>2, FailFastKeeps DEF RunnerFails, Verdict, Lost
    <3>3. CASE RunnerCancelled(n)
      BY <1>0, <3>3 DEF RunnerCancelled, Verdict, Lost
    <3> QED
      BY <1>2, <2>2, <3>1, <3>2, <3>3 DEF Result, Fail, Retry
  <2> QED
    BY <1>0, <2>1, <2>3, <2>4 DEF Once
<1>3. ASSUME NEW f \in File, Write(n, f) PROVE Once(n)'
  <2>1. st'[n] = "Running" /\ task' = task
    BY <1>3 DEF Write, vars, Working, InRunner, IInv, TaskStates, Active
  <2>2. \A g \in File \ {f} : files'[g] = files[g] /\ wroteBy'[g] = wroteBy[g] /\ before' = before
    BY <1>3 DEF Write, OrchTypeOK
  <2>3. files'[f] # Absent => files'[f] = writes + 1 /\ before'[n][f] = before[n][f]
    BY <1>3 DEF Write, OrchTypeOK
  <2>4. files'[f] # Absent => files'[f] > before'[n][f]
    <3>1. before[n][f] \in Nat /\ writes \in Nat /\ before[n][f] <= writes
      BY OrchestratorAssumption DEF OrchTypeOK, StampStates
    <3> QED
      BY <2>3, <3>1
  <2> QED
    BY <1>0, <2>1, <2>2, <2>4 DEF Once
<1>4. CASE AttemptGreen(n) \/ AttemptOutside(n) \/ AttemptRepeated(n) \/ AttemptEmpty(n) \/ AttemptFailed(n)
  BY <1>0, <1>4, Attempting DEF Once, vars
<1> QED
  BY <1>1, <1>2, <1>3, <1>4 DEF NodeStep

\* The others' steps do not touch it.
LEMMA OnceOfOther ==
  ASSUME IInv, OrchTypeOK, CallStates, CalledOnce, NEW n \in Node, NodeStep(n), NEW m \in Node, m # n
  PROVE  Once(m)'
<1>1. /\ before'[m] = before[m] /\ task'[m] = task[m] /\ pc' = pc /\ (stop => stop')
      /\ st'[m] = st[m] \/ (st[m] = "Pending" /\ st'[m] = "Skipped")
      /\ plan' = plan
  BY OwnStep, NodeKeepsPlan
<1>2. touched'[m] = touched[m]
  BY Attempting DEF NodeStep, BeginCall, Result, Write, OrchTypeOK
<1>3. ASSUME NEW f \in File, files'[f] # Absent, wroteBy'[f] = m
      PROVE  files'[f] = files[f] /\ wroteBy[f] = m
  <2>1. CASE \E g \in File : Write(n, g)
    BY <1>3, <2>1 DEF Write, OrchTypeOK
  <2>2. CASE ~\E g \in File : Write(n, g)
    BY <1>3, <2>2, Attempting DEF NodeStep, BeginCall, Result
  <2> QED
    BY <2>1, <2>2
<1> QED
  BY <1>1, <1>2, <1>3 DEF CalledOnce, Once, Lost

LEMMA CalledOnceKept ==
  ASSUME IInv, IInv', OrchTypeOK, CallStates, StampStates, CalledOnce, [OrchNext]_allVars
  PROVE  CalledOnce'
<1>1. CASE UNCHANGED allVars
  BY <1>1 DEF allVars, vars, orchVars, CalledOnce
<1>2. CASE Schedule
  BY <1>2, OnceOfSchedule DEF CalledOnce, Once
<1>3. ASSUME NEW n \in Node, NodeStep(n), NEW m \in Node, plan'.retries[m] = 0 PROVE Once(m)'
  BY <1>3, OnceOfNode, OnceOfOther, NodeKeepsPlan
<1> QED
  BY <1>1, <1>2, <1>3, OrchSteps DEF CalledOnce, Once

LEMMA ArtifactsKept ==
  ASSUME IInv, OrchTypeOK, CallStates, StampStates, ArtifactsSeen, [OrchNext]_allVars
  PROVE  ArtifactsSeen'
<1>1. CASE Schedule
  BY <1>1, NoneCompletes, EarlierKept DEF Schedule, orchVars, ArtifactsSeen, Succeeded
<1>2. CASE UNCHANGED allVars
  BY <1>2 DEF allVars, vars, orchVars, ArtifactsSeen, Succeeded
<1>3. ASSUME NEW n \in Node, NodeStep(n) PROVE ArtifactsSeen'
  <2>1. \A m \in Node : touched[m] \subseteq touched'[m]
    BY <1>3, Attempting DEF NodeStep, BeginCall, Result, Write, OrchTypeOK
  <2>2. ASSUME AttemptGreen(n), Scope[n] # {}
        PROVE  \E f \in Scope[n], m \in Node : f \in touched[m]
    <3>1. PICK f \in Scope[n] : f \in File /\ files[f] # Absent /\ files[f] # before[n][f]
      BY <2>2 DEF AttemptGreen, NoArtifact, Artifacts, Changed
    <3>2. wroteBy[f] \in Node /\ f \in touched[wroteBy[f]]
      BY <3>1 DEF StampStates
    <3> QED
      BY <3>1, <3>2
  <2>3. earlier' = earlier
    BY EarlierKept
  <2> QED
    BY <1>3, <2>1, <2>2, <2>3, Succeeds DEF ArtifactsSeen
<1> QED
  BY <1>1, <1>2, <1>3, OrchSteps

\* An earlier run leaves what the executor's invariant asks of it.
LEMMA ResumedIInv == Resumed => IInv
<1> SUFFICES ASSUME Resumed PROVE IInv
  OBVIOUS
<1>1. PICK run \in Seeds : /\ LeftBehind(run)
                          /\ st = Seeded(run.st)
                          /\ waitOn = run.waitOn /\ waitOpen = run.waitOpen /\ deps = run.deps
  BY DEF Resumed
<1>2. /\ run.st \in [Node -> NodeState] /\ run.waitOn \in [Node -> Node \cup {NoNode}]
      /\ run.waitOpen \in [Node -> BOOLEAN] /\ run.deps \in [Node -> SUBSET Node]
  BY OrchestratorAssumption
<1>3. plan \in PlanType
  BY PlansAssumption DEF Resumed, Entry
<1>4. /\ st \in [Node -> NodeState] /\ \A n \in Node : st[n] \notin {"Running", "Waiting"}
      /\ \A n \in Node : run.st[n] = "Completed" => st[n] = "Completed"
  BY <1>1, <1>2, StateNames DEF Seeded, AwaitingUser
<1>5. InjectedCompleted
  BY <1>1, <1>2, <1>4 DEF LeftBehind, InjectedCompleted
<1>6. ASSUME NEW n \in Node, waitOpen[n]
      PROVE  /\ waitOn[n] # NoNode
             /\ plan.producer[n] # NoNode =>
                   waitOn[n] = plan.producer[n] \/ st[plan.producer[n]] = "Completed"
  <2>1. plan.producer[n] \in Node \cup {NoNode} /\ plan.needs[n] \subseteq Node
    BY <1>3 DEF PlanType
  <2> QED
    BY <1>1, <1>4, <1>6, <2>1, NodeIsSomeone DEF LeftBehind
<1> QED
  BY <1>1, <1>2, <1>4, <1>5, <1>6, EntryIInv DEF Resumed

LEMMA OrchInvInit == OrchInit => IInv /\ OrchInv
<1> SUFFICES ASSUME OrchInit PROVE IInv /\ OrchInv
  OBVIOUS
<1>0. IInv /\ Entry
  BY InitIInv, ResumedIInv DEF OrchInit, Init, Resumed
<1>1. /\ files \in [File -> {Absent, Old}] /\ writes = Old /\ before = [n \in Node |-> files]
      /\ wroteBy = [f \in File |-> NoNode] /\ touched = [n \in Node |-> {}]
  BY DEF OrchInit
<1>2. OrchTypeOK
  <2>1. Absent \in 0..MaxWrites /\ Old \in 0..MaxWrites
    BY OrchestratorAssumption DEF Absent, Old
  <2>2. files \in [File -> 0..MaxWrites] /\ before \in [Node -> [File -> 0..MaxWrites]]
    BY <1>1, <2>1
  <2> QED
    BY <1>0, <1>1, <2>1, <2>2, OrchestratorAssumption DEF OrchInit, OrchTypeOK, IInv, NoNode
<1>3. CallStates /\ BlameStates
  BY DEF OrchInit, CallStates, BlameStates
<1>4. OutputsKept /\ ArtifactsSeen
  BY DEF OrchInit, OutputsKept, ArtifactsSeen, Succeeded
<1>5. ScopesJudged
  BY <1>1, NodeIsSomeone DEF ScopesJudged
<1>6. StampStates
  BY <1>1 DEF StampStates, Absent, Old
<1>7. CalledOnce
  BY <1>0, <1>1, NodeIsSomeone DEF Entry, CalledOnce
<1> QED
  BY <1>0, <1>2, <1>3, <1>4, <1>5, <1>6, <1>7 DEF OrchInv

-----------------------------------------------------------------------------
\* The theorems.

\* The invariants of the executor and of the orchestrator.
THEOREM Orchestrated == OrchSpec => [](IInv /\ OrchInv)
<1>1. OrchInit => IInv /\ OrchInv
  BY OrchInvInit
<1>2. IInv /\ OrchInv /\ [OrchNext]_allVars => IInv' /\ OrchInv'
  <2> SUFFICES ASSUME IInv, OrchInv, [OrchNext]_allVars PROVE IInv' /\ OrchInv'
    OBVIOUS
  <2>1. IInv'
    BY NextIInv, ExecutorStep
  <2>2. OrchTypeOK'
    BY <2>1, OrchTypesKept DEF OrchInv, IInv
  <2> QED
    BY <2>1, <2>2, CallsKept, OutputsStay, ScopesStayJudged, BlameKept, StampsKept, CalledOnceKept, ArtifactsKept
       DEF OrchInv
<1> QED
  BY <1>1, <1>2, PTL DEF OrchSpec

\* OrchTypeOK: budgets and escalations stay within their limits.
THEOREM OrchTypes == OrchSpec => []OrchTypeOK
<1>1. OrchInv => OrchTypeOK
  BY DEF OrchInv
<1> QED
  BY <1>1, Orchestrated, PTL

\* EnforceScope catches what a completed node wrote outside of its scope.
THEOREM ScopeEnforced == OrchSpec => []OutOfScopeCaught
<1>1. OrchInv => OutOfScopeCaught
  BY DEF OrchInv, ScopesJudged, Succeeded, OutOfScopeCaught
<1> QED
  BY <1>1, Orchestrated, PTL

\* No plan goes on after a violation.
THEOREM BlameIsFinal == OrchSpec => []BlameEndsPlan
<1>1. IInv /\ OrchInv => BlameEndsPlan
  <2> SUFFICES ASSUME IInv, OrchInv, NEW n \in Node, blamed[n] # {}
               PROVE  st[n] # "Completed" /\ pc \in {"run", "done"}
    BY DEF BlameEndsPlan
  <2>1. CASE call[n] = "Failed"
    BY <2>1, NoTaskOutsideRun DEF OrchInv, CallStates, IInv, TaskStates, Active
  <2>2. CASE call[n] # "Failed"
    BY <2>2 DEF OrchInv, BlameStates, Lost
  <2> QED
    BY <2>1, <2>2
<1> QED
  BY <1>1, Orchestrated, PTL

\* A node that works has the outputs of the completed nodes it depends on.
THEOREM OutputsAtHand == OrchSpec => []UpstreamHeld
<1>1. IInv /\ OrchInv => UpstreamHeld
  <2>1. IInv => \A n \in Node : plan.dependsOn[n] \subseteq Node
    BY DEF IInv, TypeOK, PlanType
  <2> QED
    BY <2>1 DEF OrchInv, OutputsKept, Succeeded, UpstreamHeld
<1> QED
  BY <1>1, Orchestrated, PTL

\* A plan whose nodes have all completed is no false green, but for the two ways in
\* which a node can be deceived.
THEOREM GreenIsReal == OrchSpec => []GreenPlanIsReal
<1>1. IInv /\ OrchInv => GreenPlanIsReal
  <2> SUFFICES ASSUME IInv, OrchInv, ScopesApart, \A n \in Node : st[n] = "Completed",
                      NEW n \in Node \ earlier, touched[n] \cap Scope[n] = {}
               PROVE  Deceived(n)
    BY DEF GreenPlanIsReal
  <2>1. PICK f \in Scope[n], m \in Node : f \in touched[m]
    BY DEF OrchInv, ArtifactsSeen, Succeeded, ScopesApart
  <2>2. f \in File /\ m # n
    BY <2>1, OrchestratorAssumption
  <2>3. CASE files[f] = Absent
    BY <2>1, <2>2, <2>3 DEF Deceived
  <2>4. CASE files[f] # Absent
    <3> DEFINE k == wroteBy[f]
    <3>1. k \in Node /\ f \in touched[k] /\ k # n
      BY <2>1, <2>2, <2>4 DEF OrchInv, StampStates
    <3>2. files[f] = before[k][f]
      <4>1. Scope[k] # {} /\ f \notin Scope[k]
        BY <2>1, <3>1 DEF ScopesApart
      <4> QED
        BY <2>2, <2>4, <3>1, <4>1 DEF OrchInv, ScopesJudged, Succeeded
    <3>3. files[f] \in Nat
      BY <2>2, OrchestratorAssumption DEF OrchInv, OrchTypeOK
    <3>4. plan.retries[k] # 0
      BY <2>2, <2>4, <3>1, <3>2, <3>3 DEF OrchInv, CalledOnce
    <3>5. plan.retries[k] \in Nat
      BY <3>1 DEF IInv, TypeOK, PlanType
    <3> QED
      BY <2>1, <3>1, <3>4, <3>5 DEF Deceived
  <2> QED
    BY <2>3, <2>4
<1> QED
  BY <1>1, Orchestrated, PTL
===============================================================================
