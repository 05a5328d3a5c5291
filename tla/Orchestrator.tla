----------------------------- MODULE Orchestrator -----------------------------
(***************************************************************************)
(* TaskOrchestrator: a plan whose nodes are real executions in a shared    *)
(* workspace.  It is the nodeRunner of TaskPlanExecutor (PlanScheduler):   *)
(* a call takes a snapshot of the workspace, lets the node work, takes     *)
(* another one and judges the difference against the write scope the node  *)
(* declared.  A node that claims success but has written nothing in its    *)
(* scope may be tried again with a larger step budget.                     *)
(*                                                                         *)
(* Nodes of a shard work at the same time in the same workspace.  The      *)
(* local executors and the remote agent are outside this code: a node      *)
(* writes and deletes files as it likes and its attempt ends, completed or *)
(* failed, as it likes.  WorkspaceRoot is set and RequireScopedArtifacts   *)
(* holds, as by default.  A snapshot is taken whole: the partial one of an *)
(* I/O error under way is left out.                                        *)
(*                                                                         *)
(* A plan can be resumed from an earlier run of it (seedRun).  The states  *)
(* and wait records of that run are taken over, its outputs are not.       *)
(***************************************************************************)
EXTENDS PlanScheduler

CONSTANTS
    File,            \* files of the workspace
    Scope,           \* NodeScopes: the files a node declared, {} if it did not
    LocalNodes,      \* nodes of a local executor
    Quiet,           \* nodes whose result has no output text
    NodeMaxSteps,    \* Options.NodeMaxSteps
    MaxEscalations,  \* Options.MaxBudgetEscalations
    Seeds,           \* the runs a plan may be resumed from
    Workspaces,      \* the files that may be there at the start
    MaxWrites        \* bound: the stamp of the last write in a run

MaxNodeBudget == 32

ASSUME OrchestratorAssumption ==
    /\ Scope \in [Node -> SUBSET File]
    /\ LocalNodes \subseteq Node /\ Quiet \subseteq Node
    /\ NodeMaxSteps \in 1..MaxNodeBudget
    /\ MaxEscalations \in 0..3
    /\ Seeds \subseteq [st: [Node -> NodeState], waitOn: [Node -> Node \cup {NoNode}],
                        waitOpen: [Node -> BOOLEAN], deps: [Node -> SUBSET Node]]
    /\ Workspaces \subseteq SUBSET File
    /\ MaxWrites \in Nat \ {0}

VARIABLES
    files,     \* stamp of each file: grows with every write, 0 if absent
    before,    \* the snapshot a call of nodeRunner began with
    call,      \* the call of each node: under way, or its result
    budget,    \* step budget of the call
    esc,       \* escalations of the call
    blamed,    \* ScopeViolations: the kinds recorded against each node
    upstream,  \* nodes whose output was kept for the others
    writes,    \* the last stamp that was given
    earlier,   \* history: nodes that completed in the run this one was resumed from
    touched,   \* history: files each node has written or deleted in this run
    wroteBy    \* history: the node that wrote each file last in this run

orchVars == <<files, before, call, budget, esc, blamed, upstream, writes, touched, wroteBy>>
allVars == <<vars, orchVars, earlier>>

Absent == 0
Old == 1   \* the stamp of what was there at the start

-----------------------------------------------------------------------------
\* The calls of nodeRunner.

\* RunNodeAsync up to its first await: the snapshot is taken.
BeginCall(n) ==
    /\ StartNode(n) \/ BackoffEnds(n)
    /\ before' = [before EXCEPT ![n] = files]
    /\ call' = [call EXCEPT ![n] = "attempt"]
    /\ budget' = [budget EXCEPT ![n] = NodeMaxSteps]
    /\ esc' = [esc EXCEPT ![n] = 0]
    /\ UNCHANGED <<files, blamed, upstream, writes, touched, wroteBy>>

Working(n) == InRunner(n) /\ call[n] = "attempt"

\* The node writes a file, or deletes one.
Write(n, f) ==
    /\ Working(n) /\ writes < MaxWrites
    /\ writes' = writes + 1
    /\ \/ files' = [files EXCEPT ![f] = writes'] /\ wroteBy' = [wroteBy EXCEPT ![f] = n]
       \/ files[f] # Absent /\ files' = [files EXCEPT ![f] = Absent] /\ UNCHANGED wroteBy
    /\ touched' = [touched EXCEPT ![n] = @ \cup {f}]
    /\ UNCHANGED <<vars, before, call, budget, esc, blamed, upstream>>

\* Diff of the two snapshots; a deleted file is a change but no artifact.
Changed(n) == {f \in File : files[f] # before[n][f]}
Artifacts(n) == {f \in Changed(n) : files[f] # Absent}

\* Mutant of OutOfScope: only new files are looked at.
NewOutOfScope(n) ==
    Scope[n] # {} /\ \E f \in Changed(n) \ Scope[n] : before[n][f] = Absent

\* EnforceScope, its two checks in turn.
OutOfScope(n) == Scope[n] # {} /\ ~(Changed(n) \subseteq Scope[n])

\* Mutant of NoArtifact: success is believed (RequireScopedArtifacts off).
ArtifactNotRequired(n) == FALSE

NoArtifact(n) == Scope[n] # {} /\ ~OutOfScope(n) /\ Artifacts(n) \cap Scope[n] = {}

\* The call returns r to the executor.
EndCall(n, r) ==
    /\ call' = [call EXCEPT ![n] = r]
    /\ UNCHANGED <<vars, files, before, budget, esc, writes, touched, wroteBy>>

\* Mutant of AttemptGreen: the output is not kept.
AttemptGreenForgets(n) ==
    /\ Working(n)
    /\ ~OutOfScope(n) /\ ~NoArtifact(n)
    /\ EndCall(n, "Completed")
    /\ UNCHANGED <<blamed, upstream>>

\* The attempt succeeded and its diff is in order: its output, if any, is kept.
AttemptGreen(n) ==
    /\ Working(n)
    /\ ~OutOfScope(n) /\ ~NoArtifact(n)
    /\ EndCall(n, "Completed")
    /\ upstream' = upstream \cup ({n} \ Quiet)
    /\ UNCHANGED blamed

\* The attempt succeeded but something outside of the scope has changed.
AttemptOutside(n) ==
    /\ Working(n)
    /\ OutOfScope(n)
    /\ EndCall(n, "Failed")
    /\ blamed' = [blamed EXCEPT ![n] = @ \cup {"out_of_scope"}]
    /\ UNCHANGED upstream

\* Mutant of Escalated: the budget is not cut at the cap.
EscalatedUncapped(b) == 2 * b

\* The next budget: doubled, up to the cap of the action loop.
Escalated(b) == IF 2 * b < MaxNodeBudget THEN 2 * b ELSE MaxNodeBudget

MayEscalate(n) ==
    n \notin LocalNodes /\ esc[n] < MaxEscalations /\ budget[n] < MaxNodeBudget

\* The attempt succeeded without an artifact: it is repeated with a larger
\* budget, against the same first snapshot; the violation is taken back.
AttemptRepeated(n) ==
    /\ Working(n)
    /\ NoArtifact(n)
    /\ MayEscalate(n)
    /\ esc' = [esc EXCEPT ![n] = @ + 1]
    /\ budget' = [budget EXCEPT ![n] = Escalated(@)]
    /\ UNCHANGED <<vars, files, before, call, blamed, upstream, writes, touched, wroteBy>>

\* ... or the node has failed.
AttemptEmpty(n) ==
    /\ Working(n)
    /\ NoArtifact(n)
    /\ ~MayEscalate(n)
    /\ EndCall(n, "Failed")
    /\ blamed' = [blamed EXCEPT ![n] = @ \cup {"no_artifact"}]
    /\ UNCHANGED upstream

\* The attempt itself failed, threw, or its local executor is missing.  The
\* diff of a failed attempt is not judged.
AttemptFailed(n) ==
    /\ Working(n)
    /\ \/ EndCall(n, "Failed")
       \/ EndCall(n, "Transient")
    /\ UNCHANGED <<blamed, upstream>>

-----------------------------------------------------------------------------
\* The executor goes on with the result.

Settle(n) == call[n] = "Completed" /\ RunnerSettles(n) /\ st'[n] = "Completed"
Fail(n) ==
    /\ \/ call[n] = "Failed"
       \/ call[n] = "Transient" /\ attempt[n] >= plan.retries[n]
    /\ RunnerFails(n)

\* Mutant of Retry: attempts are not counted.
RetryUncounted(n) ==
    /\ call[n] = "Transient" /\ InRunner(n)
    /\ task' = [task EXCEPT ![n] = "backoff"]
    /\ UNCHANGED <<TaskFrame, runState, st, recordVars, attempt, reinj, stop>>

Retry(n) == call[n] = "Transient" /\ RunnerRetries(n)

\* Cancellation comes out of the call whatever it was doing.
Result(n) ==
    /\ Settle(n) \/ Fail(n) \/ Retry(n) \/ RunnerCancelled(n)
    /\ call' = [call EXCEPT ![n] = "none"]
    /\ UNCHANGED <<files, before, budget, esc, blamed, upstream, writes, touched, wroteBy>>

\* What the executor does between the calls.
Schedule ==
    /\ Layer \/ Prepare \/ Join \/ Drain \/ Terminated
       \/ \E n \in Node : BlockNode(n)
    /\ UNCHANGED orchVars

\* An earlier run of the plan in hand: what was injected had been produced, and an
\* open record names the producer the plan gives, or one that was asked for later.
LeftBehind(run) ==
    /\ \A n \in Node : \A p \in run.deps[n] : run.st[p] = "Completed"
    /\ \A n \in Node : run.waitOpen[n] =>
          LET p == plan.producer[n] IN
          \/ run.waitOn[n] = p /\ p # NoNode
          \/ run.waitOn[n] \in plan.needs[n] /\ (p # NoNode => run.st[p] = "Completed")

\* RunAsync with a seedRun.
Resumed ==
    /\ Entry
    /\ \E run \in Seeds :
        /\ LeftBehind(run)
        /\ st = Seeded(run.st)
        /\ waitOn = run.waitOn /\ waitOpen = run.waitOpen /\ deps = run.deps

\* Fresh or resumed, RunAsync begins with empty hands, in the workspace as it is.
OrchInit ==
    /\ Init \/ Resumed
    /\ \E there \in Workspaces : files = [f \in File |-> IF f \in there THEN Old ELSE Absent]
    /\ before = [n \in Node |-> files]
    /\ call = [n \in Node |-> "none"]
    /\ budget = [n \in Node |-> NodeMaxSteps]
    /\ esc = [n \in Node |-> 0]
    /\ blamed = [n \in Node |-> {}]
    /\ upstream = {}
    /\ writes = Old
    /\ earlier = {n \in Node : st[n] = "Completed"}
    /\ touched = [n \in Node |-> {}]
    /\ wroteBy = [f \in File |-> NoNode]

OrchNext ==
    /\ \/ Schedule
       \/ \E n \in Node :
            \/ BeginCall(n) \/ Result(n)
            \/ \E f \in File : Write(n, f)
            \/ AttemptGreen(n) \/ AttemptOutside(n) \/ AttemptRepeated(n)
            \/ AttemptEmpty(n) \/ AttemptFailed(n)
    /\ UNCHANGED earlier

OrchSpec == OrchInit /\ [][OrchNext]_allVars /\ WF_allVars(OrchNext)

-----------------------------------------------------------------------------
\* Properties.

OrchTypeOK ==
    /\ TypeOK
    /\ files \in [File -> 0..MaxWrites]
    /\ before \in [Node -> [File -> 0..MaxWrites]]
    /\ call \in [Node -> {"none", "attempt", "Completed", "Failed", "Transient"}]
    /\ budget \in [Node -> 1..MaxNodeBudget]
    /\ esc \in [Node -> 0..MaxEscalations]
    /\ blamed \in [Node -> SUBSET {"out_of_scope", "no_artifact"}]
    /\ upstream \subseteq Node
    /\ writes \in 0..MaxWrites
    /\ earlier \subseteq Node
    /\ touched \in [Node -> SUBSET File]
    /\ wroteBy \in [File -> Node \cup {NoNode}]

\* EnforceScope: what a node wrote outside of its declared scope, in the call that
\* completed it, is not in the workspace any more.
OutOfScopeCaught ==
    \A n \in Node : st[n] = "Completed" /\ Scope[n] # {} =>
        \A f \in File \ Scope[n] :
            wroteBy[f] = n => files[f] \in {Absent, before[n][f]}

\* Every node declares a scope, and no two nodes the same file.
ScopesApart == \A n \in Node : Scope[n] # {} /\ \A m \in Node \ {n} : Scope[m] \cap Scope[n] = {}

\* The guard against a false green: when every node of a plan has completed, each
\* that did so in this run has worked in its own scope, whoever else worked at that
\* time and whatever the workspace held at the start.  Two things
\* can deceive it: a file that another node made there and deleted again, and one
\* made in an attempt that was retried, whose next snapshot holds it.
Deceived(n) ==
    \E f \in Scope[n], m \in Node \ {n} :
        f \in touched[m] /\ (files[f] = Absent \/ plan.retries[m] > 0)

GreenPlanIsReal ==
    ScopesApart /\ pc = "done" /\ (\A n \in Node : st[n] = "Completed")
        => \A n \in Node \ earlier : touched[n] \cap Scope[n] # {} \/ Deceived(n)

\* A violation that stays on record is one of a node that did not complete, and
\* the plan ends with the shard of that node: no drain and no level follows.
BlameEndsPlan ==
    \A n \in Node : blamed[n] # {} => st[n] # "Completed" /\ pc \in {"run", "done"}

\* While a node works, the output of each node it depends on that completed in this
\* run is in its hands.  What completed in an earlier run left no output here.
UpstreamHeld ==
    \A n \in Node : call[n] = "attempt" =>
        \A d \in plan.dependsOn[n] \ earlier :
            st[d] = "Completed" => d \in upstream \cup Quiet

\* The plan ends, however its nodes use their budgets.
PlanEnds == <>Over

-----------------------------------------------------------------------------
\* The inductive invariant behind these properties (OrchestratorProofs).

\* A call is under way, or has a result to hand over, only while its task awaits it.
CallStates == \A n \in Node : call[n] # "none" => task[n] = "run"

\* The call of n has succeeded.
Succeeded(n) == st[n] = "Completed" \/ call[n] = "Completed"

OutputsKept == \A n \in Node \ earlier : Succeeded(n) => n \in upstream \cup Quiet

ScopesJudged ==
    \A n \in Node : Succeeded(n) /\ Scope[n] # {} =>
        \A f \in File \ Scope[n] : wroteBy[f] = n => files[f] \in {Absent, before[n][f]}

\* From the blame to the end of the plan.
BlameStates ==
    \A n \in Node : blamed[n] # {} =>
        \/ call[n] = "Failed"
        \/ st[n] \in Lost /\ (pc = "done" \/ (pc = "run" /\ stop /\ task[n] = "end"))

\* Stamps are those of the writes; a file is there because of who wrote it last, or
\* it was there at the start and nobody has touched it.
StampStates ==
    \A f \in File :
        /\ files[f] <= writes /\ \A n \in Node : before[n][f] <= writes
        /\ files[f] # Absent =>
              \/ wroteBy[f] \in Node /\ f \in touched[wroteBy[f]]
              \/ /\ wroteBy[f] = NoNode
                 /\ \A n \in Node : before[n][f] = files[f] /\ f \notin touched[n]

\* A node that is not retried is called once; what it wrote is not in its snapshot.
CalledOnce ==
    \A n \in Node : plan.retries[n] = 0 =>
        /\ task[n] \notin {"backoff", "again"}
        /\ touched[n] # {} =>
              \/ st[n] \in {"Running", "Completed"}
              \/ st[n] \in Lost /\ (pc = "done" \/ (pc = "run" /\ stop /\ task[n] = "end"))
        /\ \A f \in File : files[f] # Absent /\ wroteBy[f] = n => files[f] > before[n][f]

\* Someone has worked where a node that succeeded was to work.
ArtifactsSeen ==
    \A n \in Node \ earlier : Succeeded(n) /\ Scope[n] # {} =>
        \E f \in Scope[n], m \in Node : f \in touched[m]

OrchInv ==
    /\ OrchTypeOK
    /\ CallStates
    /\ OutputsKept
    /\ ScopesJudged
    /\ BlameStates
    /\ StampStates
    /\ CalledOnce
    /\ ArtifactsSeen
===============================================================================
