---------------------------- MODULE MCPlanClaims ----------------------------
(***************************************************************************)
(* Statements of the comments, docs and tests about the plan executor that *)
(* TLC refutes on PlanScheduler, and the plans it refutes them with.       *)
(***************************************************************************)
EXTENDS MCPlanScheduler

\* One node at a time: TaskPlan.MaxParallelism = 1.
SerialPlans == PlansOver(ProducerChoices, NoNeeds, {{}}, {{}}, {{}}, 1, 0)

\* Nodes that find out while they run that they need the output of another.
MutualPlans ==
    PlansOver({[n \in 1..N |-> 0]}, {[n \in 1..N |-> (1..N) \ {n}]}, {{}}, {{}}, {{}}, 2, 0)

\* TaskPlan: "1 = wholly serial, equivalent to the old behaviour"; the test of
\* the runtime waits: "a budget of 1 does not deadlock either".  No execution
\* of a plan ends with an exception of the executor's own.
NeverThrows == pc # "thrown"

\* TaskPlanRunState.Finished: every node is in a final state; here, where
\* nothing failed, no node was passed over.
FinishedRanAll ==
    pc = "done" /\ runState = "Finished" /\ (\A n \in Node : st[n] # "Failed")
        => \A n \in Node : st[n] # "Pending"

\* ResolveDeferredOnTermination: when a plan ends early no node is left in a
\* dangling Waiting.
NoDanglingWait ==
    pc = "done" /\ (\E n \in Node : st[n] = "Failed") => \A n \in Node : st[n] # "Waiting"

\* ExecuteAsync: a cancel instruction ends the plan at once and marks the nodes
\* that have not completed Skipped.
CancelSkipsTheRest ==
    pc = "done" /\ runState = "Cancelled"
        => \A n \in Node : st[n] \in {"Completed", "Failed", "Skipped"}

\* SaveCheckpoint: the states of the nodes are saved at the end of each batch
\* and when the plan has come to its end.
CheckpointFinal == pc = "done" => ckpt = st

\* PlanNode.RuntimeDeps: a declared dependency means the same as one found at
\* run time, its output must be waited for.
DeclaredDependenciesCompleted ==
    \A n \in Active : \A d \in plan.dependsOn[n] : st[d] = "Completed"
=============================================================================
