---------------------------- MODULE MCOrchestrator ----------------------------
(***************************************************************************)
(* Two nodes with a file each as declared scope, side by side or one after *)
(* the other.                                                              *)
(***************************************************************************)
EXTENDS Orchestrator

OwnFile == [n \in Node |-> {n}]

WorkPlan(l, p, blocked, again) ==
    [level |-> [n \in Node |-> IF n = 1 THEN 0 ELSE l],
     dependsOn |-> [n \in Node |-> IF n = 1 \/ l = 0 THEN {} ELSE {1}],
     producer |-> p, needs |-> [n \in Node |-> {}], sensitive |-> {},
     unclear |-> {}, blocked |-> blocked, par |-> 2,
     retries |-> [n \in Node |-> IF n \in again THEN 1 ELSE 0]]

\* Runs to go on from: the one of the tests (the first node has completed, the second
\* was under way), one whose second node was waiting for the first when it stopped, one
\* cancelled after the first node, and a failed one.
Seed(s, waits) ==
    [st |-> s, waitOn |-> [n \in Node |-> IF n \in waits THEN 1 ELSE NoNode],
     waitOpen |-> [n \in Node |-> n \in waits], deps |-> [n \in Node |-> {}]]

EarlierRuns ==
    {Seed(<<"Completed", "Running">>, {}), Seed(<<"Completed", "Waiting">>, {2}),
     Seed(<<"Completed", "Skipped">>, {}), Seed(<<"Failed", "Skipped">>, {})}

\* Nothing, or what the first node was to make.
EmptyOrNot == {{}, {1}}

NoProducer == [n \in Node |-> NoNode]

\* Side by side or in sequence, with a producer in the text or not, the second
\* node refuted or not; and with an attempt more for each node of a sequence,
\* or for one of two side by side.
WorkPlans ==
    {WorkPlan(l, p, b, {}) : l \in {0, 1}, b \in {{}, {2}},
        p \in {NoProducer, [n \in Node |-> IF n = 2 THEN 1 ELSE NoNode]}}
    \cup {WorkPlan(1, NoProducer, {}, Node), WorkPlan(0, NoProducer, {}, {1})}

\* EnforceScope: a node that wrote outside of its declared scope fails; one that
\* did not is not accused of it.
InnocentNotBlamed ==
    \A n \in Node : "out_of_scope" \in blamed[n] => ~(touched[n] \subseteq Scope[n])

\* The same statement for the whole run: what a node wrote outside of its scope
\* does not outlive the node as completed, in whatever attempt it was written.
NothingOutsideStays ==
    \A n \in Node : st[n] = "Completed" /\ Scope[n] # {} =>
        \A f \in File \ Scope[n] : wroteBy[f] = n => files[f] = Absent

\* RemoteNodeRunner, of its parameter upstream: the outputs of the completed nodes that
\* the node depends on.  ExecuteAsync, where it takes over a seedRun: the outputs of
\* completed nodes are there already.
ResumedInputsHeld ==
    \A n \in Node : call[n] = "attempt" =>
        \A d \in plan.dependsOn[n] : st[d] = "Completed" => d \in upstream \cup Quiet
===============================================================================
