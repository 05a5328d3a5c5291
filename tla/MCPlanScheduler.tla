--------------------------- MODULE MCPlanScheduler ---------------------------
(***************************************************************************)
(* Small families of plans for PlanScheduler.                              *)
(***************************************************************************)
EXTENDS PlanScheduler

\* Every way of levelling the nodes 1..N contiguously from level 0.
Levellings ==
    {l \in [1..N -> 0..N - 1] :
        /\ l[1] = 0
        /\ \A n \in 1..N - 1 : l[n + 1] \in {l[n], l[n] + 1}}

\* A node above level 0 depends on one node of the level below it or on all.
DependencyChoices(l) ==
    {d \in [1..N -> SUBSET (1..N)] :
        \A n \in 1..N :
            LET below == {m \in 1..N : l[m] = l[n] - 1} IN
            d[n] \in {below} \cup {{m} : m \in below}}

\* The nodes named by the text of a node: one at most, never itself.
ProducerChoices == {p \in [1..N -> 0..N] : \A n \in 1..N : p[n] # n}

Plan(l, d, p, needs, sensitive, unclear, blocked, par, retries) ==
    [level |-> l, dependsOn |-> d, producer |-> p, needs |-> needs,
     sensitive |-> sensitive, unclear |-> unclear, blocked |-> blocked,
     par |-> par, retries |-> [n \in 1..N |-> retries]]

\* The plans built from the given choices over every shape.
PlansOver(producers, needs, sensitive, unclear, blocked, par, retries) ==
    UNION {UNION {
        {Plan(l, d, p, q, s, u, b, par, retries) :
            p \in producers, q \in needs, s \in sensitive, u \in unclear, b \in blocked}
        : d \in DependencyChoices(l)} : l \in Levellings}

NoNeeds == {[n \in 1..N |-> {}]}
AtMostOne == {{}} \cup {{n} : n \in 1..N}

\* Declared producers only: what FindProducer reads in the text of a node.
StaticPlans ==
    PlansOver(ProducerChoices, NoNeeds, {{}, {N}}, AtMostOne, {{}, {2}}, 2, 1)
=============================================================================
