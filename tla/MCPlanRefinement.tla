--------------------------- MODULE MCPlanRefinement ---------------------------
(***************************************************************************)
(* Plans of three nodes, serial or not, with declared dependencies and with *)
(* those that a node discovers while it runs.                              *)
(***************************************************************************)
EXTENDS MCPlanScheduler, PlanRefinement

\* At most one node names a producer.
FewProducers == {p \in ProducerChoices : Cardinality({n \in 1..N : p[n] # 0}) <= 1}

\* One node needs one, itself included, or two nodes need each other.
FewNeeds ==
    {[n \in 1..N |-> IF n = k THEN {m} ELSE {}] : k, m \in 1..N}
    \cup {[n \in 1..N |-> IF n \in {k, m} THEN {k, m} \ {n} ELSE {}] : k, m \in 1..2}

DiscoveringPlans ==
    UNION {PlansOver(FewProducers, FewNeeds, {{}}, {{}, {1}}, {{}}, par, 1) : par \in {1, 2}}

ExecutorPlans == StaticPlans \cup DiscoveringPlans
=============================================================================
