---------------------------- MODULE MCPlanResume ----------------------------
(***************************************************************************)
(* Plans of two nodes, one of which may have to be asked about.            *)
(***************************************************************************)
EXTENDS PlanResume

Level(l) == [n \in Node |-> IF n = 1 THEN 0 ELSE l]
\* A node of level 1 depends on the first node.
Depends(l) == [n \in Node |-> IF Level(l)[n] = 0 THEN {} ELSE {1}]

ResumePlan(l, p, sensitive, unclear) ==
    [level |-> Level(l), dependsOn |-> Depends(l), producer |-> p,
     needs |-> [n \in Node |-> {}], sensitive |-> sensitive, unclear |-> unclear,
     blocked |-> {}, par |-> 2, retries |-> [n \in Node |-> 0]]

Producers == {p \in [Node -> {0, 1, 2}] : \A n \in Node : p[n] # n}

ResumePlans ==
    {ResumePlan(l, p, s, u) : l \in {0, 1}, p \in Producers,
                              s \in {{}, {N}}, u \in SUBSET Node}
=============================================================================
