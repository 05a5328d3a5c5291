---------------------------- MODULE PlanContract ----------------------------
(***************************************************************************)
(* What ExecuteAsync promises to its callers, whatever its schedule: a     *)
(* node's work is begun only when the work it reads from is done, done     *)
(* work is never begun again, and when the call returns nothing is being   *)
(* worked on.                                                              *)
(***************************************************************************)
CONSTANTS
    Nodes,  \* the nodes of a plan
    None    \* "reads from no node"

VARIABLES
    input,  \* the node whose output a node reads, or None
    work,   \* the work of each node: "open", "busy" or "done"
    over    \* the call has returned

contractVars == <<input, work, over>>

Init ==
    /\ input \in [Nodes -> Nodes \cup {None}]
    /\ work = [n \in Nodes |-> "open"]
    /\ over = FALSE

Turn(n, from, to) ==
    /\ ~over
    /\ work[n] = from
    /\ work' = [work EXCEPT ![n] = to]
    /\ UNCHANGED <<input, over>>

\* The work of a node begins.
Begin(n) ==
    /\ Turn(n, "open", "busy")
    /\ input[n] # None => work[input[n]] = "done"

\* It is done, once and for all.
Complete(n) == Turn(n, "busy", "done")

\* It failed, was skipped or has to wait: it may begin again.
Release(n) == Turn(n, "busy", "open")

\* The call returns.
Return ==
    /\ ~over
    /\ \A n \in Nodes : work[n] # "busy"
    /\ over' = TRUE
    /\ UNCHANGED <<input, work>>

Next == Return \/ \E n \in Nodes : Begin(n) \/ Complete(n) \/ Release(n)

Spec == Init /\ [][Next]_contractVars
=============================================================================
