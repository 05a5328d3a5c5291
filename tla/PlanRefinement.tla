--------------------------- MODULE PlanRefinement ---------------------------
(***************************************************************************)
(* PlanScheduler implements PlanContract.                                  *)
(***************************************************************************)
EXTENDS PlanScheduler

\* How far the work of a node has come.
Work ==
    [n \in Node |-> IF st[n] = "Running" THEN "busy"
                    ELSE IF st[n] = "Completed" THEN "done" ELSE "open"]

Contract == INSTANCE PlanContract
            WITH Nodes <- Node, None <- NoNode,
                 input <- plan.producer, work <- Work, over <- Over

\* The executor keeps the promise: every step of it is one of the contract's,
\* or changes nothing the contract speaks of.
ImplementsContract == Contract!Spec
=============================================================================
