--------------------------- MODULE MCResumeClaims ---------------------------
(***************************************************************************)
(* Statements of the comments and tests about paused plans that TLC        *)
(* refutes on PlanResume.                                                  *)
(***************************************************************************)
EXTENDS MCPlanResume

\* ExecuteAsync, seedRun: completed nodes are not run again, running them again
\* repeats their side effects.
NeverRunTwice == \A i \in PlanIds : \A n \in Node : effects[i][n] <= 1

\* TryLoad: Finished with a node that waits for an answer is not "task done"
\* but "waiting for your answer": the turn leaves the user a way to answer.
QuestionKept ==
    [][turn = "resumed" /\ turn' = "idle" /\ pc = "done" /\ Asking # {}
          /\ (\A n \in Node : st[n] # "Failed")
        => store' # NoCheckpoint]_allVars

\* TryLoad: a cancelled run was given up by the user and is not resumed.
CancelledNotResumed ==
    [][turn = "idle" /\ turn' = "resumed" /\ planId' = planId => runState # "Cancelled"]_allVars

\* PlanResumeTests: resumed from a checkpoint, a waiting node reads the real
\* output and the wait ledger is closed.
LedgerCloses ==
    turn = "idle" /\ pc = "done" => \A n \in Node : st[n] = "Completed" => ~waitOpen[n]

\* ExecuteAsync: a cancel instruction ends the plan at once (it does not end the
\* call with an exception).
CancelNeverThrows == pc # "thrown"
=============================================================================
