------------------------------ MODULE MCStaging ------------------------------
(***************************************************************************)
(* Two sessions and a batch of two files, or two batches of a file each.   *)
(***************************************************************************)
EXTENDS Staging, TLC

CONSTANT p1

Alike == Permutations(Session) \cup Permutations(Batch)

\* The second file exists, the first may be new.
WithOrWithout == {[p \in Path |-> IF p = p1 THEN t ELSE CHOOSE u \in UserText : TRUE] :
                    t \in {Absent} \cup UserText}

\* ApprovalController: under the lock the file is compared with the baseline of
\* the batch; unless they are equal it is a conflict, and nothing is overwritten.
OnlyOnBaseline ==
    [][\A s \in Session :
        job[s].step \in {"lock", "compare"} /\ job'[s].step = "write"
            => files[job[s].path] = base[job[s].batch][job[s].path]]_vars

\* StagedFileStore: the next session that opens finds the pending batches again;
\* staging in two instances at the same time is safe.
PendingRecoverable ==
    \A s \in Session, b \in Batch :
        mem[s][b].status = "pending" => index[b].status # "none"
=============================================================================
