--------------------------- MODULE MCSearchFailover ---------------------------
(***************************************************************************)
(* Three providers, one of which needs a key.                              *)
(***************************************************************************)
EXTENDS SearchFailover, TLC

CONSTANTS free1, free2, keyed

Priorities == <<free1, free2, keyed>>

Alike == Permutations(Search)

\* Rule 3: a primary that has failed as often as the threshold says has its
\* circuit opened.
FailingPrimaryIsOpen ==
    [][\A s \in Search :
        At(s, "record") /\ task'[s].step = "check" /\ IsPrimary(task[s].cur)
            /\ fails'[task[s].cur] = Threshold
        => circuit'[task[s].cur] = "open"]_vars

\* PromoteNextAvailable: the primary is demoted when its circuit has opened.
OnlyOpenIsDemoted ==
    [][restarts' = restarts /\ slots' # slots => circuit[Head(slots)] = "open"]_vars

\* EnsureProvidersConfigured: an answer of the user takes effect at once, in this
\* session.
AnswerTakesEffect ==
    \A s \in Search : At(s, "walk") => configured \subseteq ToSet(slots)

\* Rule 4: the order of the slots is saved and used at the next start.
OrderIsSaved ==
    (\A s \in Search : At(s, "idle")) /\ disk \notin {Missing, Torn} => disk = slots
===============================================================================
