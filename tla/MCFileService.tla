---------------------------- MODULE MCFileService ----------------------------
(***************************************************************************)
(* Two authors of a file; two files with a common backup store.            *)
(***************************************************************************)
EXTENDS FileService, TLC

CONSTANTS c1, c2, p1, p2

\* Every text of at most k of the lines.
Texts(lines, k) == UNION {[1..n -> lines] : n \in 0..k}

Start == [p \in Path |-> IF p = p1 THEN <<1>> ELSE Absent]

\* What an author can do, unless a scenario says otherwise.
Default ==
    [paths |-> {p1}, disk |-> Start, user |-> {}, ways |-> Ways, restores |-> FALSE,
     keep |-> 1, requireBackup |-> TRUE, allowMerge |-> TRUE, maxLines |-> 3,
     upsets |-> 0, faults |-> 0]

Authors(of1, of2, calls1, calls2) ==
    [edits |-> (c1 :> of1 @@ c2 :> of2), calls |-> (c1 :> calls1 @@ c2 :> calls2)]

\* Both authors edit a text of two lines at will, and say what they saw.
Editing ==
    {[disk |-> [Start EXCEPT ![p1] = <<1, 2>>], ways |-> {"conditional"}, maxLines |-> k]
     @@ Authors(Texts({1, 2, 3}, 3), {<<1, 4, 2>>, <<4, 1, 2>>, <<1, 2, 4>>, <<2>>, <<3>>}, 1, 1)
     @@ Default : k \in {2, 3}}

\* They save one of a few texts, in all ways, and restore backups; the user and
\* failures come in between.
Saving ==
    {[requireBackup |-> (k = 1), keep |-> k, restores |-> TRUE,
      user |-> {<<1>>, Absent, Binary}, upsets |-> 1, faults |-> 1]
     @@ Authors({<<1>>, <<1, 2>>}, {<<2, 1>>}, 2, 1) @@ Default : k \in {1, 2}}

\* Two files, and their backups in one store.
TwoFiles ==
    [paths |-> {p1, p2}, disk |-> [p \in Path |-> <<1>>], allowMerge |-> FALSE,
     ways |-> {"remembered", "unconditional"}]
    @@ Authors({<<1>>, <<2>>}, {<<2>>}, 2, 2) @@ Default

CommonScenarios == Editing \cup Saving \cup {TwoFiles}

\* FileEditResult.BackupPath: what a write replaces has been backed up, always
\* (here with an older backup of equal contents, too).
BackupWheneverWritten ==
    \A c \in Client :
        at[c] = "move" /\ list[c] # None /\ ~raced[c] /\ ~stale => based[c] \in blobs

\* Prune deletes the blobs that nothing refers to, and no others.
OnlyUnreferencedDeleted == \A r \in index : r.text \in blobs
=============================================================================
