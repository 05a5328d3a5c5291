------------------------------ MODULE LineMerge ------------------------------
(***************************************************************************)
(* ThreeWayLineMerge: two edits of one text are put together line by line. *)
(* A text is a sequence of lines.  What a side changed is a set of hunks,  *)
(* the gaps between the lines it has in common with the base; hunks that   *)
(* overlap are a conflict unless both sides put the same lines there.      *)
(***************************************************************************)
EXTENDS Naturals, Sequences, SequencesExt, FiniteSetsExt

(***************************************************************************)
(* The lines in common: the anchors of a longest common subsequence.       *)
(***************************************************************************)

\* dp[i, j]: the length of a longest common subsequence of a and b after their
\* first i and j lines.
CommonLength(a, b) ==
    LET dp[i \in 0..Len(a), j \in 0..Len(b)] ==
            IF i = Len(a) \/ j = Len(b) THEN 0
            ELSE IF a[i + 1] = b[j + 1] THEN dp[i + 1, j + 1] + 1
            ELSE Max({dp[i + 1, j], dp[i, j + 1]})
    IN  dp

\* Of two ways to skip a line the one in a is taken first.
SkipsFirst(a, b, p) ==
    LET dp == CommonLength(a, b) IN dp[p[1] + 1, p[2]] >= dp[p[1], p[2] + 1]

\* The pairs of positions at which a and b agree, in order, from where p[1] lines
\* of a and p[2] of b have been passed.
AnchorsFrom(a, b) ==
    LET from[p \in (0..Len(a)) \X (0..Len(b))] ==
            IF p[1] = Len(a) \/ p[2] = Len(b) THEN <<>>
            ELSE IF a[p[1] + 1] = b[p[2] + 1]
                 THEN <<<<p[1] + 1, p[2] + 1>>>> \o from[<<p[1] + 1, p[2] + 1>>]
            ELSE IF SkipsFirst(a, b, p) THEN from[<<p[1] + 1, p[2]>>]
            ELSE from[<<p[1], p[2] + 1>>]
    IN  from

Anchors(a, b) == AnchorsFrom(a, b)[<<0, 0>>]

\* The anchors between the beginning and the end of both texts.  (A set of this one
\* sequence: TLC computes it once.)
Frames(base, side) ==
    {<<<<0, 0>>>> \o Anchors(base, side) \o <<<<Len(base) + 1, Len(side) + 1>>>>}

\* What a side has instead of the lines from + 1 .. to of the base, between the
\* anchors k and k + 1.
Gap(at, side, which, k) ==
    [side |-> which, from |-> at[k][1], to |-> at[k + 1][1] - 1,
     lines |-> SubSeq(side, at[k][2] + 1, at[k + 1][2] - 1)]

\* The gaps that are not empty on both sides.
Hunks(base, side, which) ==
    UNION {{h \in {Gap(at, side, which, k) : k \in 1..Len(at) - 1} :
              h.from < h.to \/ h.lines # <<>>} : at \in Frames(base, side)}

(***************************************************************************)
(* Putting the hunks together.                                             *)
(***************************************************************************)

\* Two stretches of the base meet. An insertion at the border of a stretch does
\* not meet it; two insertions meet at the same point.
Overlaps(aStart, aEnd, bStart, bEnd) ==
    IF aStart = aEnd /\ bStart = bEnd THEN aStart = bStart
    ELSE IF aStart = aEnd THEN bStart < aStart /\ aStart < bEnd
    ELSE IF bStart = bEnd THEN aStart < bStart /\ bStart < aEnd
    ELSE Max({aStart, bStart}) < Min({aEnd, bEnd})

Before(g, h) == g.from < h.from \/ (g.from = h.from /\ g.to < h.to)

\* The hunks in order. Which of two hunks of the same stretch comes first is
\* left open by the sort.
Sorted(hunks) ==
    {hs \in SetToSeqs(hunks) : \A i, j \in DOMAIN hs : i < j => ~Before(hs[j], hs[i])}

\* The lines that one side has in the hunks at the positions C of hs, in order.
LinesOf(hs, C, which) ==
    FlattenSeq([j \in 1..Len(hs) |-> IF j \in C /\ hs[j].side = which THEN hs[j].lines ELSE <<>>])

\* How far the hunks at the positions C reach.
End(hs, C) == Max({hs[j].to : j \in C})

\* To whose cluster the k-th hunk belongs when the one before it belongs to that of
\* the h-th: it meets what that cluster covers so far, or it begins one of its own.
Headed(hs, k) ==
    [h \in 0..k - 1 |->
        IF h > 0 /\ Overlaps(hs[h].from, End(hs, h..k - 1), hs[k].from, hs[k].to) THEN h ELSE k]

\* The position of the first hunk of the cluster of each hunk.
Heads(hs) ==
    LET head[k \in 0..Len(hs)] == IF k = 0 THEN 0 ELSE Headed(hs, k)[head[k - 1]]
    IN  head

\* The merged text, and whether it is without a conflict: before each cluster the
\* lines of the base since the one before, then the lines of a side that changed
\* something there; at last the rest of the base.
Joined(base, hs) ==
    LET head == Heads(hs)
        n == Len(hs)
        cluster(i) == {j \in 1..n : head[j] = i}
        sides(i) == {hs[j].side : j \in cluster(i)}
        agree(i) == LinesOf(hs, cluster(i), "ours") = LinesOf(hs, cluster(i), "theirs")
        chosen(i) == LinesOf(hs, cluster(i), IF "ours" \in sides(i) THEN "ours" ELSE "theirs")
        pos(i) == IF i = 1 THEN 0 ELSE End(hs, 1..i - 1)
        part(i) == IF i > n THEN SubSeq(base, pos(i) + 1, Len(base))
                   ELSE IF head[i] = i THEN SubSeq(base, pos(i) + 1, hs[i].from) \o chosen(i)
                   ELSE <<>>
    IN  [lines |-> FlattenSeq([i \in 1..n + 1 |-> part(i)]),
         clean |-> \A i \in 1..n : sides(i) = {"ours", "theirs"} => agree(i)]

\* What a merge can give.
Merges(base, ours, theirs) ==
    {Joined(base, hs) : hs \in Sorted(Hunks(base, ours, "ours") \cup Hunks(base, theirs, "theirs"))}
=============================================================================
