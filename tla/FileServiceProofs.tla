-------------------------- MODULE FileServiceProofs --------------------------
(***************************************************************************)
(* FileService keeps its safety properties for all clients, files, texts   *)
(* and scenarios.                                                          *)
(***************************************************************************)
EXTENDS FileService, ListLemmas, FiniteSetTheorems, TLAPS

-----------------------------------------------------------------------------
\* The merge: anchors, frames, hunks and what they leave of a text.

\* What is passed of two texts, and what is left.
Passed(a, b) == (0..Len(a)) \X (0..Len(b))
Positions(a, b) == (1..Len(a)) \X (1..Len(b))
Left(a, b, p) == (Len(a) - p[1]) + (Len(b) - p[2])

\* AnchorsFrom satisfies its equation: each call of it is of a place with less left.
LEMMA AnchorsEquation ==
  ASSUME NEW L, NEW a \in Seq(L), NEW b \in Seq(L)
  PROVE  \A p \in Passed(a, b) :
            AnchorsFrom(a, b)[p] =
                IF p[1] = Len(a) \/ p[2] = Len(b) THEN <<>>
                ELSE IF a[p[1] + 1] = b[p[2] + 1]
                     THEN <<<<p[1] + 1, p[2] + 1>>>> \o AnchorsFrom(a, b)[<<p[1] + 1, p[2] + 1>>]
                ELSE IF SkipsFirst(a, b, p) THEN AnchorsFrom(a, b)[<<p[1] + 1, p[2]>>]
                ELSE AnchorsFrom(a, b)[<<p[1], p[2] + 1>>]
<1> DEFINE D == Passed(a, b)
           X == Seq(Positions(a, b))
           n == Len(a) + Len(b)
           rank == [p \in D |-> Left(a, b, p)]
           Body(p, f) == IF p[1] = Len(a) \/ p[2] = Len(b) THEN <<>>
                         ELSE IF a[p[1] + 1] = b[p[2] + 1]
                              THEN <<<<p[1] + 1, p[2] + 1>>>> \o f[<<p[1] + 1, p[2] + 1>>]
                         ELSE IF SkipsFirst(a, b, p) THEN f[<<p[1] + 1, p[2]>>]
                         ELSE f[<<p[1], p[2] + 1>>]
           g == [p \in D |-> [f \in [D -> X] |-> Body(p, f)]]
<1>1. n \in Nat /\ Len(a) \in Nat /\ Len(b) \in Nat
  OBVIOUS
<1>2. rank \in [D -> 0..n]
  BY DEF Passed, Left
<1>3. ASSUME NEW p \in D, ~(p[1] = Len(a) \/ p[2] = Len(b))
      PROVE  /\ <<p[1] + 1, p[2] + 1>> \in Positions(a, b)
             /\ <<p[1] + 1, p[2] + 1>> \in D /\ rank[<<p[1] + 1, p[2] + 1>>] < rank[p]
             /\ <<p[1] + 1, p[2]>> \in D /\ rank[<<p[1] + 1, p[2]>>] < rank[p]
             /\ <<p[1], p[2] + 1>> \in D /\ rank[<<p[1], p[2] + 1>>] < rank[p]
  BY SMTT(30), <1>1, <1>3 DEF Passed, Positions, Left
<1>4. ASSUME NEW p \in D, NEW f \in [D -> X] PROVE Body(p, f) \in X
  <2>1. CASE p[1] = Len(a) \/ p[2] = Len(b)
    <3>1. <<>> \in X
      OBVIOUS
    <3> QED
      BY <2>1, <3>1
  <2>2. CASE ~(p[1] = Len(a) \/ p[2] = Len(b))
    <3> DEFINE pair == <<p[1] + 1, p[2] + 1>>
    <3>1. pair \in Positions(a, b) /\ pair \in D
      BY <1>3, <2>2
    <3>2. f[pair] \in X /\ f[<<p[1] + 1, p[2]>>] \in X /\ f[<<p[1], p[2] + 1>>] \in X
      BY <1>3, <2>2
    <3> HIDE DEF pair
    <3>3. <<pair>> \o f[pair] \in X
      BY <3>1, <3>2
    <3> QED
      BY <2>2, <3>2, <3>3 DEF pair
  <2> QED
    BY <2>1, <2>2
<1>5. g \in [D -> [[D -> X] -> X]]
  BY <1>4
<1>6. ASSUME NEW p \in D, NEW u \in [D -> X], NEW v \in [D -> X],
             \A y \in D : rank[y] < rank[p] => u[y] = v[y]
      PROVE  g[p][u] = g[p][v]
  BY <1>3, <1>6
<1>7. X # {}
  <2>1. <<>> \in X
    OBVIOUS
  <2> QED
    BY <2>1
<1> HIDE DEF D, X, n, rank
<1>8. \A p \in D, f \in [D -> X] : g[p][f] = Body(p, f)
  OBVIOUS
<1> HIDE DEF g, Body
<1>14. \A p \in D : \A u, v \in [D -> X] :
          (\A y \in D : rank[y] < rank[p] => u[y] = v[y]) => g[p][u] = g[p][v]
  BY <1>6
<1>15. Ranked(D, X, rank, g)
  BY <1>5, <1>14 DEF Ranked
<1>9. Solutions(D, X, g) # {}
  BY <1>1, <1>2, <1>15, <1>7, RankedRecursion
<1>10. PICK w \in [D -> X] : \A p \in D : w[p] = Body(p, w)
  BY <1>8, <1>9 DEF Solutions
<1> USE DEF Body
<1>11. w = [p \in (0..Len(a)) \X (0..Len(b)) |-> Body(p, w)]
  BY <1>10 DEF D, Passed
<1>12. AnchorsFrom(a, b) = [p \in (0..Len(a)) \X (0..Len(b)) |-> Body(p, AnchorsFrom(a, b))]
  BY <1>11, Zenon DEF AnchorsFrom
<1> DEFINE A == AnchorsFrom(a, b)
<1> HIDE DEF A
<1>13. A = [p \in (0..Len(a)) \X (0..Len(b)) |-> Body(p, A)]
  BY <1>12 DEF A
<1>16. \A p \in Passed(a, b) : A[p] = Body(p, A)
  BY <1>13 DEF Passed
<1> QED
  BY <1>16 DEF A

\* Positions in both texts that increase, all after the place p.
Increasing(s, a, b, p) ==
    /\ s \in Seq(Positions(a, b))
    /\ \A k \in 1..Len(s) : p[1] < s[k][1] /\ p[2] < s[k][2]
    /\ \A j, k \in 1..Len(s) : j < k => s[j][1] < s[k][1] /\ s[j][2] < s[k][2]

\* A pair before increasing ones that come after it.
LEMMA IncreasingFirst ==
  ASSUME NEW L, NEW a \in Seq(L), NEW b \in Seq(L), NEW p \in Passed(a, b),
         NEW x \in Positions(a, b), p[1] < x[1], p[2] < x[2],
         NEW s, Increasing(s, a, b, x)
  PROVE  Increasing(<<x>> \o s, a, b, p)
<1> DEFINE t == <<x>> \o s
<1>1. s \in Seq(Positions(a, b)) /\ Len(s) \in Nat
      /\ \A k \in 1..Len(s) : s[k] \in Positions(a, b)
  BY DEF Increasing
<1>2. t \in Seq(Positions(a, b)) /\ Len(t) = Len(s) + 1 /\ t[1] = x
      /\ \A k \in 1..Len(t) : k # 1 => t[k] = s[k - 1]
  BY <1>1
<1> HIDE DEF t
<1>3. \A k \in 1..Len(t) : k # 1 => k - 1 \in 1..Len(s) /\ t[k] = s[k - 1]
  BY <1>1, <1>2
<1>4. p[1] \in Nat /\ p[2] \in Nat /\ x[1] \in Nat /\ x[2] \in Nat
      /\ \A k \in 1..Len(s) : s[k][1] \in Nat /\ s[k][2] \in Nat
  BY <1>1 DEF Passed, Positions
<1>5. \A k \in 1..Len(t) : p[1] < t[k][1] /\ p[2] < t[k][2]
  <2> SUFFICES ASSUME NEW k \in 1..Len(t) PROVE p[1] < t[k][1] /\ p[2] < t[k][2]
    OBVIOUS
  <2>1. CASE k = 1
    BY <1>2, <2>1
  <2>2. CASE k # 1
    <3>1. x[1] < s[k - 1][1] /\ x[2] < s[k - 1][2] /\ k - 1 \in 1..Len(s)
      BY <1>3, <2>2 DEF Increasing
    <3>2. s[k - 1][1] \in Nat /\ s[k - 1][2] \in Nat /\ t[k] = s[k - 1]
      BY <1>3, <1>4, <2>2, <3>1
    <3>3. p[1] < x[1] /\ p[2] < x[2]
      BY <1>4
    <3>4. p[1] < s[k - 1][1]
      BY <1>4, <3>1, <3>2, <3>3
    <3>5. p[2] < s[k - 1][2]
      BY <1>4, <3>1, <3>2, <3>3
    <3> QED
      BY <3>2, <3>4, <3>5
  <2> QED
    BY <2>1, <2>2
<1>6. ASSUME NEW j \in 1..Len(t), NEW k \in 1..Len(t), j < k
      PROVE  t[j][1] < t[k][1] /\ t[j][2] < t[k][2]
  <2>1. k # 1 /\ k - 1 \in 1..Len(s) /\ t[k] = s[k - 1]
    BY <1>3, <1>6
  <2>2. CASE j = 1
    BY <1>2, <2>1, <2>2 DEF Increasing
  <2>3. CASE j # 1
    <3>1. j - 1 \in 1..Len(s) /\ t[j] = s[j - 1] /\ j - 1 < k - 1
      BY <1>3, <1>6, <2>3
    <3> QED
      BY <2>1, <3>1 DEF Increasing
  <2> QED
    BY <2>2, <2>3
<1> QED
  BY <1>2, <1>5, <1>6 DEF Increasing, t

\* What comes after a place comes after those before it.
LEMMA IncreasingFrom ==
  ASSUME NEW a, NEW b, NEW p, NEW q, NEW s, Increasing(s, a, b, q),
         p[1] \in Nat, p[2] \in Nat, q[1] \in Nat, q[2] \in Nat, p[1] <= q[1], p[2] <= q[2],
         Len(a) \in Nat, Len(b) \in Nat
  PROVE  Increasing(s, a, b, p)
<1>1. ASSUME NEW k \in 1..Len(s) PROVE p[1] < s[k][1] /\ p[2] < s[k][2]
  <2>1. s[k] \in Positions(a, b)
    BY <1>1 DEF Increasing
  <2>2. s[k][1] \in Nat /\ s[k][2] \in Nat
    BY <2>1 DEF Positions
  <2>3. q[1] < s[k][1] /\ q[2] < s[k][2]
    BY <1>1 DEF Increasing
  <2> QED
    BY <2>2, <2>3
<1> QED
  BY <1>1 DEF Increasing

\* The anchors increase.
LEMMA AnchorsIncrease ==
  ASSUME NEW L, NEW a \in Seq(L), NEW b \in Seq(L)
  PROVE  Increasing(Anchors(a, b), a, b, <<0, 0>>)
<1> DEFINE A == AnchorsFrom(a, b)
           T == {m \in Nat : \A p \in Passed(a, b) : Left(a, b, p) < m => Increasing(A[p], a, b, p)}
<1>1. Len(a) \in Nat /\ Len(b) \in Nat
  OBVIOUS
<1>2. 0 \in T
  BY <1>1 DEF Passed, Left
<1>3. ASSUME NEW m \in Nat, m \in T PROVE m + 1 \in T
  <2> SUFFICES ASSUME NEW p \in Passed(a, b), Left(a, b, p) < m + 1
               PROVE  Increasing(A[p], a, b, p)
    OBVIOUS
  <2>1. A[p] = IF p[1] = Len(a) \/ p[2] = Len(b) THEN <<>>
               ELSE IF a[p[1] + 1] = b[p[2] + 1]
                    THEN <<<<p[1] + 1, p[2] + 1>>>> \o A[<<p[1] + 1, p[2] + 1>>]
               ELSE IF SkipsFirst(a, b, p) THEN A[<<p[1] + 1, p[2]>>]
               ELSE A[<<p[1], p[2] + 1>>]
    BY AnchorsEquation
  <2>2. CASE p[1] = Len(a) \/ p[2] = Len(b)
    BY <2>1, <2>2 DEF Increasing
  <2>3. CASE ~(p[1] = Len(a) \/ p[2] = Len(b))
    <3> DEFINE x == <<p[1] + 1, p[2] + 1>>
               y == <<p[1] + 1, p[2]>>
               z == <<p[1], p[2] + 1>>
    <3> HIDE DEF A
    <3>5. p[1] \in Nat /\ p[2] \in Nat
      BY <1>1 DEF Passed
    <3>6. x \in Positions(a, b) /\ p[1] < x[1] /\ p[2] < x[2]
      BY <1>1, <2>3 DEF Passed, Positions
    <3>7. /\ x \in Passed(a, b) /\ Left(a, b, x) < m
          /\ y \in Passed(a, b) /\ Left(a, b, y) < m
          /\ z \in Passed(a, b) /\ Left(a, b, z) < m
      BY SMTT(30), <1>1, <2>3 DEF Passed, Left
    <3>8. /\ y[1] \in Nat /\ y[2] \in Nat /\ p[1] <= y[1] /\ p[2] <= y[2]
          /\ z[1] \in Nat /\ z[2] \in Nat /\ p[1] <= z[1] /\ p[2] <= z[2]
      BY <3>5
    <3> HIDE DEF x, y, z
    <3>2. \A q \in {x, y, z} : Increasing(A[q], a, b, q)
      BY <1>3, <3>7
    <3>3. Increasing(<<x>> \o A[x], a, b, p)
      BY <3>2, <3>6, IncreasingFirst
    <3>4. ASSUME NEW q \in {y, z} PROVE Increasing(A[q], a, b, p)
      <4>1. Increasing(A[q], a, b, q) /\ q[1] \in Nat /\ q[2] \in Nat
            /\ p[1] <= q[1] /\ p[2] <= q[2]
        BY <3>2, <3>4, <3>8
      <4> QED
        BY <3>5, <4>1, IncreasingFrom
    <3> QED
      BY <2>1, <2>3, <3>3, <3>4 DEF x, y, z
  <2> QED
    BY <2>2, <2>3
<1> DEFINE o == <<0, 0>>
<1>4. o \in Passed(a, b) /\ Left(a, b, o) \in Nat /\ Left(a, b, o) < Left(a, b, o) + 1
  BY <1>1 DEF Passed, Left
<1> HIDE DEF T, o
<1>5. Left(a, b, o) + 1 \in T
  BY <1>2, <1>3, <1>4, SetInduction
<1> QED
  BY <1>4, <1>5 DEF T, o, Anchors

-----------------------------------------------------------------------------
\* The hunks.

Borders(base, side) == (0..Len(base) + 1) \X (0..Len(side) + 1)

\* What a side puts in place of a stretch of the base of n lines.
Hunk(L, n) == [side: {"ours", "theirs"}, from: 0..n, to: 0..n, lines: Seq(L)]

\* A frame goes from the beginning to the end of both texts.
LEMMA FrameShape ==
  ASSUME NEW L, NEW base \in Seq(L), NEW side \in Seq(L), NEW frame \in Frames(base, side)
  PROVE  /\ frame \in Seq(Borders(base, side)) /\ Len(frame) \in Nat /\ Len(frame) >= 2
         /\ frame[1] = <<0, 0>> /\ frame[Len(frame)] = <<Len(base) + 1, Len(side) + 1>>
         /\ \A j, k \in 1..Len(frame) :
               j < k => frame[j][1] < frame[k][1] /\ frame[j][2] < frame[k][2]
<1> DEFINE s == Anchors(base, side)
           o == <<0, 0>>
           e == <<Len(base) + 1, Len(side) + 1>>
           B == Borders(base, side)
           n == Len(s)
<1>1. Len(base) \in Nat /\ Len(side) \in Nat
  OBVIOUS
<1>2. Increasing(s, base, side, o)
  BY AnchorsIncrease
<1>3. o \in B /\ e \in B /\ e[1] = Len(base) + 1 /\ e[2] = Len(side) + 1 /\ o[1] = 0 /\ o[2] = 0
  BY <1>1 DEF Borders
<1>4. s \in Seq(B) /\ n \in Nat
  <2>1. Positions(base, side) \subseteq B
    BY <1>1 DEF Positions, Borders
  <2> QED
    BY <1>2, <2>1, SeqMonotonic DEF Increasing
<1>5. frame = <<o>> \o s \o <<e>>
  BY DEF Frames
<1>6. \A k \in 1..n : s[k][1] \in 1..Len(base) /\ s[k][2] \in 1..Len(side)
  BY <1>2 DEF Increasing, Positions
<1>7. \A j, k \in 1..n : j < k => s[j][1] < s[k][1] /\ s[j][2] < s[k][2]
  BY <1>2 DEF Increasing
<1> HIDE DEF s, o, e, B
<1>8. /\ frame \in Seq(B) /\ Len(frame) = n + 2
      /\ frame[1] = o /\ frame[n + 2] = e
      /\ \A k \in 1..n + 2 : k # 1 /\ k # n + 2 => k - 1 \in 1..n /\ frame[k] = s[k - 1]
  BY <1>3, <1>4, <1>5
<1>9. ASSUME NEW j \in 1..n + 2, NEW k \in 1..n + 2, j < k
      PROVE  frame[j][1] < frame[k][1] /\ frame[j][2] < frame[k][2]
  <2>1. CASE j = 1 /\ k = n + 2
    BY <1>1, <1>3, <1>8, <2>1
  <2>2. CASE j = 1 /\ k # n + 2
    <3>1. k - 1 \in 1..n /\ frame[k] = s[k - 1] /\ frame[j] = o
      BY <1>4, <1>8, <1>9, <2>2
    <3>2. s[k - 1][1] \in 1..Len(base) /\ s[k - 1][2] \in 1..Len(side)
      BY <1>6, <3>1
    <3>3. frame[j][1] = 0 /\ frame[j][2] = 0
      BY <1>3, <3>1
    <3>4. frame[k][1] > 0 /\ frame[k][2] > 0
      BY <1>1, <3>1, <3>2
    <3> QED
      BY <3>3, <3>4
  <2>3. CASE j # 1 /\ k = n + 2
    <3>1. j - 1 \in 1..n /\ frame[j] = s[j - 1] /\ frame[k] = e
      BY <1>4, <1>8, <1>9, <2>3
    <3>2. s[j - 1][1] \in 1..Len(base) /\ s[j - 1][2] \in 1..Len(side)
      BY <1>6, <3>1
    <3> QED
      BY <1>1, <1>3, <3>1, <3>2
  <2>4. CASE j # 1 /\ k # n + 2
    <3>1. j - 1 \in 1..n /\ frame[j] = s[j - 1] /\ k - 1 \in 1..n /\ frame[k] = s[k - 1] /\ j - 1 < k - 1
      BY <1>4, <1>8, <1>9, <2>4
    <3> QED
      BY <1>7, <3>1
  <2> QED
    BY <1>4, <1>9, <2>1, <2>2, <2>3, <2>4
<1>10. Len(frame) = n + 2 /\ n + 2 \in Nat /\ n + 2 >= 2
  BY <1>4, <1>8
<1>11. frame \in Seq(Borders(base, side)) /\ frame[1] = <<0, 0>>
       /\ frame[Len(frame)] = <<Len(base) + 1, Len(side) + 1>>
  BY <1>8 DEF o, e, B
<1> QED
  BY <1>9, <1>10, <1>11

\* A gap is a stretch of the base, and what the side has there.
LEMMA GapType ==
  ASSUME NEW L, NEW base \in Seq(L), NEW side \in Seq(L), NEW frame \in Frames(base, side),
         NEW which, NEW k \in 1..Len(frame) - 1
  PROVE  /\ Gap(frame, side, which, k)
               \in [side: {which}, from: 0..Len(base), to: 0..Len(base), lines: Seq(L)]
         /\ Gap(frame, side, which, k).from <= Gap(frame, side, which, k).to
<1>1. Len(base) \in Nat /\ Len(side) \in Nat
  OBVIOUS
<1> DEFINE x == frame[k]
           y == frame[k + 1]
<1>2. x \in Borders(base, side) /\ y \in Borders(base, side) /\ x[1] < y[1] /\ x[2] < y[2]
  <2>1. /\ frame \in Seq(Borders(base, side)) /\ Len(frame) \in Nat
        /\ \A i, j \in 1..Len(frame) :
              i < j => frame[i][1] < frame[j][1] /\ frame[i][2] < frame[j][2]
    BY FrameShape
  <2>2. k \in 1..Len(frame) /\ k + 1 \in 1..Len(frame) /\ k < k + 1
    BY <2>1
  <2> QED
    BY <2>1, <2>2
<1> HIDE DEF x, y
<1>3. /\ x[1] \in 0..Len(base) /\ y[1] - 1 \in 0..Len(base) /\ x[1] <= y[1] - 1
      /\ x[2] + 1 \in Int /\ y[2] - 1 \in Int
      /\ \A i \in x[2] + 1..y[2] - 1 : i \in 1..Len(side)
  BY <1>1, <1>2 DEF Borders
<1>4. SubSeq(side, x[2] + 1, y[2] - 1) \in Seq(L)
  <2>1. \A i \in x[2] + 1..y[2] - 1 : side[i] \in L
    BY <1>3
  <2> QED
    BY <1>3, <2>1, SubSeqProperties
<1> QED
  BY <1>3, <1>4 DEF Gap, x, y

\* The hunks of a side, of which there are finitely many.
LEMMA HunksType ==
  ASSUME NEW L, NEW base \in Seq(L), NEW side \in Seq(L), NEW which \in {"ours", "theirs"}
  PROVE  /\ Hunks(base, side, which) \subseteq Hunk(L, Len(base))
         /\ \A h \in Hunks(base, side, which) : h.side = which /\ h.from <= h.to
         /\ IsFiniteSet(Hunks(base, side, which))
<1> DEFINE frame == <<<<0, 0>>>> \o Anchors(base, side) \o <<<<Len(base) + 1, Len(side) + 1>>>>
           gap == [k \in 1..Len(frame) - 1 |-> Gap(frame, side, which, k)]
           G == {gap[k] : k \in 1..Len(frame) - 1}
<1>1. frame \in Frames(base, side) /\ Frames(base, side) = {frame}
  BY DEF Frames
<1> HIDE DEF frame
<1>2. Hunks(base, side, which) \subseteq G
  BY <1>1 DEF Hunks
<1>3. \A h \in Hunks(base, side, which) :
        \E k \in 1..Len(frame) - 1 : h = Gap(frame, side, which, k)
  BY <1>2
<1>4. Len(frame) \in Nat /\ Len(frame) - 1 \in Int
  BY <1>1, FrameShape
<1>5. IsFiniteSet(G)
  <2>1. IsFiniteSet(1..Len(frame) - 1)
    BY <1>4, FS_Interval
  <2>2. gap \in Surjection(1..Len(frame) - 1, G)
    BY DEF Surjection
  <2> QED
    BY <2>1, <2>2, FS_Surjection
<1>6. ASSUME NEW h \in Hunks(base, side, which)
      PROVE  h \in Hunk(L, Len(base)) /\ h.side = which /\ h.from <= h.to
  <2>1. PICK k \in 1..Len(frame) - 1 : h = Gap(frame, side, which, k)
    BY <1>3
  <2>2. h \in [side: {which}, from: 0..Len(base), to: 0..Len(base), lines: Seq(L)] /\ h.from <= h.to
    BY <1>1, <2>1, GapType
  <2> QED
    BY <2>2 DEF Hunk
<1> QED
  BY <1>2, <1>5, <1>6, FS_Subset

\* A sorted order has each of the hunks once.
LEMMA SortedShape ==
  ASSUME NEW H, IsFiniteSet(H), NEW hs \in Sorted(H)
  PROVE  /\ hs \in Seq(H)
         /\ \A h \in H : \E i \in 1..Len(hs) : hs[i] = h
         /\ \A i, j \in 1..Len(hs) : i < j => hs[i] # hs[j] /\ ~Before(hs[j], hs[i])
<1> DEFINE n == Cardinality(H)
<1>1. n \in Nat
  BY FS_CardinalityType
<1>2. /\ hs \in [1..n -> H]
      /\ \A i, j \in 1..n : i # j => hs[i] # hs[j]
      /\ \A i, j \in DOMAIN hs : i < j => ~Before(hs[j], hs[i])
  BY DEF Sorted, SetToSeqs
<1>3. IsFiniteSet(1..n) /\ Cardinality(1..n) = n
  BY <1>1, FS_Interval
<1>4. hs \in Surjection(1..n, H)
  <2>1. hs \in Injection(1..n, H)
    BY <1>2 DEF Injection, IsInjective
  <2> QED
    BY <1>3, <2>1, FS_Injection
<1> HIDE DEF n
<1>5. hs \in Seq(H) /\ Len(hs) = n
  BY <1>1, <1>2
<1>6. \A h \in H : \E i \in 1..n : hs[i] = h
  BY <1>4 DEF Surjection
<1> QED
  BY <1>1, <1>2, <1>5, <1>6

\* Hunks reach as far as the one that reaches furthest.
LEMMA EndType ==
  ASSUME NEW n \in Nat, NEW hs, NEW C, C # {}, \A j \in C : hs[j].to \in 0..n
  PROVE  End(hs, C) \in 0..n /\ \A j \in C : hs[j].to <= End(hs, C)
<1> DEFINE E == {hs[j].to : j \in C}
           R == {n - e : e \in E}
<1>1. E \subseteq 0..n /\ E # {}
  OBVIOUS
<1> HIDE DEF E
<1>2. R \subseteq Nat /\ R # {}
  <2>1. ASSUME NEW e \in E PROVE n - e \in Nat
    <3>1. e \in 0..n
      BY <1>1
    <3> QED
      BY <3>1
  <2> QED
    BY <1>1, <2>1
<1>3. PICK r \in R : \A q \in R : r <= q
  <2> HIDE DEF R
  <2> QED
    BY <1>2, LeastElement
<1>4. PICK e \in E : r = n - e
  BY <1>3
<1>5. ASSUME NEW y \in E PROVE e >= y
  <2>1. n - y \in R /\ r = n - e
    BY <1>4
  <2>2. n - e <= n - y
    BY <1>3, <2>1
  <2>3. e \in 0..n /\ y \in 0..n
    BY <1>1
  <2> QED
    BY <2>2, <2>3
<1>6. Max(E) \in E /\ \A y \in E : Max(E) >= y
  BY <1>4, <1>5, Zenon DEF Max
<1>7. \A j \in C : hs[j].to \in E
  BY DEF E
<1>8. End(hs, C) = Max(E)
  BY DEF End, E
<1> QED
  BY <1>1, <1>6, <1>7, <1>8

\* The lines of a side in some hunks are lines.
LEMMA LinesOfType ==
  ASSUME NEW L, NEW n, NEW hs \in Seq(Hunk(L, n)), NEW C, NEW which
  PROVE  LinesOf(hs, C, which) \in Seq(L)
<1> DEFINE q == [j \in 1..Len(hs) |-> IF j \in C /\ hs[j].side = which THEN hs[j].lines ELSE <<>>]
<1>1. Len(hs) \in Nat /\ \A j \in 1..Len(hs) : hs[j].lines \in Seq(L)
  <2>1. \A j \in 1..Len(hs) : hs[j] \in Hunk(L, n)
    OBVIOUS
  <2> QED
    BY <2>1 DEF Hunk
<1>2. q \in Seq(Seq(L))
  BY <1>1
<1> HIDE DEF q
<1>3. FlattenSeq(q) \in Seq(L)
  BY <1>2, FlattenType
<1> QED
  BY <1>3 DEF LinesOf, q

\* Each hunk is in the cluster of the one before it or heads one of its own.
LEMMA HeadsRange ==
  ASSUME NEW n \in Nat, NEW w, w[0] = 0,
         \A k \in 1..n : w[k - 1] \in 0..k - 1 => w[k] \in {w[k - 1], k} /\ w[k] # 0
  PROVE  \A k \in 0..n : w[k] \in 0..k
<1> DEFINE T == {k \in Nat : k <= n => w[k] \in 0..k}
<1>1. 0 \in T
  OBVIOUS
<1>2. ASSUME NEW k \in Nat, k \in T PROVE k + 1 \in T
  <2> SUFFICES ASSUME k + 1 <= n PROVE w[k + 1] \in 0..k + 1
    OBVIOUS
  <2>1. k + 1 \in 1..n /\ (k + 1) - 1 = k /\ w[k] \in 0..k
    BY <1>2
  <2>2. w[k + 1] \in {w[k], k + 1}
    BY <2>1
  <2> QED
    BY <2>1, <2>2
<1> HIDE DEF T
<1>3. Nat \subseteq T
  BY <1>1, <1>2, SetInduction
<1> QED
  BY <1>3 DEF T

\* Heads satisfies its equation: each head is found from the one before.
LEMMA HeadsEquation ==
  ASSUME NEW hs, Len(hs) \in Nat
  PROVE  /\ Heads(hs)[0] = 0
         /\ \A k \in 1..Len(hs) :
               Heads(hs)[k] = Headed(hs, k)[Heads(hs)[k - 1]] /\ Heads(hs)[k - 1] \in 0..k - 1
<1> DEFINE n == Len(hs)
           X == 0..n
           g == [k \in 1..n |-> [h \in X |-> IF h \in 0..k - 1 THEN Headed(hs, k)[h] ELSE k]]
<1>1. \A k \in 1..n : \A h \in 0..k - 1 :
         Headed(hs, k)[h] \in {h, k} /\ Headed(hs, k)[h] # 0
  BY DEF Headed
<1>2. g \in [1..n -> [X -> X]] /\ 0 \in X
  BY <1>1
<1>3. \A k \in 1..n : \A h \in 0..k - 1 : g[k][h] = Headed(hs, k)[h]
  OBVIOUS
<1> HIDE DEF g, X, n
<1>4. PICK w \in [0..n -> X] : w[0] = 0 /\ \A k \in 1..n : w[k] = g[k][w[k - 1]]
  <2>1. Iterations(X, 0, n, g) # {}
    BY <1>2, Recursion DEF n
  <2> QED
    BY <2>1 DEF Iterations
<1>5. \A k \in 0..n : w[k] \in 0..k
  <2>1. \A k \in 1..n : w[k - 1] \in 0..k - 1 => w[k] \in {w[k - 1], k} /\ w[k] # 0
    BY <1>1, <1>3, <1>4
  <2> QED
    BY <1>4, <2>1, HeadsRange DEF n
<1>6. w = [k \in 0..n |-> IF k = 0 THEN 0 ELSE Headed(hs, k)[w[k - 1]]]
  <2>1. \A k \in 1..n : w[k] = Headed(hs, k)[w[k - 1]]
    <3> SUFFICES ASSUME NEW k \in 1..n PROVE w[k] = Headed(hs, k)[w[k - 1]]
      OBVIOUS
    <3>1. k - 1 \in 0..n
      BY DEF n
    <3> QED
      BY <1>3, <1>4, <1>5, <3>1
  <2>2. w = [k \in 0..n |-> w[k]]
    OBVIOUS
  <2>3. \A k \in 0..n : w[k] = IF k = 0 THEN 0 ELSE Headed(hs, k)[w[k - 1]]
    BY <1>4, <2>1 DEF n
  <2> QED
    BY <2>2, <2>3, Zenon
<1>7. Heads(hs) = [k \in 0..n |-> IF k = 0 THEN 0 ELSE Headed(hs, k)[Heads(hs)[k - 1]]]
  BY <1>6, Zenon DEF Heads, n
<1> DEFINE head == Heads(hs)
<1> HIDE DEF head
<1>8. head = [k \in 0..n |-> IF k = 0 THEN 0 ELSE Headed(hs, k)[head[k - 1]]]
  BY <1>7 DEF head
<1>9. head[0] = 0 /\ \A k \in 1..n : head[k] = Headed(hs, k)[head[k - 1]]
  BY <1>8 DEF n
<1>10. \A k \in 0..n : head[k] \in 0..k
  <2>1. \A k \in 1..n : head[k - 1] \in 0..k - 1 => head[k] \in {head[k - 1], k} /\ head[k] # 0
    BY <1>1, <1>9
  <2> QED
    BY <1>9, <2>1, HeadsRange DEF n
<1>11. \A k \in 1..n : head[k - 1] \in 0..k - 1
  BY <1>10 DEF n
<1> QED
  BY <1>9, <1>11 DEF head, n

\* So the heads are where a cluster begins, and a cluster is a run of hunks.
LEMMA HeadsShape ==
  ASSUME NEW hs, Len(hs) \in Nat
  PROVE  \A k \in 1..Len(hs) :
            /\ Heads(hs)[k] \in 1..k
            /\ Heads(hs)[k] \in {Heads(hs)[k - 1], k}
<1> SUFFICES ASSUME NEW k \in 1..Len(hs), NEW h, h = Heads(hs)[k - 1]
             PROVE  Heads(hs)[k] \in 1..k /\ Heads(hs)[k] \in {h, k}
  OBVIOUS
<1>1. Heads(hs)[k] = Headed(hs, k)[h] /\ h \in 0..k - 1
  BY HeadsEquation
<1>2. Heads(hs)[k] \in {h, k} /\ Heads(hs)[k] # 0
  BY <1>1 DEF Headed
<1> QED
  BY <1>1, <1>2

-----------------------------------------------------------------------------
\* The merged text.

\* What Joined puts together, each part by its number.
Cluster(hs, i) == {j \in 1..Len(hs) : Heads(hs)[j] = i}
Sides(hs, i) == {hs[j].side : j \in Cluster(hs, i)}
Chosen(hs, i) == LinesOf(hs, Cluster(hs, i), IF "ours" \in Sides(hs, i) THEN "ours" ELSE "theirs")
Passing(hs, i) == IF i = 1 THEN 0 ELSE End(hs, 1..i - 1)
Part(base, hs, i) ==
    IF i > Len(hs) THEN SubSeq(base, Passing(hs, i) + 1, Len(base))
    ELSE IF Heads(hs)[i] = i THEN SubSeq(base, Passing(hs, i) + 1, hs[i].from) \o Chosen(hs, i)
    ELSE <<>>

\* The merged text, by its parts.
LEMMA JoinedParts ==
  ASSUME NEW base, NEW hs
  PROVE  /\ Joined(base, hs).lines = FlattenSeq([i \in 1..Len(hs) + 1 |-> Part(base, hs, i)])
         /\ Joined(base, hs).clean <=>
               \A i \in 1..Len(hs) : Sides(hs, i) = {"ours", "theirs"} =>
                  LinesOf(hs, Cluster(hs, i), "ours") = LinesOf(hs, Cluster(hs, i), "theirs")
BY DEF Joined, Part, Passing, Chosen, Sides, Cluster

\* The lines of the base before a hunk are lines.
LEMMA PassedType ==
  ASSUME NEW L, NEW base \in Seq(L), NEW hs \in Seq(Hunk(L, Len(base))), NEW i \in 1..Len(hs) + 1
  PROVE  /\ SubSeq(base, Passing(hs, i) + 1, Len(base)) \in Seq(L)
         /\ i <= Len(hs) => SubSeq(base, Passing(hs, i) + 1, hs[i].from) \in Seq(L)
<1>1. Len(base) \in Nat /\ Len(hs) \in Nat
  OBVIOUS
<1>2. \A j \in 1..Len(hs) : hs[j].to \in 0..Len(base) /\ hs[j].from \in 0..Len(base)
  <2>1. \A j \in 1..Len(hs) : hs[j] \in Hunk(L, Len(base))
    OBVIOUS
  <2> QED
    BY <2>1 DEF Hunk
<1>3. Passing(hs, i) \in 0..Len(base)
  <2>1. CASE i = 1
    BY <1>1, <2>1 DEF Passing
  <2>2. CASE i # 1
    <3> DEFINE C == 1..i - 1
    <3>1. 1 \in C /\ \A j \in C : j \in 1..Len(hs)
      BY <1>1, <2>2
    <3> HIDE DEF C
    <3>3. C # {} /\ \A j \in C : hs[j].to \in 0..Len(base)
      BY <1>2, <3>1
    <3>2. End(hs, C) \in 0..Len(base)
      BY <1>1, <3>3, EndType
    <3> QED
      BY <2>2, <3>2 DEF Passing, C
  <2> QED
    BY <2>1, <2>2
<1>4. ASSUME NEW m \in 0..Len(base) PROVE SubSeq(base, Passing(hs, i) + 1, m) \in Seq(L)
  <2>1. Passing(hs, i) + 1 \in Int /\ m \in Int
        /\ \A j \in Passing(hs, i) + 1..m : base[j] \in L
    BY <1>1, <1>3
  <2> QED
    BY <2>1, SubSeqProperties
<1>5. Len(base) \in 0..Len(base) /\ (i <= Len(hs) => hs[i].from \in 0..Len(base))
  BY <1>1, <1>2
<1> QED
  BY <1>4, <1>5

\* A part of the merged text is text.
LEMMA PartType ==
  ASSUME NEW L, NEW base \in Seq(L), NEW hs \in Seq(Hunk(L, Len(base))), NEW i \in 1..Len(hs) + 1
  PROVE  Part(base, hs, i) \in Seq(L)
<1>1. Len(hs) \in Nat
  OBVIOUS
<1>2. Chosen(hs, i) \in Seq(L)
  BY LinesOfType DEF Chosen
<1>3. CASE i > Len(hs)
  BY <1>3, PassedType DEF Part
<1>4. CASE ~(i > Len(hs))
  <2>1. SubSeq(base, Passing(hs, i) + 1, hs[i].from) \in Seq(L)
    BY <1>1, <1>4, PassedType
  <2>2. SubSeq(base, Passing(hs, i) + 1, hs[i].from) \o Chosen(hs, i) \in Seq(L)
    BY <1>2, <2>1
  <2>3. <<>> \in Seq(L)
    OBVIOUS
  <2> QED
    BY <1>4, <2>2, <2>3 DEF Part
<1> QED
  BY <1>3, <1>4

\* The hunks of both sides are hunks.
LEMMA BothHunks ==
  ASSUME NEW L, NEW base \in Seq(L), NEW ours \in Seq(L), NEW theirs \in Seq(L),
         NEW hs \in Sorted(Hunks(base, ours, "ours") \cup Hunks(base, theirs, "theirs"))
  PROVE  /\ hs \in Seq(Hunk(L, Len(base)))
         /\ \A h \in Hunks(base, ours, "ours") \cup Hunks(base, theirs, "theirs") :
               \E i \in 1..Len(hs) : hs[i] = h
         /\ \A i, j \in 1..Len(hs) : i < j => hs[i] # hs[j] /\ ~Before(hs[j], hs[i])
<1> DEFINE H == Hunks(base, ours, "ours") \cup Hunks(base, theirs, "theirs")
<1>1. IsFiniteSet(H) /\ H \subseteq Hunk(L, Len(base))
  BY HunksType, FS_Union
<1> HIDE DEF H
<1>2. hs \in Sorted(H)
  BY DEF H
<1>3. hs \in Seq(H)
  BY <1>1, <1>2, SortedShape
<1>4. hs \in Seq(Hunk(L, Len(base)))
  BY <1>1, <1>3, SeqMonotonic
<1>5. \A h \in H : \E i \in 1..Len(hs) : hs[i] = h
  BY <1>1, <1>2, SortedShape
<1>6. \A i, j \in 1..Len(hs) : i < j => hs[i] # hs[j] /\ ~Before(hs[j], hs[i])
  BY <1>1, <1>2, SortedShape
<1> QED
  BY <1>4, <1>5, <1>6 DEF H

\* A merge gives a text.
LEMMA MergesType ==
  ASSUME NEW L, NEW base \in Seq(L), NEW ours \in Seq(L), NEW theirs \in Seq(L),
         NEW m \in Merges(base, ours, theirs)
  PROVE  m.lines \in Seq(L)
<1>1. PICK hs \in Sorted(Hunks(base, ours, "ours") \cup Hunks(base, theirs, "theirs")) :
         m = Joined(base, hs)
  BY DEF Merges
<1>2. hs \in Seq(Hunk(L, Len(base)))
  BY BothHunks
<1> DEFINE q == [i \in 1..Len(hs) + 1 |-> Part(base, hs, i)]
<1>3. q \in Seq(Seq(L))
  <2>1. Len(hs) + 1 \in Nat /\ \A i \in 1..Len(hs) + 1 : Part(base, hs, i) \in Seq(L)
    BY <1>2, PartType
  <2> QED
    BY <2>1
<1> HIDE DEF q
<1>4. FlattenSeq(q) \in Seq(L)
  BY <1>3, FlattenType
<1> QED
  BY <1>1, <1>4, JoinedParts DEF q

-----------------------------------------------------------------------------
\* The lines that a side has in a run of hunks.

\* What the j-th hunk has of a side.
Piece(hs, j, which) == IF hs[j].side = which THEN hs[j].lines ELSE <<>>

Pieces(hs, C, which) ==
    [j \in 1..Len(hs) |-> IF j \in C /\ hs[j].side = which THEN hs[j].lines ELSE <<>>]

\* The lines that a side has in each of the hunks.
LEMMA PiecesType ==
  ASSUME NEW L, NEW n, NEW hs \in Seq(Hunk(L, n)), NEW C, NEW which
  PROVE  /\ Pieces(hs, C, which) \in Seq(Seq(L)) /\ Len(Pieces(hs, C, which)) = Len(hs)
         /\ \A j \in 1..Len(hs) : hs[j].lines \in Seq(L) /\ Piece(hs, j, which) \in Seq(L)
<1>1. Len(hs) \in Nat /\ \A j \in 1..Len(hs) : hs[j].lines \in Seq(L)
  <2>1. \A j \in 1..Len(hs) : hs[j] \in Hunk(L, n)
    OBVIOUS
  <2> QED
    BY <2>1 DEF Hunk
<1>2. <<>> \in Seq(L)
  OBVIOUS
<1> QED
  BY <1>1, <1>2 DEF Pieces, Piece

\* A run has the lines of its last hunk at its end.
LEMMA LinesOfExtend ==
  ASSUME NEW L, NEW n, NEW hs \in Seq(Hunk(L, n)), NEW which,
         NEW k \in 1..Len(hs), NEW h \in 1..k
  PROVE  LinesOf(hs, h..k, which) = LinesOf(hs, h..k - 1, which) \o Piece(hs, k, which)
<1> DEFINE N == Len(hs)
           o == <<>>
           q == Pieces(hs, h..k, which)
           r == Pieces(hs, h..k - 1, which)
<1>1. N \in Nat /\ k \in 1..N
  OBVIOUS
<1>2. q \in Seq(Seq(L)) /\ r \in Seq(Seq(L)) /\ Len(q) = N /\ Len(r) = N
  BY PiecesType
<1>3. \A j \in 1..N : /\ q[j] = IF j \in h..k /\ hs[j].side = which THEN hs[j].lines ELSE o
                      /\ r[j] = IF j \in h..k - 1 /\ hs[j].side = which THEN hs[j].lines ELSE o
  BY DEF Pieces
<1>4. q[k] = Piece(hs, k, which)
  BY <1>1, <1>3 DEF Piece
<1>5. LinesOf(hs, h..k, which) = FlattenSeq(q) /\ LinesOf(hs, h..k - 1, which) = FlattenSeq(r)
  BY DEF LinesOf, Pieces
<1> HIDE DEF N, o, q, r
<1>6. r[k] = o
  BY <1>1, <1>3
<1>7. ASSUME NEW j \in 1..N, j < k PROVE r[j] = q[j]
  <2>1. j \in h..k <=> j \in h..k - 1
    BY <1>1, <1>7
  <2> QED
    BY <1>3, <2>1
<1>8. ASSUME NEW j \in 1..N, k < j PROVE r[j] = o /\ q[j] = o
  <2>1. j \notin h..k /\ j \notin h..k - 1
    BY <1>1, <1>8
  <2> QED
    BY <1>3, <2>1
<1>9. WithoutLast(N, q, r, k, o)
  BY <1>1, <1>6, <1>7, <1>8 DEF WithoutLast
<1>10. FlattenSeq(q) = FlattenSeq(r) \o q[k]
  <2>1. WithoutLast(Len(q), q, r, k, <<>>) /\ Len(q) = Len(r)
    BY <1>2, <1>9 DEF o
  <2> QED
    BY <1>2, <2>1, FlattenExtend
<1> QED
  BY <1>4, <1>5, <1>10

\* In no hunk there are no lines.
LEMMA LinesOfNone ==
  ASSUME NEW L, NEW n, NEW hs \in Seq(Hunk(L, n)), NEW which, NEW C,
         \A j \in 1..Len(hs) : j \in C => hs[j].side # which
  PROVE  LinesOf(hs, C, which) = <<>>
<1> DEFINE q == Pieces(hs, C, which)
<1>1. q \in Seq(Seq(L)) /\ Len(q) = Len(hs)
  BY PiecesType
<1>2. \A j \in 1..Len(hs) : q[j] = <<>>
  BY DEF Pieces
<1>3. LinesOf(hs, C, which) = FlattenSeq(q)
  BY DEF LinesOf, Pieces
<1> HIDE DEF q
<1> QED
  BY <1>1, <1>2, <1>3, FlattenEmpty

\* A run can be cut in two.
LEMMA LinesOfCut ==
  ASSUME NEW L, NEW n, NEW hs \in Seq(Hunk(L, n)), NEW which, NEW h \in 1..Len(hs)
  PROVE  \A k \in h..Len(hs) :
            LinesOf(hs, 1..k, which) = Joint(LinesOf(hs, 1..h - 1, which), LinesOf(hs, h..k, which))
<1> DEFINE N == Len(hs)
           F(i, k) == LinesOf(hs, i..k, which)
           T == {d \in Nat : h + d <= N => F(1, h + d) = F(1, h - 1) \o F(h, h + d)}
<1>1. N \in Nat /\ h \in 1..N
  OBVIOUS
<1>2. \A i, k : F(i, k) \in Seq(L)
  BY LinesOfType
<1>3. \A k \in 1..N : \A i \in 1..k : F(i, k) = F(i, k - 1) \o Piece(hs, k, which)
  BY LinesOfExtend
<1>4. \A k \in 1..N : Piece(hs, k, which) \in Seq(L)
  BY PiecesType
<1>5. F(h, h - 1) = <<>>
  <2>1. \A j \in 1..Len(hs) : j \notin h..h - 1
    OBVIOUS
  <2> QED
    BY <2>1, LinesOfNone
<1> HIDE DEF N, F
<1>6. 0 \in T
  <2>1. h + 0 = h /\ h \in 1..h /\ 1 \in 1..h
    BY <1>1
  <2>2. F(1, h) = F(1, h - 1) \o Piece(hs, h, which) /\ F(h, h) = F(h, h - 1) \o Piece(hs, h, which)
    BY <1>1, <1>3, <2>1
  <2>3. Piece(hs, h, which) \in Seq(L)
    BY <1>1, <1>4
  <2>4. F(h, h) = Piece(hs, h, which)
    BY <1>5, <2>2, <2>3
  <2> QED
    BY <2>1, <2>2, <2>4
<1>7. ASSUME NEW d \in Nat, d \in T PROVE d + 1 \in T
  <2> SUFFICES ASSUME NEW k \in 1..N, k = h + (d + 1) PROVE F(1, k) = F(1, h - 1) \o F(h, k)
    BY <1>1
  <2>1. k - 1 = h + d /\ h + d <= N /\ 1 \in 1..k /\ h \in 1..k
    BY <1>1
  <2>2. F(1, k - 1) = F(1, h - 1) \o F(h, k - 1)
    BY <1>7, <2>1
  <2>3. F(1, k) = F(1, k - 1) \o Piece(hs, k, which) /\ F(h, k) = F(h, k - 1) \o Piece(hs, k, which)
    BY <1>3, <2>1
  <2>4. Piece(hs, k, which) \in Seq(L) /\ F(1, h - 1) \in Seq(L) /\ F(h, k - 1) \in Seq(L)
    BY <1>2, <1>4
  <2>5. (F(1, h - 1) \o F(h, k - 1)) \o Piece(hs, k, which)
          = F(1, h - 1) \o (F(h, k - 1) \o Piece(hs, k, which))
    BY SMTT(30), <2>4, ConcatAssociative
  <2> QED
    BY <2>2, <2>3, <2>5
<1> HIDE DEF T
<1>8. Nat \subseteq T
  BY <1>6, <1>7, SetInduction
<1>9. ASSUME NEW k \in h..N PROVE F(1, k) = F(1, h - 1) \o F(h, k)
  <2>1. k - h \in Nat /\ h + (k - h) = k /\ k <= N
    BY <1>1
  <2> QED
    BY <1>8, <2>1 DEF T
<1> QED
  BY <1>9 DEF N, F, Joint

-----------------------------------------------------------------------------
\* What is within a text.

\* A text is within itself.
LEMMA WithinItself == ASSUME NEW L, NEW s \in Seq(L) PROVE IsWithin(s, s)
<1> DEFINE f == [i \in DOMAIN s |-> i]
<1>1. f \in [DOMAIN s -> DOMAIN s] /\ \A i \in DOMAIN s : f[i] = i
  OBVIOUS
<1> HIDE DEF f
<1> QED
  BY <1>1 DEF IsWithin

\* The empty text is within every text.
LEMMA NothingWithin == ASSUME NEW L, NEW t \in Seq(L) PROVE IsWithin(<<>>, t)
<1> DEFINE o == <<>>
           f == [i \in {} |-> i]
<1>1. DOMAIN o = {}
  OBVIOUS
<1> HIDE DEF o
<1>2. f \in [DOMAIN o -> DOMAIN t]
  BY <1>1
<1>3. IsWithin(o, t)
  BY <1>1, <1>2 DEF IsWithin
<1> QED
  BY <1>3 DEF o

\* Two texts within two others, each after the other.
LEMMA WithinJoined ==
  ASSUME NEW L, NEW s \in Seq(L), NEW t \in Seq(L), NEW u \in Seq(L), NEW v \in Seq(L),
         IsWithin(s, t), IsWithin(u, v)
  PROVE  IsWithin(s \o u, t \o v)
<1> DEFINE m == Len(s)
           k == Len(t)
           x == s \o u
           y == t \o v
<1>1. /\ m \in Nat /\ k \in Nat /\ Len(u) \in Nat /\ Len(v) \in Nat
      /\ DOMAIN s = 1..m /\ DOMAIN t = 1..k /\ DOMAIN u = 1..Len(u) /\ DOMAIN v = 1..Len(v)
      /\ DOMAIN x = 1..m + Len(u) /\ DOMAIN y = 1..k + Len(v)
  OBVIOUS
<1>2. /\ \A i \in 1..m : x[i] = s[i]
      /\ \A i \in 1..Len(u) : x[m + i] = u[i]
      /\ \A i \in 1..k : y[i] = t[i]
      /\ \A i \in 1..Len(v) : y[k + i] = v[i]
  OBVIOUS
<1>3. PICK f \in [1..m -> 1..k] :
         /\ \A i, j \in 1..m : i < j => f[i] < f[j]
         /\ \A i \in 1..m : s[i] = t[f[i]]
  BY <1>1 DEF IsWithin
<1>4. PICK g \in [1..Len(u) -> 1..Len(v)] :
         /\ \A i, j \in 1..Len(u) : i < j => g[i] < g[j]
         /\ \A i \in 1..Len(u) : u[i] = v[g[i]]
  BY <1>1 DEF IsWithin
<1> DEFINE a == Len(u)
           b == Len(v)
           h == [i \in 1..m + a |-> IF i <= m THEN f[i] ELSE k + g[i - m]]
<1>5. a \in Nat /\ b \in Nat /\ f \in [1..m -> 1..k] /\ g \in [1..a -> 1..b]
  BY <1>1
<1> HIDE DEF m, k, x, y, a, b, h
<1>6. \A i \in 1..m + a : /\ i <= m => i \in 1..m /\ f[i] \in 1..k
                          /\ ~(i <= m) => i - m \in 1..a /\ g[i - m] \in 1..b
  <2> SUFFICES ASSUME NEW i \in 1..m + a
               PROVE  /\ i <= m => i \in 1..m /\ f[i] \in 1..k
                      /\ ~(i <= m) => i - m \in 1..a /\ g[i - m] \in 1..b
    OBVIOUS
  <2>1. (i <= m => i \in 1..m) /\ (~(i <= m) => i - m \in 1..a)
    BY <1>1, <1>5
  <2> QED
    BY <1>5, <2>1
<1>7. h \in [1..m + a -> 1..k + b]
  BY <1>1, <1>5, <1>6 DEF h
<1>8. \A i \in 1..m + a : h[i] = IF i <= m THEN f[i] ELSE k + g[i - m]
  BY DEF h
<1>9. ASSUME NEW i \in 1..m + a, NEW j \in 1..m + a, i < j PROVE h[i] < h[j]
  <2>1. CASE j <= m
    <3>1. i <= m /\ i \in 1..m /\ j \in 1..m
      BY <1>1, <1>5, <1>9, <2>1
    <3> QED
      BY <1>3, <1>8, <1>9, <2>1, <3>1
  <2>2. CASE i <= m /\ ~(j <= m)
    <3>1. f[i] \in 1..k /\ g[j - m] \in 1..b
      BY <1>6, <2>2
    <3>2. h[i] = f[i] /\ h[j] = k + g[j - m]
      BY <1>8, <2>2
    <3>3. f[i] \in Int /\ f[i] <= k /\ g[j - m] \in Int /\ g[j - m] >= 1 /\ k \in Int
      BY <1>1, <1>5, <3>1
    <3> QED
      BY <3>2, <3>3
  <2>3. CASE ~(i <= m)
    <3>1. ~(j <= m) /\ i - m \in 1..a /\ j - m \in 1..a /\ i - m < j - m
      BY <1>1, <1>5, <1>9, <2>3
    <3>2. g[i - m] < g[j - m] /\ g[i - m] \in 1..b /\ g[j - m] \in 1..b
      BY <1>4, <3>1 DEF a, b
    <3>3. h[i] = k + g[i - m] /\ h[j] = k + g[j - m]
      BY <1>8, <2>3, <3>1
    <3>4. g[i - m] \in Int /\ g[j - m] \in Int /\ k \in Int
      BY <1>1, <1>5, <3>2
    <3> QED
      BY <3>2, <3>3, <3>4
  <2> QED
    BY <2>1, <2>2, <2>3
<1>10. ASSUME NEW i \in 1..m + a PROVE x[i] = y[h[i]]
  <2>1. CASE i <= m
    <3>1. i \in 1..m /\ f[i] \in 1..k /\ h[i] = f[i]
      BY <1>6, <1>8, <2>1
    <3> QED
      BY <1>2, <1>3, <3>1
  <2>2. CASE ~(i <= m)
    <3>1. i - m \in 1..a /\ g[i - m] \in 1..b /\ h[i] = k + g[i - m] /\ m + (i - m) = i
      BY <1>1, <1>6, <1>8, <2>2
    <3>2. u[i - m] = v[g[i - m]] /\ x[m + (i - m)] = u[i - m] /\ y[k + g[i - m]] = v[g[i - m]]
      BY <1>2, <1>4, <3>1 DEF a, b
    <3> QED
      BY <3>1, <3>2
  <2> QED
    BY <2>1, <2>2
<1>11. DOMAIN x = 1..m + a /\ DOMAIN y = 1..k + b
  BY <1>1 DEF a, b
<1>12. IsWithin(x, y)
  BY <1>7, <1>9, <1>10, <1>11 DEF IsWithin
<1> QED
  BY <1>12 DEF x, y

\* What comes before or after takes nothing away.
LEMMA WithinMore ==
  ASSUME NEW L, NEW s \in Seq(L), NEW t \in Seq(L), NEW u \in Seq(L), IsWithin(s, t)
  PROVE  IsWithin(s, u \o t) /\ IsWithin(s, t \o u)
<1> DEFINE o == <<>>
<1>1. o \in Seq(L) /\ o \o s = s /\ s \o o = s
  OBVIOUS
<1>2. IsWithin(o, u)
  BY NothingWithin
<1> HIDE DEF o
<1>3. IsWithin(o \o s, u \o t) /\ IsWithin(s \o o, t \o u)
  BY <1>1, <1>2, WithinJoined
<1> QED
  BY <1>1, <1>3
-----------------------------------------------------------------------------
\* What a merge takes from one side it keeps from that side.

\* A cluster whose next hunk heads one of its own is the run from its head on.
LEMMA HeadsRun ==
  ASSUME NEW n \in Nat, NEW w,
         \A k \in 1..n : w[k] \in 1..k /\ w[k] \in {w[k - 1], k}
  PROVE  \A k \in 1..n : \A j \in w[k]..k : w[j] = w[k]
<1> DEFINE T == {k \in Nat : k \in 1..n => \A j \in w[k]..k : w[j] = w[k]}
<1>1. 0 \in T
  OBVIOUS
<1>2. ASSUME NEW k \in Nat, k \in T PROVE k + 1 \in T
  <2> SUFFICES ASSUME k + 1 \in 1..n, NEW j \in w[k + 1]..k + 1 PROVE w[j] = w[k + 1]
    OBVIOUS
  <2>1. (k + 1) - 1 = k /\ w[k + 1] \in {w[k], k + 1} /\ w[k + 1] \in 1..k + 1
    OBVIOUS
  <2>2. CASE j = k + 1
    BY <2>2
  <2>3. CASE j # k + 1
    <3>1. j \in w[k + 1]..k /\ w[k + 1] # k + 1
      BY <2>1, <2>3
    <3>2. k \in 1..n
      BY <2>1, <3>1
    <3>3. w[k + 1] = w[k]
      BY <2>1, <3>1
    <3> QED
      BY <1>2, <3>1, <3>2, <3>3
  <2> QED
    BY <2>2, <2>3
<1> HIDE DEF T
<1>3. Nat \subseteq T
  BY <1>1, <1>2, SetInduction
<1> QED
  BY <1>3 DEF T

\* After the head of a cluster no hunk belongs to an earlier one.
LEMMA HeadsLater ==
  ASSUME NEW n \in Nat, NEW w,
         \A k \in 1..n : w[k] \in 1..k /\ w[k] \in {w[k - 1], k},
         NEW k \in 1..n, w[k] = k
  PROVE  \A j \in k..n : w[j] >= k
<1> DEFINE T == {d \in Nat : k + d <= n => w[k + d] >= k}
<1>1. 0 \in T
  OBVIOUS
<1>2. ASSUME NEW d \in Nat, d \in T PROVE d + 1 \in T
  <2> SUFFICES ASSUME NEW j \in 1..n, j = k + (d + 1) PROVE w[j] >= k
    OBVIOUS
  <2>1. j - 1 = k + d /\ k + d <= n
    OBVIOUS
  <2>2. w[j - 1] >= k
    BY <1>2, <2>1
  <2> QED
    BY <2>2
<1> HIDE DEF T
<1>3. Nat \subseteq T
  BY <1>1, <1>2, SetInduction
<1>4. ASSUME NEW j \in k..n PROVE w[j] >= k
  <2>1. j - k \in Nat /\ k + (j - k) = j /\ j <= n
    OBVIOUS
  <2> QED
    BY <1>3, <2>1 DEF T
<1> QED
  BY <1>4

\* The cluster of a hunk after which a new cluster begins: the hunks from its head to
\* this one.
LEMMA ClusterRun ==
  ASSUME NEW hs, Len(hs) \in Nat, NEW k \in 1..Len(hs),
         k < Len(hs) => Heads(hs)[k + 1] = k + 1
  PROVE  Cluster(hs, Heads(hs)[k]) = Heads(hs)[k]..k
<1> DEFINE n == Len(hs)
           w == Heads(hs)
           h == w[k]
<1>1. \A i \in 1..n : w[i] \in 1..i /\ w[i] \in {w[i - 1], i}
  BY HeadsShape
<1>2. n \in Nat /\ k \in 1..n /\ (k < n => w[k + 1] = k + 1) /\ Cluster(hs, h) = {j \in 1..n : w[j] = h}
  BY DEF Cluster
<1> HIDE DEF n, w
<1>3. \A j \in h..k : w[j] = h
  <2>1. n \in Nat
    BY <1>2
  <2>2. \A i \in 1..n : \A j \in w[i]..i : w[j] = w[i]
    BY <1>1, <2>1, HeadsRun
  <2> QED
    BY <1>2, <2>2
<1>4. h \in 1..k
  BY <1>1, <1>2
<1>5. ASSUME NEW j \in 1..n, w[j] = h PROVE j \in h..k
  <2>1. w[j] \in 1..j
    BY <1>1
  <2>2. ASSUME j > k PROVE FALSE
    <3>1. k + 1 \in 1..n /\ w[k + 1] = k + 1 /\ j \in k + 1..n
      BY <1>2, <2>2
    <3>2. w[j] >= k + 1
      BY <1>1, <1>2, <3>1, HeadsLater
    <3> QED
      BY <1>4, <1>5, <3>2, <1>2
  <2> QED
    BY <1>2, <1>4, <1>5, <2>1, <2>2
<1>6. ASSUME NEW j \in h..k PROVE j \in 1..n /\ w[j] = h
  BY <1>2, <1>3, <1>4
<1> QED
  BY <1>2, <1>5, <1>6 DEF w

\* Of a cluster a side has the lines that are chosen, or none.
LEMMA ClusterLines ==
  ASSUME NEW L, NEW base, NEW n, NEW hs \in Seq(Hunk(L, n)), Joined(base, hs).clean,
         NEW i \in 1..Len(hs), NEW which \in {"ours", "theirs"}
  PROVE  LinesOf(hs, Cluster(hs, i), which) \in {<<>>, Chosen(hs, i)}
<1> DEFINE C == Cluster(hs, i)
           S == Sides(hs, i)
<1>1. C \subseteq 1..Len(hs) /\ S = {hs[j].side : j \in C}
  BY DEF Cluster, Sides
<1>2. S \subseteq {"ours", "theirs"}
  <2>1. \A j \in 1..Len(hs) : hs[j] \in Hunk(L, n)
    OBVIOUS
  <2> QED
    BY <1>1, <2>1 DEF Hunk
<1>3. CASE which \notin S
  <2>1. \A j \in 1..Len(hs) : j \in C => hs[j].side # which
    BY <1>1, <1>3
  <2> QED
    BY <2>1, LinesOfNone
<1>4. CASE which \in S
  <2>1. S = {"ours", "theirs"} => LinesOf(hs, C, "ours") = LinesOf(hs, C, "theirs")
    BY JoinedParts
  <2>2. Chosen(hs, i) = LinesOf(hs, C, IF "ours" \in S THEN "ours" ELSE "theirs")
    BY DEF Chosen
  <2> HIDE DEF C, S
  <2>3. CASE "ours" \notin S
    <3>1. which = "theirs"
      BY <1>4, <2>3
    <3> QED
      BY <2>2, <2>3, <3>1 DEF C
  <2>4. CASE "ours" \in S
    <3>1. Chosen(hs, i) = LinesOf(hs, C, "ours")
      BY <2>2, <2>4
    <3>2. which = "theirs" => S = {"ours", "theirs"}
      BY <1>2, <1>4, <2>4
    <3> QED
      BY <2>1, <3>1, <3>2 DEF C
  <2> QED
    BY <2>3, <2>4
<1> QED
  BY <1>3, <1>4

\* How a list of pieces grows together.
LEMMA FlattenTogether ==
  ASSUME NEW S, NEW q \in Seq(Seq(S)), NEW n, Len(q) = n
  PROVE  \E f \in Together(S, n, q) : FlattenSeq(q) = f[n]
<1>1. \E f \in Together(S, Len(q), q) : FlattenSeq(q) = f[Len(q)]
  BY FlattenSteps DEF Together
<1> QED
  BY <1>1

\* How it grows from piece to piece.
LEMMA TogetherSteps ==
  ASSUME NEW S, NEW q \in Seq(Seq(S)), NEW n, Len(q) = n, NEW f \in Together(S, n, q)
  PROVE  /\ f[0] = <<>>
         /\ \A k \in 0..n : f[k] \in Seq(S)
         /\ \A k \in 1..n : f[k] = Joint(f[k - 1], q[k]) /\ q[k] \in Seq(S)
<1>1. \A k \in 1..n : q[k] \in Seq(S)
  OBVIOUS
<1>2. f \in [0..n -> Seq(S)] /\ f[0] = <<>> /\ \A k \in 1..n : f[k] = f[k - 1] \o q[k]
  BY DEF Together
<1> QED
  BY <1>1, <1>2 DEF Joint

\* Runs of pieces q with heads w: what all has by the end of each run is in the text
\* that the pieces give, when each run adds no more to it than its first piece.
LEMMA RunsSurvive ==
  ASSUME NEW L, NEW n \in Nat, NEW q \in Seq(Seq(L)), Len(q) = n + 1,
         NEW w, \A k \in 1..n : w[k] \in 1..k /\ w[k] \in {w[k - 1], k},
         \A k \in 1..n : w[k] # k => q[k] = <<>>,
         NEW all, \A k \in 0..n : all[k] \in Seq(L), all[0] = <<>>,
         \A k \in 1..n : (k < n => w[k + 1] = k + 1) =>
            \A s \in Seq(L) : IsWithin(all[w[k] - 1], s) => IsWithin(all[k], Joint(s, q[w[k]]))
  PROVE  IsWithin(all[n], FlattenSeq(q))
<1>1. PICK F \in Together(L, n + 1, q) : FlattenSeq(q) = F[n + 1]
  <2> DEFINE N == n + 1
  <2>1. Len(q) = N
    OBVIOUS
  <2> HIDE DEF N
  <2>2. \E f \in Together(L, N, q) : FlattenSeq(q) = f[N]
    BY <2>1, FlattenTogether
  <2> QED
    BY <2>2, Zenon DEF N
<1>2. /\ F[0] = <<>>
      /\ \A k \in 0..n + 1 : F[k] \in Seq(L)
      /\ \A k \in 1..n + 1 : F[k] = Joint(F[k - 1], q[k]) /\ q[k] \in Seq(L)
  BY TogetherSteps
<1>3. \A k \in 1..n : q[k] = <<>> => F[k] = F[k - 1]
  <2> SUFFICES ASSUME NEW k \in 1..n, q[k] = <<>> PROVE F[k] = F[k - 1]
    OBVIOUS
  <2>1. k \in 1..n + 1 /\ k - 1 \in 0..n + 1
    OBVIOUS
  <2>2. F[k - 1] \in Seq(L) /\ F[k] = F[k - 1] \o q[k]
    BY <1>2, <2>1 DEF Joint
  <2> QED
    BY <2>2
<1> DEFINE Good(k) == IsWithin(all[w[k] - 1], F[w[k] - 1]) /\ F[k] = F[w[k]]
           T == {k \in Nat : k \in 1..n => Good(k)}
<1>4. ASSUME NEW k \in 1..n, k < n => w[k + 1] = k + 1, Good(k)
      PROVE  IsWithin(all[k], F[k])
  <2>1. w[k] \in 1..n + 1 /\ w[k] - 1 \in 0..n + 1
    OBVIOUS
  <2>2. F[w[k] - 1] \in Seq(L) /\ F[w[k]] = Joint(F[w[k] - 1], q[w[k]])
    BY <1>2, <2>1
  <2>3. IsWithin(all[k], Joint(F[w[k] - 1], q[w[k]]))
    BY <1>4, <2>2
  <2> QED
    BY <1>4, <2>2, <2>3
<1>5. IsWithin(all[0], F[0])
  BY <1>2, NothingWithin
<1>6. 0 \in T
  OBVIOUS
<1>7. ASSUME NEW k \in Nat, k \in T PROVE k + 1 \in T
  <2> SUFFICES ASSUME NEW j \in 1..n, j = k + 1 PROVE Good(j)
    OBVIOUS
  <2>1. j - 1 = k /\ w[j] \in {w[k], j} /\ w[j] \in 1..j
    BY SMTT(30)
  <2>2. CASE w[j] = j
    <3>1. IsWithin(all[k], F[k])
      <4>1. CASE k = 0
        BY <1>5, <4>1
      <4>2. CASE k # 0
        <5>1. k \in 1..n /\ w[k + 1] = k + 1
          BY <2>2, <4>2
        <5>2. Good(k)
          BY <1>7, <5>1
        <5> HIDE DEF Good
        <5> QED
          BY <1>4, <5>1, <5>2
      <4> QED
        BY <4>1, <4>2
    <3> QED
      BY <2>1, <2>2, <3>1
  <2>3. CASE w[j] # j
    <3>1. w[j] = w[k] /\ k \in 1..n
      BY SMTT(30), <2>1, <2>3
    <3>2. Good(k)
      BY <1>7, <3>1
    <3>3. F[j] = F[j - 1]
      BY <1>3, <2>3
    <3> QED
      BY <2>1, <3>1, <3>2, <3>3
  <2> QED
    BY <2>2, <2>3
<1> HIDE DEF T
<1>8. Nat \subseteq T
  BY <1>6, <1>7, SetInduction
<1>9. IsWithin(all[n], F[n])
  <2>1. CASE n = 0
    BY <1>5, <2>1
  <2>2. CASE n # 0
    <3>1. n \in 1..n /\ ~(n < n)
      BY <2>2
    <3>2. Good(n)
      BY <1>8, <3>1 DEF T
    <3> HIDE DEF Good
    <3> QED
      BY <1>4, <3>1, <3>2
  <2> QED
    BY <2>1, <2>2
<1>10. F[n + 1] = F[n] \o q[n + 1] /\ F[n] \in Seq(L) /\ q[n + 1] \in Seq(L) /\ all[n] \in Seq(L)
  <2>1. n + 1 \in 1..n + 1 /\ n \in 0..n + 1 /\ (n + 1) - 1 = n /\ n \in 0..n
    OBVIOUS
  <2> QED
    BY <1>2, <2>1 DEF Joint
<1> QED
  BY <1>1, <1>9, <1>10, WithinMore

\* A part of the merged text has what is chosen at its end, or nothing.
LEMMA PartEnds ==
  ASSUME NEW L, NEW base \in Seq(L), NEW hs \in Seq(Hunk(L, Len(base))), NEW i \in 1..Len(hs),
         NEW u \in {<<>>, Chosen(hs, i)}
  PROVE  IF Heads(hs)[i] = i THEN IsWithin(u, Part(base, hs, i)) ELSE Part(base, hs, i) = <<>>
<1> DEFINE x == SubSeq(base, Passing(hs, i) + 1, hs[i].from)
           y == Chosen(hs, i)
<1>1. i \in 1..Len(hs) + 1 /\ ~(i > Len(hs))
  OBVIOUS
<1>2. Part(base, hs, i) = IF Heads(hs)[i] = i THEN x \o y ELSE <<>>
  BY <1>1 DEF Part
<1>3. y \in Seq(L)
  BY LinesOfType DEF Chosen
<1>4. ASSUME Heads(hs)[i] = i PROVE IsWithin(u, Part(base, hs, i))
  <2>1. x \in Seq(L)
    BY <1>1, PassedType
  <2>2. x \o y \in Seq(L) /\ Part(base, hs, i) = x \o y
    BY <1>2, <1>3, <1>4, <2>1
  <2> HIDE DEF x, y
  <2>3. IsWithin(y, x \o y)
    BY <1>3, <2>1, WithinItself, WithinMore
  <2>4. IsWithin(<<>>, x \o y)
    BY <2>2, NothingWithin
  <2> QED
    BY <2>2, <2>3, <2>4 DEF y
<1> QED
  BY <1>2, <1>4

\* What a side has in its hunks is in the merged text, when there is no conflict.
LEMMA SideSurvives ==
  ASSUME NEW L, NEW base \in Seq(L), NEW hs \in Seq(Hunk(L, Len(base))), Joined(base, hs).clean,
         NEW which \in {"ours", "theirs"}
  PROVE  IsWithin(LinesOf(hs, 1..Len(hs), which), Joined(base, hs).lines)
<1> DEFINE n == Len(hs)
           w == Heads(hs)
           q == [i \in 1..n + 1 |-> Part(base, hs, i)]
           LO(i, k) == LinesOf(hs, i..k, which)
           all == [k \in 0..n |-> LO(1, k)]
<1>1. n \in Nat /\ Joined(base, hs).lines = FlattenSeq(q)
  BY JoinedParts
<1>2. q \in Seq(Seq(L)) /\ Len(q) = n + 1 /\ \A i \in 1..n : q[i] = Part(base, hs, i)
  <2>1. \A i \in 1..n + 1 : Part(base, hs, i) \in Seq(L)
    BY PartType
  <2> QED
    BY <1>1, <2>1
<1>3. \A k \in 1..n : w[k] \in 1..k /\ w[k] \in {w[k - 1], k}
  BY <1>1, HeadsShape
<1>4. \A k \in 1..n : w[k] # k => q[k] = <<>>
  BY <1>2, PartEnds
<1>5. \A i, k : LO(i, k) \in Seq(L)
  BY LinesOfType
<1>6. all[0] = <<>>
  <2>1. \A j \in 1..Len(hs) : j \notin 1..0
    OBVIOUS
  <2>2. LO(1, 0) = <<>>
    BY <2>1, LinesOfNone
  <2> QED
    BY <1>1, <2>2
<1>7. ASSUME NEW k \in 1..n, k < n => w[k + 1] = k + 1,
             NEW s \in Seq(L), IsWithin(all[w[k] - 1], s)
      PROVE  IsWithin(all[k], Joint(s, q[w[k]]))
  <2> DEFINE h == w[k]
             u == LO(h, k)
  <2>1. h \in 1..n /\ k \in h..n /\ h - 1 \in 0..n /\ k \in 0..n
    BY <1>1, <1>3
  <2>2. LO(1, k) = Joint(LO(1, h - 1), u)
    <3>1. \A i \in 1..n : \A j \in i..n : LO(1, j) = Joint(LO(1, i - 1), LO(i, j))
      BY LinesOfCut
    <3> QED
      BY <2>1, <3>1
  <2>3. all[k] = LO(1, k) /\ all[h - 1] = LO(1, h - 1)
    BY <2>1
  <2>4. Cluster(hs, h) = h..k
    BY <1>1, <1>7, ClusterRun
  <2>5. u \in {<<>>, Chosen(hs, h)}
    BY <2>1, <2>4, ClusterLines
  <2>6. w[h] = h
    <3>1. h \in h..k
      BY <1>3, <2>1
    <3>2. h \in Cluster(hs, h)
      BY <2>4, <3>1
    <3> QED
      BY <3>2 DEF Cluster
  <2>7. IsWithin(u, q[h]) /\ q[h] \in Seq(L)
    <3>1. IsWithin(u, Part(base, hs, h))
      BY <2>1, <2>5, <2>6, PartEnds
    <3>2. h \in 1..Len(q)
      BY <1>1, <1>2, <2>1
    <3> QED
      BY <1>2, <2>1, <3>1, <3>2
  <2>8. LO(1, h - 1) \in Seq(L) /\ u \in Seq(L) /\ IsWithin(LO(1, h - 1), s)
    BY <1>5, <1>7, <2>3
  <2> HIDE DEF u, LO, q, all, w, h
  <2>9. IsWithin(LO(1, h - 1) \o u, s \o q[h])
    BY <2>7, <2>8, WithinJoined
  <2> QED
    BY <2>2, <2>3, <2>9 DEF Joint, h
<1>8. \A k \in 0..n : all[k] \in Seq(L)
  BY <1>5
<1>9. all[n] = LO(1, n)
  BY <1>1
<1> HIDE DEF n, w, q, LO, all
<1>10. IsWithin(all[n], FlattenSeq(q))
  BY <1>1, <1>2, <1>3, <1>4, <1>6, <1>7, <1>8, RunsSurvive
<1> QED
  BY <1>1, <1>9, <1>10 DEF LO, n

\* Pieces r, of which those in Z are not empty, come one after the other in a list that
\* grows by them, and by more: all[m] is what it has at m, and the k-th piece lies
\* between beg[k] and end[k].
Placed(L, N, r, Z, n, beg, end, all) ==
    /\ N \in Nat /\ r \in Seq(Seq(L)) /\ Len(r) = N
    /\ Z \in SUBSET (1..N)
    /\ \A k \in 1..N : k \notin Z => r[k] = <<>>
    /\ n \in Nat /\ beg \in [Z -> 0..n] /\ end \in [Z -> 0..n]
    /\ \A j, k \in Z : j < k => end[j] <= beg[k]
    /\ \A m \in 0..n : all[m] \in Seq(L)
    /\ \A i, m \in 0..n : i <= m => \A s \in Seq(L) : IsWithin(s, all[i]) => IsWithin(s, all[m])
    /\ \A k \in Z : \A s \in Seq(L) :
          IsWithin(s, all[beg[k]]) => IsWithin(Joint(s, r[k]), all[end[k]])

\* Pieces so placed, put together, are within the whole list.
LEMMA PiecesWithin ==
  ASSUME NEW L, NEW N, NEW r, NEW Z, NEW n, NEW beg, NEW end, NEW all,
         Placed(L, N, r, Z, n, beg, end, all)
  PROVE  IsWithin(FlattenSeq(r), all[n])
<1> USE DEF Placed
<1>1. PICK F \in Together(L, N, r) : FlattenSeq(r) = F[N]
  BY FlattenTogether
<1>2. /\ F[0] = <<>>
      /\ \A k \in 0..N : F[k] \in Seq(L)
      /\ \A k \in 1..N : F[k] = Joint(F[k - 1], r[k]) /\ r[k] \in Seq(L)
  BY TogetherSteps
<1>3. \A k \in 1..N : r[k] = <<>> => F[k] = F[k - 1]
  <2> SUFFICES ASSUME NEW k \in 1..N, r[k] = <<>> PROVE F[k] = F[k - 1]
    OBVIOUS
  <2>1. k - 1 \in 0..N
    OBVIOUS
  <2>2. F[k - 1] \in Seq(L) /\ F[k] = F[k - 1] \o r[k]
    BY <1>2, <2>1 DEF Joint
  <2> QED
    BY <2>2
<1> DEFINE Passes(k, m) == \A j \in Z : j <= k => end[j] <= m
           T == {k \in Nat : k <= N => \A m \in 0..n : Passes(k, m) => IsWithin(F[k], all[m])}
<1>4. 0 \in T
  BY <1>2, NothingWithin
<1>5. ASSUME NEW k \in Nat, k \in T PROVE k + 1 \in T
  <2> SUFFICES ASSUME NEW l \in 1..N, l = k + 1, NEW m \in 0..n, Passes(l, m)
               PROVE  IsWithin(F[l], all[m])
    OBVIOUS
  <2>1. l - 1 = k /\ k <= N /\ k \in 0..N
    OBVIOUS
  <2>2. CASE l \notin Z
    <3>1. Passes(k, m)
      OBVIOUS
    <3>2. IsWithin(F[k], all[m])
      BY <1>5, <2>1, <3>1
    <3>3. F[l] = F[k]
      BY <1>3, <2>1, <2>2
    <3> QED
      BY <3>2, <3>3
  <2>3. CASE l \in Z
    <3> DEFINE i == beg[l]
    <3>1. i \in 0..n /\ end[l] \in 0..n /\ end[l] <= m
      BY <2>3
    <3>2. Passes(k, i)
      <4> SUFFICES ASSUME NEW j \in Z, j <= k PROVE end[j] <= i
        OBVIOUS
      <4>1. j < l
        OBVIOUS
      <4> QED
        BY <2>3, <4>1
    <3>3. IsWithin(F[k], all[i]) /\ F[k] \in Seq(L)
      <4> HIDE DEF Passes, i
      <4> QED
        BY <1>2, <1>5, <2>1, <3>1, <3>2
    <3>4. IsWithin(Joint(F[k], r[l]), all[end[l]])
      BY <2>3, <3>3
    <3>5. F[l] = Joint(F[k], r[l]) /\ F[l] \in Seq(L)
      BY <1>2, <2>1
    <3> QED
      BY <3>1, <3>4, <3>5
  <2> QED
    BY <2>2, <2>3
<1> HIDE DEF T
<1>6. N \in T
  BY <1>4, <1>5, SetInduction
<1>7. n \in 0..n /\ Passes(N, n)
  OBVIOUS
<1>8. IsWithin(F[N], all[n])
  <2> HIDE DEF Passes
  <2> QED
    BY <1>6, <1>7 DEF T
<1> QED
  BY <1>1, <1>8

\* A side has no fewer lines in more hunks.
LEMMA LinesOfGrow ==
  ASSUME NEW L, NEW n, NEW hs \in Seq(Hunk(L, n)), NEW which
  PROVE  \A i, m \in 0..Len(hs) : i <= m => \A s \in Seq(L) :
            IsWithin(s, LinesOf(hs, 1..i, which)) => IsWithin(s, LinesOf(hs, 1..m, which))
<1> SUFFICES ASSUME NEW i \in 0..Len(hs), NEW m \in 0..Len(hs), i <= m, NEW s \in Seq(L),
                    IsWithin(s, LinesOf(hs, 1..i, which))
             PROVE  IsWithin(s, LinesOf(hs, 1..m, which))
  OBVIOUS
<1> DEFINE LO(j, k) == LinesOf(hs, j..k, which)
<1>1. CASE i = m
  BY <1>1
<1>2. CASE i # m
  <2>1. i + 1 \in 1..Len(hs) /\ m \in i + 1..Len(hs) /\ (i + 1) - 1 = i
    BY <1>2
  <2>2. \A j \in 1..Len(hs) : \A k \in j..Len(hs) : LO(1, k) = Joint(LO(1, j - 1), LO(j, k))
    BY LinesOfCut
  <2>3. \A j, k : LO(j, k) \in Seq(L)
    BY LinesOfType
  <2> HIDE DEF LO
  <2>4. LO(1, m) = Joint(LO(1, i), LO(i + 1, m))
    BY <2>1, <2>2
  <2>5. IsWithin(s, LO(1, i) \o LO(i + 1, m))
    <3>1. IsWithin(s, LO(1, i))
      BY DEF LO
    <3> QED
      BY <2>3, <3>1, WithinMore
  <2> QED
    BY <2>4, <2>5 DEF Joint, LO
<1> QED
  BY <1>1, <1>2

\* The lines that a side has put in are among those of its hunks.
LEMMA AddedWithin ==
  ASSUME NEW L, NEW base \in Seq(L), NEW side \in Seq(L), NEW which \in {"ours", "theirs"},
         NEW hs \in Seq(Hunk(L, Len(base))),
         \A h \in Hunks(base, side, which) : \E i \in 1..Len(hs) : hs[i] = h,
         \A i, j \in 1..Len(hs) : i < j => ~Before(hs[j], hs[i]),
         NEW put \in Added(base, side)
  PROVE  IsWithin(put, LinesOf(hs, 1..Len(hs), which))
<1> DEFINE n == Len(hs)
<1>1. PICK frame \in Frames(base, side) :
         put = FlattenSeq([k \in 1..Len(frame) - 1 |-> Gap(frame, side, "one", k).lines])
  BY DEF Added
<1> DEFINE N == Len(frame) - 1
           h == [k \in 1..N |-> Gap(frame, side, which, k)]
           r == [k \in 1..N |-> Gap(frame, side, "one", k).lines]
           Z == {k \in 1..N : r[k] # <<>>}
           pos == [k \in Z |-> CHOOSE i \in 1..n : hs[i] = h[k]]
           all == [m \in 0..n |-> LinesOf(hs, 1..m, which)]
<1>2. N \in Nat /\ n \in Nat /\ \A j, k \in 1..N : j < k => frame[j][1] < frame[k][1]
  <2>1. Len(frame) \in Nat /\ Len(frame) >= 2
    BY FrameShape
  <2>2. \A j, k \in 1..Len(frame) : j < k => frame[j][1] < frame[k][1]
    BY FrameShape
  <2>3. N \in Nat /\ n \in Nat /\ \A j \in 1..N : j \in 1..Len(frame)
    BY <2>1
  <2> HIDE DEF n, N
  <2> QED
    BY <2>2, <2>3
<1>3. \A k \in 1..N : /\ r[k] \in Seq(L) /\ h[k].lines = r[k] /\ h[k].side = which
                       /\ h[k].from = frame[k][1] /\ h[k].from \in Nat
  <2> SUFFICES ASSUME NEW k \in 1..N
               PROVE  /\ r[k] \in Seq(L) /\ h[k].lines = r[k] /\ h[k].side = which
                      /\ h[k].from = frame[k][1] /\ h[k].from \in Nat
    OBVIOUS
  <2>1. h[k] \in [side: {which}, from: 0..Len(base), to: 0..Len(base), lines: Seq(L)]
    BY GapType
  <2>2. h[k].lines = r[k] /\ h[k].side = which /\ h[k].from = frame[k][1]
    BY DEF Gap
  <2> QED
    BY <2>1, <2>2
<1>4. \A k \in Z : h[k] \in Hunks(base, side, which)
  BY <1>3 DEF Hunks
<1>5. \A k \in Z : pos[k] \in 1..n /\ hs[pos[k]] = h[k]
  BY <1>4
<1>20. Z \subseteq 1..N
  OBVIOUS
<1>6. ASSUME NEW j \in Z, NEW k \in Z, j < k PROVE pos[j] < pos[k]
  <2> HIDE DEF n, N, h, r, Z, pos, all
  <2>1. h[j].from < h[k].from
    BY <1>2, <1>3, <1>6, <1>20
  <2>2. Before(hs[pos[j]], hs[pos[k]])
    BY <1>5, <2>1 DEF Before
  <2>3. ~(pos[k] < pos[j])
    BY <1>5, <2>2 DEF n
  <2>4. pos[j] # pos[k]
    <3>1. h[j].from \in Nat /\ h[k].from \in Nat
      BY <1>3, <1>20
    <3> QED
      BY <1>5, <2>1, <3>1
  <2> QED
    BY <1>2, <1>5, <2>3, <2>4
<1>7. r \in Seq(Seq(L)) /\ Len(r) = N
  BY <1>2, <1>3
<1>8. \A k \in 1..N : k \notin Z => r[k] = <<>>
  OBVIOUS
<1>9. \A m \in 0..n : all[m] = LinesOf(hs, 1..m, which) /\ all[m] \in Seq(L)
  BY LinesOfType
<1>10. \A i, m \in 0..n : i <= m => \A s \in Seq(L) : IsWithin(s, all[i]) => IsWithin(s, all[m])
  BY <1>9, LinesOfGrow
<1>11. ASSUME NEW k \in Z, NEW s \in Seq(L), IsWithin(s, all[pos[k] - 1])
       PROVE  IsWithin(Joint(s, r[k]), all[pos[k]])
  <2> HIDE DEF N, h, r, Z, pos, all, n
  <2>1. PICK p \in 1..n : p = pos[k]
    BY <1>5
  <2>2. p \in 0..n /\ p - 1 \in 0..n /\ 1 \in 1..p
    BY <1>2
  <2>3. LinesOf(hs, 1..p, which) = LinesOf(hs, 1..p - 1, which) \o Piece(hs, p, which)
    BY <2>2, LinesOfExtend DEF n
  <2>4. Piece(hs, p, which) = r[k]
    BY <1>3, <1>5, <1>20, <2>1 DEF Piece
  <2>5. all[p] = all[p - 1] \o r[k] /\ all[p - 1] \in Seq(L) /\ r[k] \in Seq(L)
    BY <1>3, <1>9, <1>20, <2>2, <2>3, <2>4
  <2>6. IsWithin(r[k], r[k])
    BY <2>5, WithinItself
  <2>7. IsWithin(s, all[p - 1])
    BY <1>11, <2>1
  <2>8. IsWithin(s \o r[k], all[p - 1] \o r[k])
    BY <2>5, <2>6, <2>7, WithinJoined
  <2> QED
    BY <2>1, <2>5, <2>8 DEF Joint
<1>12. pos \in [Z -> 1..n] /\ Z \in SUBSET (1..N)
  BY <1>5
<1>13. put = FlattenSeq(r) /\ all[n] = LinesOf(hs, 1..Len(hs), which)
  BY <1>1, <1>2
<1> HIDE DEF n, N, h, r, Z, pos, all
<1> DEFINE beg == [k \in Z |-> pos[k] - 1]
<1>14. /\ beg \in [Z -> 0..n] /\ pos \in [Z -> 0..n]
       /\ \A k \in Z : beg[k] = pos[k] - 1
       /\ \A j, k \in Z : j < k => pos[j] <= beg[k]
  BY <1>2, <1>6, <1>12
<1> HIDE DEF beg
<1>15. Placed(L, N, r, Z, n, beg, pos, all)
  BY <1>2, <1>7, <1>8, <1>9, <1>10, <1>11, <1>12, <1>14 DEF Placed
<1>16. IsWithin(FlattenSeq(r), all[n])
  BY <1>15, PiecesWithin
<1> QED
  BY <1>13, <1>16

\* What is within a text that is within another is within the other.
LEMMA WithinTransitive ==
  ASSUME NEW L, NEW s \in Seq(L), NEW t \in Seq(L), NEW u \in Seq(L), IsWithin(s, t), IsWithin(t, u)
  PROVE  IsWithin(s, u)
<1>1. PICK f \in [DOMAIN s -> DOMAIN t] :
        /\ \A i, j \in DOMAIN s : i < j => f[i] < f[j]
        /\ \A i \in DOMAIN s : s[i] = t[f[i]]
  BY DEF IsWithin
<1>2. PICK g \in [DOMAIN t -> DOMAIN u] :
        /\ \A i, j \in DOMAIN t : i < j => g[i] < g[j]
        /\ \A i \in DOMAIN t : t[i] = u[g[i]]
  BY DEF IsWithin
<1> DEFINE h == [i \in DOMAIN s |-> g[f[i]]]
<1>3. h \in [DOMAIN s -> DOMAIN u] /\ \A i \in DOMAIN s : h[i] = g[f[i]] /\ f[i] \in DOMAIN t
  OBVIOUS
<1> HIDE DEF h
<1> QED
  BY SMTT(30), <1>1, <1>2, <1>3 DEF IsWithin

\* A clean merge keeps what either side has put in.
LEMMA MergeKeeps ==
  ASSUME NEW L, NEW base \in Seq(L), NEW ours \in Seq(L), NEW theirs \in Seq(L),
         NEW m \in Merges(base, ours, theirs), m.clean,
         NEW edited \in {ours, theirs}, NEW put \in Added(base, edited), put \in Seq(L)
  PROVE  IsWithin(put, m.lines)
<1>1. PICK hs \in Sorted(Hunks(base, ours, "ours") \cup Hunks(base, theirs, "theirs")) :
         m = Joined(base, hs)
  BY DEF Merges
<1>2. /\ hs \in Seq(Hunk(L, Len(base)))
      /\ \A h \in Hunks(base, ours, "ours") \cup Hunks(base, theirs, "theirs") :
            \E i \in 1..Len(hs) : hs[i] = h
      /\ \A i, j \in 1..Len(hs) : i < j => hs[i] # hs[j] /\ ~Before(hs[j], hs[i])
  BY BothHunks, Zenon
<1>3. PICK which \in {"ours", "theirs"} :
         \A h \in Hunks(base, edited, which) : \E i \in 1..Len(hs) : hs[i] = h
  <2>1. \A h \in Hunks(base, ours, "ours") : \E i \in 1..Len(hs) : hs[i] = h
    BY <1>2, Zenon
  <2>2. \A h \in Hunks(base, theirs, "theirs") : \E i \in 1..Len(hs) : hs[i] = h
    BY <1>2, Zenon
  <2> QED
    BY <2>1, <2>2, Zenon
<1>4. IsWithin(put, LinesOf(hs, 1..Len(hs), which))
  <2>1. edited \in Seq(L)
    OBVIOUS
  <2>2. hs \in Seq(Hunk(L, Len(base)))
    BY <1>2
  <2>3. \A i, j \in 1..Len(hs) : i < j => ~Before(hs[j], hs[i])
    BY <1>2, Zenon
  <2> QED
    BY <1>3, <2>1, <2>2, <2>3, AddedWithin, Zenon
<1>5. IsWithin(LinesOf(hs, 1..Len(hs), which), m.lines)
  BY <1>1, <1>2, SideSurvives
<1>6. LinesOf(hs, 1..Len(hs), which) \in Seq(L)
  BY <1>2, LinesOfType
<1>7. m.lines \in Seq(L)
  BY MergesType
<1> QED
  BY <1>4, <1>5, <1>6, <1>7, WithinTransitive

-----------------------------------------------------------------------------
\* What a side has put in, without a merge.

\* A beginning of a text can be cut in two.
LEMMA BeginningCut ==
  ASSUME NEW L, NEW s \in Seq(L), NEW i \in 0..Len(s), NEW m \in i..Len(s)
  PROVE  /\ SubSeq(s, 1, m) = Joint(SubSeq(s, 1, i), SubSeq(s, i + 1, m))
         /\ SubSeq(s, 1, i) \in Seq(L) /\ SubSeq(s, i + 1, m) \in Seq(L) /\ SubSeq(s, 1, m) \in Seq(L)
<1> DEFINE x == SubSeq(s, 1, m)
           y == SubSeq(s, 1, i)
           z == SubSeq(s, i + 1, m)
<1>1. Len(s) \in Nat /\ i \in Nat /\ m \in Nat /\ i <= m /\ m <= Len(s)
  OBVIOUS
<1>2. /\ x \in Seq(L) /\ Len(x) = m /\ \A k \in 1..m : x[k] = s[k]
      /\ y \in Seq(L) /\ Len(y) = i /\ \A k \in 1..i : y[k] = s[k]
      /\ z \in Seq(L) /\ Len(z) = m - i /\ \A k \in 1..m - i : z[k] = s[i + k]
  <2>1. x \in Seq(L) /\ Len(x) = m /\ \A k \in 1..m : x[k] = s[k]
    BY <1>1
  <2>2. y \in Seq(L) /\ Len(y) = i /\ \A k \in 1..i : y[k] = s[k]
    BY <1>1
  <2>3. z \in Seq(L) /\ Len(z) = m - i
    BY <1>1
  <2>4. \A k \in 1..m - i : z[k] = s[i + k]
    <3> SUFFICES ASSUME NEW k \in 1..m - i PROVE z[k] = s[i + k]
      OBVIOUS
    <3>1. k \in Nat /\ k + i \in 1..m /\ k + i = i + k
      BY <1>1
    <3> QED
      BY <1>1, <3>1
  <2> QED
    BY <2>1, <2>2, <2>3, <2>4
<1> HIDE DEF x, y, z
<1>3. y \o z \in Seq(L) /\ Len(y \o z) = m
  <2>1. Len(y \o z) = Len(y) + Len(z)
    BY <1>2
  <2>2. y \o z \in Seq(L)
    BY <1>2
  <2> QED
    BY <1>1, <1>2, <2>1, <2>2
<1>4. \A k \in 1..m : x[k] = (y \o z)[k]
  <2> SUFFICES ASSUME NEW k \in 1..m PROVE x[k] = (y \o z)[k]
    OBVIOUS
  <2>1. CASE k <= i
    BY <1>1, <1>2, <2>1
  <2>2. CASE ~(k <= i)
    <3>1. k - i \in 1..m - i /\ i + (k - i) = k
      BY <1>1, <2>2
    <3>2. (y \o z)[k] = z[k - i]
      BY <1>1, <1>2, <2>2, <3>1
    <3> QED
      BY <1>2, <3>1, <3>2
  <2> QED
    BY <2>1, <2>2
<1>5. x = y \o z
  BY <1>1, <1>2, <1>3, <1>4, SeqEqual
<1> QED
  BY <1>2, <1>5 DEF x, y, z, Joint

\* The lines that a side has put in are in the text of that side.
LEMMA AddedInside ==
  ASSUME NEW L, NEW base \in Seq(L), NEW side \in Seq(L), NEW put \in Added(base, side)
  PROVE  put \in Seq(L) /\ IsWithin(put, side)
<1> DEFINE n == Len(side)
<1>1. PICK frame \in Frames(base, side) :
         put = FlattenSeq([k \in 1..Len(frame) - 1 |-> Gap(frame, side, "one", k).lines])
  BY DEF Added
<1> DEFINE N == Len(frame) - 1
           r == [k \in 1..N |-> Gap(frame, side, "one", k).lines]
           Z == 1..N
           beg == [k \in Z |-> frame[k][2]]
           end == [k \in Z |-> frame[k + 1][2] - 1]
           all == [m \in 0..n |-> SubSeq(side, 1, m)]
<1>2. /\ N \in Nat /\ n \in Nat
      /\ \A k \in 1..N + 1 : frame[k][2] \in 0..n + 1
      /\ \A j, k \in 1..N + 1 : j < k => frame[j][2] < frame[k][2]
  <2>1. /\ frame \in Seq(Borders(base, side)) /\ Len(frame) \in Nat /\ Len(frame) >= 2
        /\ \A j, k \in 1..Len(frame) : j < k => frame[j][2] < frame[k][2]
    BY FrameShape
  <2>2. N + 1 = Len(frame) /\ N \in Nat /\ n \in Nat
    BY <2>1
  <2>3. \A k \in 1..Len(frame) : frame[k] \in Borders(base, side)
    BY <2>1
  <2> HIDE DEF N
  <2> QED
    BY <2>1, <2>2, <2>3 DEF Borders
<1>3. \A k \in Z : r[k] = SubSeq(side, beg[k] + 1, end[k])
  BY DEF Gap
<1> HIDE DEF r
<1>4. \A k \in Z : beg[k] \in 0..n /\ end[k] \in beg[k]..n
  <2> SUFFICES ASSUME NEW k \in Z PROVE beg[k] \in 0..n /\ end[k] \in beg[k]..n
    OBVIOUS
  <2>1. k \in 1..N + 1 /\ k + 1 \in 1..N + 1 /\ k < k + 1
    BY <1>2
  <2>2. frame[k][2] \in 0..n + 1 /\ frame[k + 1][2] \in 0..n + 1 /\ frame[k][2] < frame[k + 1][2]
    BY <1>2, <2>1
  <2> HIDE DEF n, N
  <2> QED
    BY <1>2, <2>2
<1>5. \A j, k \in Z : j < k => end[j] <= beg[k]
  <2> SUFFICES ASSUME NEW j \in Z, NEW k \in Z, j < k PROVE end[j] <= beg[k]
    OBVIOUS
  <2>1. k \in 1..N + 1 /\ j + 1 \in 1..N + 1 /\ (j + 1 = k \/ j + 1 < k)
    BY <1>2
  <2>2. frame[j + 1][2] \in Int /\ frame[k][2] \in Int /\ frame[j + 1][2] <= frame[k][2]
    BY <1>2, <2>1
  <2> HIDE DEF n, N
  <2> QED
    BY <1>2, <2>2
<1> HIDE DEF beg, end
<1>6. \A m \in 0..n : all[m] = SubSeq(side, 1, m)
  OBVIOUS
<1> HIDE DEF all, N
<1>7. ASSUME NEW i \in 0..n, NEW m \in i..n
      PROVE  /\ all[m] = Joint(all[i], SubSeq(side, i + 1, m))
             /\ all[i] \in Seq(L) /\ all[m] \in Seq(L) /\ SubSeq(side, i + 1, m) \in Seq(L)
  <2>1. m \in 0..n
    BY <1>2
  <2> QED
    BY <1>6, <2>1, BeginningCut
<1>8. ASSUME NEW i \in 0..n, NEW m \in i..n, NEW s \in Seq(L), IsWithin(s, all[i])
      PROVE  /\ IsWithin(s, all[m])
             /\ IsWithin(Joint(s, SubSeq(side, i + 1, m)), all[m])
  <2> DEFINE t == SubSeq(side, i + 1, m)
  <2>1. all[m] = all[i] \o t /\ all[i] \in Seq(L) /\ t \in Seq(L)
    BY <1>7 DEF Joint
  <2> HIDE DEF t
  <2>2. IsWithin(s, all[i] \o t)
    BY <1>8, <2>1, WithinMore
  <2>3. IsWithin(t, t)
    BY <2>1, WithinItself
  <2>4. IsWithin(s \o t, all[i] \o t)
    BY <1>8, <2>1, <2>3, WithinJoined
  <2> QED
    BY <2>1, <2>2, <2>4 DEF t, Joint
<1> HIDE DEF n
<1>9. r \in Seq(Seq(L)) /\ Len(r) = N
  <2>1. \A k \in 1..N : r[k] \in Seq(L)
    BY <1>3, <1>4, <1>7
  <2> QED
    BY <1>2, <2>1 DEF r
<1>10. Placed(L, N, r, Z, n, beg, end, all)
  <2>1. \A m \in 0..n : all[m] \in Seq(L)
    BY <1>2, <1>7
  <2>2. \A i, m \in 0..n : i <= m => \A s \in Seq(L) : IsWithin(s, all[i]) => IsWithin(s, all[m])
    BY <1>2, <1>8
  <2>3. \A k \in Z : \A s \in Seq(L) :
           IsWithin(s, all[beg[k]]) => IsWithin(Joint(s, r[k]), all[end[k]])
    BY <1>3, <1>4, <1>8
  <2>4. beg \in [Z -> 0..n] /\ end \in [Z -> 0..n]
    BY <1>2, <1>4 DEF beg, end
  <2>5. Z \in SUBSET (1..N) /\ \A k \in 1..N : k \in Z
    OBVIOUS
  <2> HIDE DEF Z
  <2> QED
    BY <1>2, <1>5, <1>9, <2>1, <2>2, <2>3, <2>4, <2>5 DEF Placed
<1>11. IsWithin(FlattenSeq(r), all[n])
  BY <1>10, PiecesWithin
<1>12. all[n] = side
  BY <1>2, <1>6 DEF n
<1>13. put = FlattenSeq(r) /\ put \in Seq(L)
  <2>1. put = FlattenSeq(r)
    BY <1>1 DEF r, N
  <2> QED
    BY <2>1, <1>9, FlattenType
<1> QED
  BY <1>11, <1>12, <1>13

\* One pair before the pairs that come after it, all with the same position in both.
Diagonal(s, i, n) == s \in Seq(Nat \X Nat) /\ Len(s) = n - i /\ \A k \in 1..n - i : s[k][2] = i + k

\* It stays so with one more in front.
LEMMA DiagonalFirst ==
  ASSUME NEW n \in Nat, NEW i \in Nat, i < n, NEW s, Diagonal(s, i + 1, n)
  PROVE  Diagonal(<<<<i + 1, i + 1>>>> \o s, i, n)
<1> DEFINE x == <<i + 1, i + 1>>
           t == <<x>> \o s
<1>1. x \in Nat \X Nat /\ x[2] = i + 1 /\ s \in Seq(Nat \X Nat) /\ Len(s) = n - (i + 1)
  BY DEF Diagonal
<1> HIDE DEF x
<1>2. t \in Seq(Nat \X Nat) /\ Len(t) = Len(s) + 1 /\ t[1] = x
      /\ \A k \in 1..Len(t) : k # 1 => t[k] = s[k - 1]
  BY <1>1
<1> HIDE DEF t
<1>3. ASSUME NEW k \in 1..n - i PROVE t[k][2] = i + k
  <2>1. CASE k = 1
    BY <1>1, <1>2, <2>1
  <2>2. CASE k # 1
    <3>1. k - 1 \in 1..n - (i + 1) /\ k \in 1..Len(t) /\ (i + 1) + (k - 1) = i + k
      BY <1>1, <1>2, <2>2
    <3>2. s[k - 1][2] = (i + 1) + (k - 1)
      BY <3>1 DEF Diagonal
    <3> QED
      BY <1>2, <2>2, <3>1, <3>2
  <2> QED
    BY <2>1, <2>2
<1> QED
  BY <1>1, <1>2, <1>3 DEF Diagonal, t, x

\* A text has all its lines in common with itself.
LEMMA AnchorsSame == ASSUME NEW L, NEW a \in Seq(L) PROVE Diagonal(Anchors(a, a), 0, Len(a))
<1> DEFINE n == Len(a)
           A == AnchorsFrom(a, a)
           T == {d \in Nat : \A i \in 0..n : n - i = d => Diagonal(A[<<i, i>>], i, n)}
<1>1. n \in Nat
  OBVIOUS
<1>2. \A i \in 0..n : /\ i = n => A[<<i, i>>] = <<>>
                      /\ i # n => A[<<i, i>>] = <<<<i + 1, i + 1>>>> \o A[<<i + 1, i + 1>>]
  <2> SUFFICES ASSUME NEW i \in 0..n
               PROVE  /\ i = n => A[<<i, i>>] = <<>>
                      /\ i # n => A[<<i, i>>] = <<<<i + 1, i + 1>>>> \o A[<<i + 1, i + 1>>]
    OBVIOUS
  <2>1. <<i, i>> \in Passed(a, a)
    BY DEF Passed
  <2>2. PICK p \in Passed(a, a) : p = <<i, i>>
    BY <2>1
  <2>3. A[p] = IF p[1] = Len(a) \/ p[2] = Len(a) THEN <<>>
               ELSE IF a[p[1] + 1] = a[p[2] + 1]
                    THEN <<<<p[1] + 1, p[2] + 1>>>> \o A[<<p[1] + 1, p[2] + 1>>]
               ELSE IF SkipsFirst(a, a, p) THEN A[<<p[1] + 1, p[2]>>]
               ELSE A[<<p[1], p[2] + 1>>]
    BY AnchorsEquation
  <2> HIDE DEF A
  <2>4. p[1] = i /\ p[2] = i
    BY <2>2
  <2>5. A[p] = IF i = n THEN <<>> ELSE <<<<i + 1, i + 1>>>> \o A[<<i + 1, i + 1>>]
    BY <2>3, <2>4
  <2> HIDE DEF n
  <2> QED
    BY <2>2, <2>5
<1> HIDE DEF n, A
<1>3. 0 \in T
  <2> SUFFICES ASSUME NEW i \in 0..n, n - i = 0 PROVE Diagonal(A[<<i, i>>], i, n)
    OBVIOUS
  <2>1. i = n
    BY <1>1
  <2>2. A[<<i, i>>] = <<>>
    BY <1>2, <2>1
  <2> QED
    BY <1>1, <2>1, <2>2 DEF Diagonal
<1>4. ASSUME NEW d \in Nat, d \in T PROVE d + 1 \in T
  <2> SUFFICES ASSUME NEW i \in 0..n, n - i = d + 1 PROVE Diagonal(A[<<i, i>>], i, n)
    OBVIOUS
  <2>1. i \in Nat /\ i < n /\ i # n /\ i + 1 \in 0..n /\ n - (i + 1) = d
    BY <1>1
  <2>2. Diagonal(A[<<i + 1, i + 1>>], i + 1, n)
    BY <1>4, <2>1
  <2>3. Diagonal(<<<<i + 1, i + 1>>>> \o A[<<i + 1, i + 1>>], i, n)
    BY <1>1, <2>1, <2>2, DiagonalFirst
  <2> QED
    BY <1>2, <2>1, <2>3
<1> HIDE DEF T
<1>5. Nat \subseteq T
  BY <1>3, <1>4, SetInduction
<1>6. 0 \in 0..n /\ n - 0 \in Nat
  BY <1>1
<1>7. Diagonal(A[<<0, 0>>], 0, n)
  BY <1>5, <1>6 DEF T
<1> QED
  BY <1>7 DEF A, n, Anchors

\* So it puts nothing in.
LEMMA AddedSame == ASSUME NEW L, NEW a \in Seq(L), NEW put \in Added(a, a) PROVE put = <<>>
<1> DEFINE n == Len(a)
           s == Anchors(a, a)
           o == <<0, 0>>
           e == <<n + 1, n + 1>>
           W == Nat \X Nat
<1>1. PICK frame \in Frames(a, a) :
         put = FlattenSeq([k \in 1..Len(frame) - 1 |-> Gap(frame, a, "one", k).lines])
  BY DEF Added
<1>2. n \in Nat /\ s \in Seq(W) /\ Len(s) = n /\ \A k \in 1..n : s[k][2] = k
  BY AnchorsSame DEF Diagonal
<1>3. o \in W /\ e \in W /\ o[2] = 0 /\ e[2] = n + 1
  BY <1>2
<1>4. frame = <<o>> \o s \o <<e>>
  BY DEF Frames
<1> HIDE DEF n, s, o, e, W
<1>5. /\ Len(frame) = n + 2
      /\ frame[1] = o /\ frame[n + 2] = e
      /\ \A k \in 1..n + 2 : k # 1 /\ k # n + 2 => k - 1 \in 1..n /\ frame[k] = s[k - 1]
  <2>1. n \in Nat /\ s \in Seq(W) /\ Len(s) = n /\ o \in W /\ e \in W
    BY <1>2, <1>3
  <2> QED
    BY <1>4, <2>1
<1>6. \A k \in 1..n + 2 : frame[k][2] = k - 1
  BY <1>2, <1>3, <1>5
<1> DEFINE N == n + 1
           r == [k \in 1..N |-> Gap(frame, a, "one", k).lines]
<1>7. N = Len(frame) - 1 /\ N \in Nat
  BY <1>2, <1>5
<1>8. \A k \in 1..N : r[k] = <<>>
  <2> SUFFICES ASSUME NEW k \in 1..N PROVE Gap(frame, a, "one", k).lines = <<>>
    OBVIOUS
  <2>1. k \in 1..n + 2 /\ k + 1 \in 1..n + 2 /\ (k + 1) - 1 = k /\ (k - 1) + 1 = k
    BY <1>2
  <2>2. frame[k][2] = k - 1 /\ frame[k + 1][2] = k
    BY <1>6, <2>1
  <2>3. Gap(frame, a, "one", k).lines = SubSeq(a, frame[k][2] + 1, frame[k + 1][2] - 1)
    BY DEF Gap
  <2>4. Gap(frame, a, "one", k).lines = SubSeq(a, k, k - 1)
    BY <2>1, <2>2, <2>3
  <2>5. SubSeq(a, k, k - 1) = <<>>
    BY <2>1, SubSeqEmpty
  <2> QED
    BY <2>4, <2>5
<1>9. put = FlattenSeq(r)
  BY <1>1, <1>7
<1> HIDE DEF N, r
<1>10. r \in Seq(Seq(L)) /\ Len(r) = N
  <2> DEFINE nil == <<>>
  <2>1. nil \in Seq(L) /\ \A k \in 1..N : r[k] = nil
    BY <1>8
  <2> HIDE DEF nil
  <2>2. \A k \in 1..N : r[k] \in Seq(L)
    BY <2>1
  <2> QED
    BY <1>7, <2>2 DEF r
<1> QED
  BY <1>7, <1>8, <1>9, <1>10, FlattenEmpty

-----------------------------------------------------------------------------

\* What is known of a scenario.
LEMMA Options ==
  ASSUME Shape
  PROVE  /\ scn.paths \subseteq Path
         /\ scn.keep \in Nat \ {0}
BY ScenariosAssumption DEF Shape, ScenarioType

\* The initial states satisfy the invariant.
LEMMA InitIInv == Init => IInv
<1> SUFFICES ASSUME Init PROVE IInv
  OBVIOUS
<1>1. Shape
  BY ScenariosAssumption DEF Init, Shape, ScenarioType
<1>2. Lists
  BY <1>1, FS_EmptySet DEF Init, Lists, Known
<1> QED
  BY <1>1, <1>2 DEF Init, IInv, Turns, Courses, OneFile, JustTaken, CheckedIsReplaced,
     RecordsHaveBlobs, BackupAtHand, Revivals, Inside

\* A call ends: the others keep what they have, as long as no file but its own
\* has changed and no blob is gone.
LEMMA Leaving ==
  ASSUME IInv, NEW c \in Client, at[c] \in Inside, Leave(c),
         UNCHANGED <<scn, index, stale, revived, clock>>,
         blobs \subseteq blobs',
         DOMAIN disk' = Path,
         \A p \in Path : p # req[c].path => disk'[p] = disk[p]
  PROVE  IInv'
<1>1. req[c].path \in Path
  BY Options DEF IInv, Turns, Shape, Inside
<1>2. Shape'
  BY <1>1 DEF IInv, Shape, Leave
<1>3. \A d \in Client \ {c} : /\ at'[d] = at[d] /\ req'[d] = req[d] /\ based'[d] = based[d]
                              /\ list'[d] = list[d] /\ raced'[d] = raced[d]
  BY DEF IInv, Shape, Leave
<1>4. at'[c] = "idle" /\ list'[c] = None /\ ~raced'[c]
  BY DEF IInv, Shape, Leave
<1>5. \A d \in Client \ {c} : at[d] \in Inside => req[d].path \in Path /\ req[d].path # req[c].path
  BY Options DEF IInv, Turns, Shape, Inside
<1>6. Turns'
  BY <1>1, <1>3, <1>4, <1>5 DEF IInv, Turns, Shape, Leave, Inside
<1>7. Courses'
  BY <1>3, <1>4 DEF IInv, Courses
<1>8. Lists'
  BY <1>3, <1>4 DEF IInv, Lists, Known
<1>9. OneFile'
  BY <1>3, <1>4 DEF IInv, OneFile
<1>10. JustTaken'
  BY <1>3, <1>4 DEF IInv, JustTaken, HasNewest, Taken, Mine
<1>11. CheckedIsReplaced'
  BY <1>3, <1>4, <1>5 DEF IInv, CheckedIsReplaced, Inside
<1>12. RecordsHaveBlobs'
  BY DEF IInv, RecordsHaveBlobs
<1>13. BackupAtHand'
  BY <1>3, <1>4 DEF IInv, BackupAtHand, Taken, Mine
<1>14. Revivals'
  BY DEF IInv, Revivals
<1> QED
  BY <1>2, <1>6, <1>7, <1>8, <1>9, <1>10, <1>11, <1>12, <1>13, <1>14 DEF IInv

\* A call goes on to the step s, with the index as it is; what the invariant says
\* of the call itself is given.
LEMMA GoingOn ==
  ASSUME IInv, NEW c \in Client, NEW s \in Inside, at[c] \in Inside, GoOn(c, s),
         UNCHANGED <<scn, index, stale, revived, clock>>,
         blobs \subseteq blobs',
         DOMAIN disk' = Path, DOMAIN based' = Client, DOMAIN list' = Client,
         \A p \in Path : p # req[c].path => disk'[p] = disk[p],
         \A d \in Client \ {c} : based'[d] = based[d] /\ list'[d] = list[d],
         s \in {"check", "verify", "move"} => req[c].op = "apply",
         s = "put" => req[c].op # "apply",
         s \notin {"drop", "move"} => list'[c] = None,
         s = "drop" => list'[c] = index,
         s \in {"prune", "drop"} /\ ~raced[c] /\ ~stale /\ req[c].op = "apply"
            => HasNewest(index, c) /\ based'[c] = based[c],
         s \in {"backup", "prune", "drop", "move"} /\ ~raced[c] /\ req[c].op = "apply"
            => disk'[req[c].path] = based'[c],
         /\ s = "move" /\ ~raced[c] /\ ~stale /\ list'[c] # None
         /\ Cardinality(Taken(list[c], c)') = 1
         => Taken(index, c)' # {}
  PROVE  IInv'
<1>1. Shape'
  BY DEF IInv, Shape, GoOn
<1>2. \A d \in Client \ {c} : at'[d] = at[d] /\ based'[d] = based[d] /\ list'[d] = list[d]
  BY DEF IInv, Shape, GoOn
<1>3. at'[c] = s /\ req' = req /\ raced' = raced /\ gate' = gate
  BY DEF IInv, Shape, GoOn
<1>4. \A d \in Client \ {c} : at[d] \in Inside => req[d].path \in Path /\ req[d].path # req[c].path
  BY Options DEF IInv, Turns, Shape, Inside
<1>5. Turns'
  BY <1>2, <1>3 DEF IInv, Turns, Inside
<1>6. Courses'
  BY <1>2, <1>3 DEF IInv, Courses, Inside
<1>7. Lists'
  BY <1>2, <1>3 DEF IInv, Lists, Known
<1>8. OneFile'
  BY <1>2, <1>3 DEF IInv, OneFile
<1>9. JustTaken'
  <2> SUFFICES ASSUME NEW d \in Client, ~raced'[d], ~stale', req'[d].op = "apply"
               PROVE  /\ at'[d] = "prune" => HasNewest(index, d)'
                      /\ at'[d] = "drop" => HasNewest(list[d], d)'
    BY DEF JustTaken
  <2>1. CASE d = c
    <3>1. s \in {"prune", "drop"} => HasNewest(index, c) /\ based'[c] = based[c]
      BY <2>1, <1>3
    <3>2. s = "drop" => list'[c] = index
      OBVIOUS
    <3> QED
      BY <2>1, <3>1, <3>2, <1>3 DEF HasNewest, Taken, Mine
  <2>2. CASE d # c
    BY <2>2, <1>2, <1>3 DEF IInv, JustTaken, HasNewest, Taken, Mine
  <2> QED
    BY <2>1, <2>2
<1>10. CheckedIsReplaced'
  BY <1>2, <1>3, <1>4 DEF IInv, CheckedIsReplaced, Inside
<1>11. RecordsHaveBlobs'
  BY DEF IInv, RecordsHaveBlobs
<1>13. Revivals'
  BY DEF IInv, Revivals
<1>12. BackupAtHand'
  <2> SUFFICES ASSUME NEW d \in Client, at'[d] = "move", list'[d] # None, ~raced'[d], ~stale',
                      Cardinality(Taken(list[d], d)') = 1
               PROVE  Taken(index, d)' # {} /\ based'[d] \in blobs'
    BY DEF BackupAtHand
  <2>1. ASSUME d = c PROVE Taken(index, d)' # {}
    <3>1. Taken(list[d], d)' = Taken(list[c], c)' /\ Taken(index, d)' = Taken(index, c)'
      BY <2>1 DEF Taken, Mine
    <3>2. Cardinality(Taken(list[c], c)') = 1
      BY <3>1
    <3>3. s = "move" /\ ~raced[c] /\ ~stale /\ list'[c] # None
      BY <2>1, <1>3
    <3>4. Taken(index, c)' # {}
      BY <3>2, <3>3
    <3> QED
      BY <3>1, <3>4
  <2>2. ASSUME d # c PROVE Taken(index, d)' # {}
    <3>1. Taken(list[d], d)' = Taken(list[d], d) /\ Taken(index, d)' = Taken(index, d)
      BY <2>2, <1>2, <1>3 DEF Taken, Mine
    <3> QED
      BY <2>2, <3>1, <1>2, <1>3 DEF IInv, BackupAtHand
  <2>3. Taken(index, d)' # {}
    BY <2>1, <2>2
  <2> QED
    BY <2>3, <1>11, <1>13 DEF RecordsHaveBlobs, Revivals, Taken, Mine
<1> QED
  BY <1>1, <1>5, <1>6, <1>7, <1>8, <1>9, <1>10, <1>11, <1>12, <1>13 DEF IInv

-----------------------------------------------------------------------------
\* The actions that leave the index alone.

\* A call that begins has nothing to do with any file yet.
LEMMA Beginning ==
  ASSUME IInv, NEW c \in Client, at[c] = "idle",
         NEW r, req' = [req EXCEPT ![c] = r], r.path \in scn.paths,
         at' = [at EXCEPT ![c] = "waiting"],
         UNCHANGED <<scn, disks, gate, text, based, list, raced, stale, revived, clock>>
  PROVE  IInv'
<1>1. Shape'
  BY DEF IInv, Shape, disks
<1>2. \A d \in Client \ {c} : at'[d] = at[d] /\ req'[d] = req[d]
  BY DEF IInv, Shape
<1>3. at'[c] = "waiting" /\ req'[c] = r
  BY DEF IInv, Shape
<1>4. /\ Turns' /\ Courses' /\ Lists' /\ OneFile' /\ CheckedIsReplaced' /\ RecordsHaveBlobs'
      /\ Revivals'
  BY <1>2, <1>3 DEF IInv, Turns, Courses, Lists, Known, OneFile, CheckedIsReplaced,
     RecordsHaveBlobs, Revivals, Inside, disks
<1>5. JustTaken'
  BY <1>2, <1>3 DEF IInv, JustTaken, HasNewest, Taken, Mine, disks
<1>6. BackupAtHand'
  BY <1>2, <1>3 DEF IInv, BackupAtHand, Taken, Mine, disks
<1> QED
  BY <1>1, <1>4, <1>5, <1>6 DEF IInv

LEMMA BeginStep == ASSUME IInv, NEW c \in Client, Begin(c) PROVE IInv'
<1>1. PICK p \in scn.paths : \E new, e, b :
        req' = [req EXCEPT ![c] = [op |-> "apply", path |-> p, new |-> new,
                                   expected |-> e, base |-> b]]
  BY DEF Begin
<1> QED
  BY <1>1, Beginning DEF Begin

LEMMA BeginRestoreStep == ASSUME IInv, NEW c \in Client, BeginRestore(c) PROVE IInv'
<1>1. PICK r \in index :
        req' = [req EXCEPT ![c] = [op |-> "restore", path |-> r.path, new |-> r.text,
                                   expected |-> Absent, base |-> None]]
  BY DEF BeginRestore
<1>2. r.path \in scn.paths
  BY DEF IInv, Lists, Known
<1> QED
  BY <1>1, <1>2, Beginning DEF BeginRestore

\* Nobody is inside for a file whose gate is free.
LEMMA EnterStep == ASSUME IInv, NEW c \in Client, Enter(c) PROVE IInv'
<1> DEFINE s == IF req[c].op = "apply" THEN "check" ELSE "backup"
<1>1. \A d \in Client \ {c} : at'[d] = at[d]
  BY DEF IInv, Shape, Enter
<1>2. at'[c] = s /\ s \in {"check", "backup"} /\ list[c] = None
  BY DEF IInv, Shape, Courses, Enter
<1>3. req[c].path \in scn.paths /\ req[c].path \in Path
  BY Options DEF IInv, Turns, Enter
<1>4. Shape'
  BY <1>3 DEF IInv, Shape, Enter, Inside, disks
<1>5. Turns'
  <2> SUFFICES ASSUME NEW d \in Client
               PROVE  /\ at'[d] # "idle" => req[d].path \in scn.paths
                      /\ at'[d] \in Inside => gate'[req[d].path] = d
    BY DEF Turns, Enter
  <2>1. CASE d = c
    BY <2>1, <1>2, <1>3 DEF IInv, Shape, Enter
  <2>2. CASE d # c
    BY <2>2, <1>1, <1>3, NamesAssumption, Options DEF IInv, Shape, Turns, Enter, Inside
  <2> QED
    BY <2>1, <2>2
<1>6. Courses' /\ Lists' /\ OneFile' /\ RecordsHaveBlobs' /\ Revivals'
  BY <1>1, <1>2 DEF IInv, Courses, Lists, Known, OneFile, RecordsHaveBlobs, Revivals, Enter, disks
<1>7. CheckedIsReplaced'
  BY <1>1, <1>2 DEF IInv, CheckedIsReplaced, Enter, disks
<1>8. JustTaken'
  BY <1>1, <1>2 DEF IInv, JustTaken, HasNewest, Taken, Mine, Enter, disks
<1>9. BackupAtHand'
  BY <1>1, <1>2 DEF IInv, BackupAtHand, Taken, Mine, Enter, disks
<1> QED
  BY <1>4, <1>5, <1>6, <1>7, <1>8, <1>9 DEF IInv

LEMMA CheckStep == ASSUME IInv, NEW c \in Client, Check(c) PROVE IInv'
<1>1. at[c] = "check" /\ at[c] \in Inside /\ "verify" \in Inside /\ DOMAIN disk' = Path
  BY DEF IInv, Shape, Check, Inside, disks
<1>2. CASE Leave(c)
  BY <1>1, <1>2, Leaving DEF Check, disks
<1>3. ASSUME NEW t, GoOn(c, "verify"), UNCHANGED list,
             based' = [based EXCEPT ![c] = disk[req[c].path]]
      PROVE  IInv'
  <2>1. req[c].op = "apply" /\ list[c] = None
    BY <1>1 DEF IInv, Courses
  <2>2. \A d \in Client \ {c} : based'[d] = based[d]
    BY <1>3 DEF IInv, Shape
  <2> QED
    BY <1>1, <1>3, <2>1, <2>2, GoingOn DEF IInv, Shape, Check, disks
<1> QED
  BY <1>2, <1>3 DEF Check

LEMMA VerifyStep == ASSUME IInv, NEW c \in Client, Verify(c) PROVE IInv'
<1>1. at[c] = "verify" /\ at[c] \in Inside /\ DOMAIN disk' = Path
  BY DEF IInv, Shape, Verify, Inside, disks
<1>2. CASE Leave(c)
  BY <1>1, <1>2, Leaving DEF Verify, disks
<1>3. ASSUME NEW s \in {"move", "backup"}, GoOn(c, s), disk[req[c].path] = based[c],
             UNCHANGED <<text, based, list>>
      PROVE  IInv'
  <2>1. req[c].op = "apply" /\ list[c] = None /\ s \in Inside
    BY <1>1 DEF IInv, Courses, Inside
  <2> QED
    BY <1>1, <1>3, <2>1, GoingOn DEF IInv, Shape, Verify, disks
<1> QED
  BY <1>2, <1>3 DEF Verify

LEMMA BackupNothingStep == ASSUME IInv, NEW c \in Client, BackupNothing(c) PROVE IInv'
<1>1. at[c] = "backup" /\ at[c] \in Inside /\ "put" \in Inside /\ DOMAIN disk' = Path
  BY DEF IInv, Shape, BackupNothing, Inside, disks
<1>2. list[c] = None
  BY <1>1 DEF IInv, Courses
<1> QED
  BY <1>1, <1>2, Leaving, GoingOn DEF IInv, Shape, BackupNothing, disks

LEMMA BackupFailsStep == ASSUME IInv, NEW c \in Client, BackupFails(c) PROVE IInv'
<1>1. at[c] = "backup" /\ at[c] \in Inside /\ DOMAIN disk' = Path
  BY DEF IInv, Shape, BackupFails, Inside
<1>2. blobs \subseteq blobs'
  BY DEF BackupFails
<1>3. CASE Leave(c)
  BY <1>1, <1>2, <1>3, Leaving DEF BackupFails
<1>4. CASE GoOn(c, WithoutBackup(c)) /\ UNCHANGED <<text, based, list>>
  <2> DEFINE s == WithoutBackup(c)
  <2>1. s \in {"move", "put"} /\ s \in Inside /\ (s = "move" <=> req[c].op = "apply")
    BY DEF WithoutBackup, Inside
  <2>2. list[c] = None
    BY <1>1 DEF IInv, Courses
  <2>3. ~raced[c] /\ req[c].op = "apply" => disk[req[c].path] = based[c]
    BY <1>1 DEF IInv, CheckedIsReplaced
  <2> HIDE DEF s
  <2> QED
    BY <1>1, <1>2, <1>4, <2>1, <2>2, <2>3, GoingOn DEF IInv, Shape, BackupFails, s
<1> QED
  BY <1>3, <1>4 DEF BackupFails

LEMMA PutStep == ASSUME IInv, NEW c \in Client, Put(c) PROVE IInv'
<1>1. at[c] = "put" /\ at[c] \in Inside /\ "prune" \in Inside /\ DOMAIN disk' = Path
  BY DEF IInv, Shape, Put, Inside
<1>2. \A p \in Path : p # req[c].path => disk'[p] = disk[p]
  BY DEF IInv, Shape, Put
<1>3. CASE Leave(c)
  BY <1>1, <1>2, <1>3, Leaving DEF Put
<1>4. CASE GoOn(c, "prune") /\ UNCHANGED <<text, based, list>>
  <2>1. list[c] = None /\ req[c].op # "apply"
    BY <1>1 DEF IInv, Courses
  <2> QED
    BY <1>1, <1>2, <1>4, <2>1, GoingOn DEF IInv, Shape, Put
<1> QED
  BY <1>3, <1>4 DEF Put

\* An operation that fails and ends the call.
LEMMA FailingStep ==
  ASSUME IInv, NEW c \in Client, PutFails(c) \/ DropFails(c) \/ MoveFails(c)
  PROVE  IInv'
<1>1. at[c] \in Inside /\ DOMAIN disk' = Path
  BY DEF IInv, Shape, PutFails, DropFails, MoveFails, Inside, disks
<1> QED
  BY <1>1, Leaving DEF PutFails, DropFails, MoveFails, disks

LEMMA MoveStep == ASSUME IInv, NEW c \in Client, Move(c) PROVE IInv'
<1>1. at[c] \in Inside /\ DOMAIN disk' = Path
  BY DEF IInv, Shape, Move, Inside
<1>2. \A p \in Path : p # req[c].path => disk'[p] = disk[p]
  BY DEF IInv, Shape, Move
<1> QED
  BY <1>1, <1>2, Leaving DEF Move

\* A write whose prune has read the index goes on to the move: the record it
\* has just added is among what was read.
LEMMA PruneStep == ASSUME IInv, NEW c \in Client, Prune(c) PROVE IInv'
<1>1. at[c] = "prune" /\ at[c] \in Inside /\ {"move", "drop"} \subseteq Inside /\ DOMAIN disk' = Path
  BY DEF IInv, Shape, Prune, Inside, disks
<1>2. ~raced[c] /\ req[c].op = "apply" => disk[req[c].path] = based[c]
  BY <1>1 DEF IInv, CheckedIsReplaced
<1>3. ~raced[c] /\ ~stale /\ req[c].op = "apply" => HasNewest(index, c)
  BY <1>1 DEF IInv, JustTaken
<1>4. CASE Leave(c)
  BY <1>1, <1>4, Leaving DEF Prune, disks
<1>5. ASSUME NEW s \in {"move", "drop"}, GoOn(c, s), list' = [list EXCEPT ![c] = index],
             UNCHANGED <<text, based>>, s = "move" => req[c].op = "apply"
      PROVE  IInv'
  <2>1. list'[c] = index /\ \A d \in Client \ {c} : list'[d] = list[d]
    BY <1>5 DEF IInv, Shape
  <2>2. ~raced[c] /\ ~stale /\ req[c].op = "apply" => Taken(index, c)' # {}
    BY <1>3, <1>5 DEF Prune, HasNewest, Taken, Mine, GoOn, disks
  <2> QED
    BY <1>1, <1>2, <1>3, <1>5, <2>1, <2>2, GoingOn DEF IInv, Shape, Prune, disks
<1> QED
  BY <1>4, <1>5 DEF Prune, Pruned

LEMMA PruneUnreadStep == ASSUME IInv, NEW c \in Client, PruneUnread(c) PROVE IInv'
<1>1. at[c] = "prune" /\ at[c] \in Inside /\ "move" \in Inside /\ DOMAIN disk' = Path
  BY DEF IInv, Shape, PruneUnread, Inside, disks
<1>2. CASE Leave(c)
  BY <1>1, <1>2, Leaving DEF PruneUnread, disks
<1>3. ASSUME GoOn(c, "move"), list' = [list EXCEPT ![c] = {}], UNCHANGED <<text, based>>,
             req[c].op = "apply"
      PROVE  IInv'
  <2>1. list'[c] = {} /\ \A d \in Client \ {c} : list'[d] = list[d]
    BY <1>3 DEF IInv, Shape
  <2>2. ~raced[c] => disk[req[c].path] = based[c]
    BY <1>1, <1>3 DEF IInv, CheckedIsReplaced
  <2>3. Cardinality(Taken(list[c], c)') # 1
    <3>1. Taken(list[c], c)' = {}
      BY <2>1 DEF Taken, Mine
    <3> QED
      BY <3>1, FS_EmptySet
  <2> QED
    BY <1>1, <1>3, <2>1, <2>2, <2>3, GoingOn DEF IInv, Shape, PruneUnread, disks
<1> QED
  BY <1>2, <1>3 DEF PruneUnread, Pruned

-----------------------------------------------------------------------------
\* The actions that change the index.

\* The new record is the newest of its file, and no other file is concerned.
LEMMA BackupStep == ASSUME IInv, NEW c \in Client, Backup(c) PROVE IInv'
<1> DEFINE new == [path |-> req[c].path, text |-> disk[req[c].path], tick |-> clock]
           s == AfterBackup(c)
<1>1. at[c] = "backup" /\ index' = index \cup {new} /\ clock' = clock + 1
  BY DEF Backup
<1>2. s \in {"prune", "put"} /\ (s = "prune" <=> req[c].op = "apply")
  BY DEF AfterBackup
<1>3. \A d \in Client \ {c} : at'[d] = at[d]
  BY DEF IInv, Shape, Backup, GoOn
<1>4. /\ at'[c] = s
      /\ UNCHANGED <<req, raced, gate, scn, disk, text, based, list, stale, revived>>
  BY DEF IInv, Shape, Backup, GoOn
<1>5. \A d \in Client \ {c} : at[d] \in Inside => req[d].path # req[c].path
  BY <1>1 DEF IInv, Turns, Inside
<1>6. new.path \in scn.paths /\ list[c] = None
  BY <1>1 DEF IInv, Turns, Courses
<1> HIDE DEF s
<1>7. Shape'
  BY <1>1, <1>2, <1>4 DEF IInv, Shape, Backup, GoOn, Inside, s
<1>8. Turns' /\ Courses'
  BY <1>1, <1>2, <1>3, <1>4, <1>6 DEF IInv, Turns, Courses, Inside
<1>9. Lists'
  <2>1. Known(index)'
    <3>1. IsFiniteSet(index')
      BY <1>1, FS_AddElement DEF IInv, Lists, Known
    <3>2. \A r \in index : r.path \in scn.paths /\ r.tick \in Nat /\ r.tick < clock + 1
      BY DEF IInv, Shape, Lists, Known
    <3>3. new.tick = clock /\ clock \in Nat
      BY DEF IInv, Shape
    <3> QED
      BY <1>1, <1>4, <1>6, <3>1, <3>2, <3>3 DEF Known
  <2>2. \A d \in Client : at'[d] = "drop" => Known(list[d])'
    BY <1>1, <1>2, <1>3, <1>4 DEF IInv, Shape, Lists, Known
  <2> QED
    BY <2>1, <2>2 DEF Lists
<1>10. OneFile'
  <2> SUFFICES ASSUME \A p, q \in scn.paths : p = q, NEW d \in Client, at'[d] = "drop"
               PROVE  FALSE
    BY <1>4 DEF OneFile
  <2>1. d # c /\ at[d] = "drop"
    BY <1>2, <1>3, <1>4
  <2> QED
    BY <2>1, <1>1, <1>5 DEF IInv, Turns, Inside
<1>11. JustTaken'
  <2> SUFFICES ASSUME NEW d \in Client, ~raced[d], ~stale, req[d].op = "apply"
               PROVE  /\ at'[d] = "prune" => HasNewest(index, d)'
                      /\ at'[d] = "drop" => HasNewest(list[d], d)'
    BY <1>4 DEF JustTaken
  <2>1. CASE d = c
    <3>1. new \in Taken(index, c)'
      BY <2>1, <1>1, <1>4 DEF IInv, CheckedIsReplaced, Taken, Mine
    <3>2. \A m \in Mine(index, req[c].path)' : m.tick <= new.tick
      BY <1>1, <1>4 DEF IInv, Shape, Lists, Known, Mine
    <3> QED
      BY <2>1, <3>1, <3>2, <1>2, <1>4 DEF HasNewest, Mine, Taken
  <2>2. CASE d # c
    <3>1. at[d] \in Inside => Mine(index, req[d].path)' = Mine(index, req[d].path)
      BY <2>2, <1>1, <1>4, <1>5 DEF Mine
    <3>2. at'[d] = "prune" => HasNewest(index, d)'
      BY <2>2, <3>1, <1>3, <1>4 DEF IInv, JustTaken, HasNewest, Taken, Inside
    <3>3. at'[d] = "drop" => HasNewest(list[d], d)'
      BY <2>2, <1>3, <1>4 DEF IInv, JustTaken, HasNewest, Taken, Mine
    <3> QED
      BY <3>2, <3>3
  <2> QED
    BY <2>1, <2>2
<1>12. CheckedIsReplaced'
  BY <1>1, <1>2, <1>3, <1>4 DEF IInv, CheckedIsReplaced
<1>13. RecordsHaveBlobs'
  BY <1>1, <1>4 DEF IInv, RecordsHaveBlobs, Backup
<1>15. Revivals'
  BY <1>4 DEF IInv, Revivals
<1>14. BackupAtHand'
  BY <1>1, <1>2, <1>3, <1>4 DEF IInv, BackupAtHand, Taken, Mine, Backup
<1> QED
  BY <1>7, <1>8, <1>9, <1>10, <1>11, <1>12, <1>13, <1>14, <1>15 DEF IInv

\* What a prune keeps of what it has read: every record of another file, and the
\* newest of its own file if no older one is equal.
LEMMA Keeping ==
  ASSUME IInv, NEW c \in Client, at[c] = "drop", req[c].op = "apply", ~raced[c], ~stale,
         Cardinality(Taken(list[c], c)) = 1
  PROVE  \E r \in Taken(list[c], c) : r.text \notin Dropped(list[c], req[c].path)
<1> DEFINE L == list[c]
           p == req[c].path
<1>1. PICK r \in Taken(L, c) : \A m \in Mine(L, p) : m.tick <= r.tick
  BY DEF IInv, JustTaken, HasNewest
<1>2. IsFiniteSet(L) /\ \A m \in L : m.tick \in Nat
  BY DEF IInv, Lists, Known
<1>3. Taken(L, c) \subseteq L
  BY DEF Taken, Mine
<1>4. Taken(L, c) = {r}
  <2>1. IsFiniteSet(Taken(L, c))
    BY <1>2, <1>3, FS_Subset
  <2>2. PICK x : Taken(L, c) = {x}
    BY <2>1, FS_Singleton
  <2> QED
    BY <1>1, <2>2
<1>5. r.path = p /\ r.text = based[c] /\ r \in L
  BY <1>1 DEF Taken, Mine
<1>6. Newer(L, r) = {}
  BY <1>1, <1>2, <1>5 DEF Newer, Mine
<1>7. ~(Cardinality(Newer(L, r)) >= scn.keep)
  <2>1. Cardinality(Newer(L, r)) = 0
    BY <1>6, FS_EmptySet
  <2>2. scn.keep \in Nat \ {0}
    BY Options DEF IInv
  <2> QED
    BY <2>1, <2>2
<1>8. ASSUME r.text \in Dropped(L, p) PROVE FALSE
  <2>1. PICK m \in Mine(L, p) : Cardinality(Newer(L, m)) >= scn.keep /\ m.text = r.text
    BY <1>8 DEF Dropped
  <2>2. m \in Taken(L, c)
    BY <2>1, <1>5 DEF Taken
  <2>3. m = r
    BY <2>2, <1>4
  <2> QED
    BY <2>1, <2>3, <1>7
<1> QED
  BY <1>1, <1>8

\* A prune writes the index back as it has read it, less some records of its own
\* file, and then deletes what none of the rest refers to.
LEMMA DropStep == ASSUME IInv, NEW c \in Client, Drop(c) \/ DropDenied(c) PROVE IInv'
<1> DEFINE L == list[c]
           p == req[c].path
           gone == Gone(c)
           kept == Kept(c)
<1>1. /\ at[c] = "drop" /\ at[c] \in Inside /\ index' = kept
      /\ UNCHANGED <<scn, disk, clock>>
      /\ stale' = (stale \/ index # L)
      /\ revived' = kept \ (index \ revived)
      /\ blobs \ Reclaimed(kept, gone) \subseteq blobs'
  BY DEF Drop, DropDenied, WriteBack, Deleted, Inside
<1>0. Pruned(c, L) \/ Leave(c)
  BY DEF Drop, DropDenied
<1>2. p \in scn.paths /\ p \in Path /\ Known(L)
  BY <1>1, Options DEF IInv, Turns, Lists
<1>3. /\ kept \subseteq L
      /\ \A q : q # p => Mine(kept, q) = Mine(L, q)
  BY DEF Kept, Mine
<1>4. \A d \in Client \ {c} : at[d] \in Inside => req[d].path \in Path /\ req[d].path # p
  BY <1>1, Options DEF IInv, Turns, Shape, Inside
<1>5. \A d \in Client \ {c} : /\ at'[d] = at[d] /\ req'[d] = req[d] /\ based'[d] = based[d]
                              /\ list'[d] = list[d] /\ raced'[d] = raced[d]
  BY <1>0 DEF IInv, Shape, Pruned, GoOn, Leave
<1>6. \/ /\ at'[c] = "move" /\ req[c].op = "apply"
         /\ req'[c] = req[c] /\ based'[c] = based[c] /\ list'[c] = L /\ raced'[c] = raced[c]
         /\ gate' = gate
      \/ /\ at'[c] = "idle" /\ list'[c] = None
         /\ gate' = [gate EXCEPT ![p] = None]
  BY <1>0 DEF IInv, Shape, Pruned, GoOn, Leave
<1>7. Shape'
  BY <1>0, <1>1 DEF IInv, Shape, Pruned, GoOn, Leave, Inside
<1>8. Turns'
  BY <1>1, <1>2, <1>4, <1>5, <1>6 DEF IInv, Turns, Shape, Inside
<1>9. Courses'
  BY <1>1, <1>5, <1>6 DEF IInv, Courses
<1> HIDE DEF kept, gone
<1>10. Lists'
  <2>1. Known(index)'
    <3>1. IsFiniteSet(kept)
      BY <1>2, <1>3, FS_Subset DEF Known
    <3> QED
      BY <3>1, <1>1, <1>2, <1>3 DEF Known
  <2>2. \A d \in Client : at'[d] = "drop" => Known(list[d])'
    BY <1>1, <1>5, <1>6 DEF IInv, Lists, Known
  <2> QED
    BY <2>1, <2>2 DEF Lists
<1>11. OneFile'
  <2> SUFFICES ASSUME \A q, r \in scn.paths : q = r, NEW d \in Client, at'[d] = "drop"
               PROVE  FALSE
    BY <1>1 DEF OneFile
  <2>1. d # c /\ at[d] = "drop" /\ at[d] \in Inside
    BY <1>5, <1>6 DEF Inside
  <2> QED
    BY <2>1, <1>2, <1>4 DEF IInv, Turns, Inside
<1>12. JustTaken'
  <2> SUFFICES ASSUME NEW d \in Client, ~raced'[d], ~stale', req'[d].op = "apply",
                      at'[d] \in {"prune", "drop"}
               PROVE  /\ at'[d] = "prune" => HasNewest(index, d)'
                      /\ at'[d] = "drop" => HasNewest(list[d], d)'
    BY DEF JustTaken
  <2>1. d # c /\ at[d] = at'[d] /\ at[d] \in Inside /\ ~stale /\ index = L
    BY <1>1, <1>5, <1>6 DEF Inside
  <2>2. req'[d] = req[d] /\ based'[d] = based[d] /\ list'[d] = list[d] /\ raced'[d] = raced[d]
    BY <2>1, <1>5
  <2>3. Mine(index', req[d].path) = Mine(index, req[d].path)
    BY <2>1, <1>1, <1>3, <1>4
  <2>4. at[d] = "prune" => HasNewest(index, d)'
    BY <2>1, <2>2, <2>3 DEF IInv, JustTaken, HasNewest, Taken, Mine
  <2>5. at[d] = "drop" => HasNewest(list[d], d)'
    BY <2>1, <2>2 DEF IInv, JustTaken, HasNewest, Taken, Mine
  <2> QED
    BY <2>1, <2>4, <2>5
<1>13. CheckedIsReplaced'
  BY <1>1, <1>5, <1>6 DEF IInv, CheckedIsReplaced
<1>14. RecordsHaveBlobs'
  <2>1. ASSUME NEW r \in index' \ revived' PROVE r.text \in blobs'
    <3>1. r \in kept /\ r \in index \ revived
      BY <2>1, <1>1
    <3>2. r.text \in blobs
      BY <3>1 DEF IInv, RecordsHaveBlobs
    <3> QED
      BY <3>1, <3>2, <1>1 DEF Reclaimed
  <2>2. ASSUME revived' # {} PROVE \E q, r \in scn.paths : q # r
    BY <2>2, <1>1, <1>3 DEF IInv, RecordsHaveBlobs, OneFile
  <2> QED
    BY <2>1, <2>2, <1>1 DEF RecordsHaveBlobs
<1>16. Revivals'
  BY <1>1, <1>3 DEF IInv, Revivals
<1>15. BackupAtHand'
  <2> SUFFICES ASSUME NEW d \in Client, at'[d] = "move", list'[d] # None, ~raced'[d], ~stale',
                      Cardinality(Taken(list[d], d)') = 1
               PROVE  Taken(index, d)' # {}
    BY <1>14, <1>16 DEF BackupAtHand, RecordsHaveBlobs, Revivals, Taken, Mine
  <2>1. ~stale /\ index = L
    BY <1>1
  <2>2. CASE d = c
    <3>1. Taken(list[d], d)' = Taken(L, c)
      BY <2>2, <1>6 DEF Taken, Mine
    <3>2. Cardinality(Taken(L, c)) = 1
      BY <3>1
    <3>3. PICK r \in Taken(L, c) : r.text \notin gone
      BY <2>1, <2>2, <3>2, <1>1, <1>6, Keeping DEF gone, Gone
    <3>4. r \in kept
      BY <3>3 DEF kept, gone, Kept, Taken, Mine
    <3> QED
      BY <2>2, <3>3, <3>4, <1>1, <1>6 DEF Taken, Mine
  <2>3. CASE d # c
    <3>1. at[d] = "move" /\ at[d] \in Inside /\ req'[d] = req[d] /\ based'[d] = based[d]
          /\ list'[d] = list[d] /\ raced'[d] = raced[d]
      BY <2>3, <1>5 DEF Inside
    <3>2. Taken(list[d], d)' = Taken(list[d], d)
      BY <3>1 DEF Taken, Mine
    <3>3. Taken(index, d)' = Taken(index, d)
      <4>1. Mine(index', req[d].path) = Mine(index, req[d].path)
        BY <2>1, <2>3, <3>1, <1>1, <1>3, <1>4
      <4> QED
        BY <3>1, <4>1 DEF Taken, Mine
    <3> QED
      BY <2>1, <3>1, <3>2, <3>3 DEF IInv, BackupAtHand
  <2> QED
    BY <2>2, <2>3
<1> QED
  BY <1>7, <1>8, <1>9, <1>10, <1>11, <1>12, <1>13, <1>14, <1>15, <1>16 DEF IInv

-----------------------------------------------------------------------------
\* The rest of the world.

\* The user changes a file: the writes that are past their second look are raced.
LEMMA UserChangesStep == ASSUME IInv, UserChanges PROVE IInv'
<1>1. PICK p \in scn.paths, t \in scn.user :
        /\ disk' = [disk EXCEPT ![p] = t]
        /\ raced' = [c \in Client |->
                        raced[c] \/ (at[c] \in {"backup", "prune", "drop", "move"} /\ req[c].path = p)]
  BY DEF UserChanges
<1>2. Shape'
  BY <1>1 DEF IInv, Shape, UserChanges
<1>3. \A c \in Client : ~raced'[c] => ~raced[c]
  BY <1>1
<1>4. Turns' /\ Courses' /\ Lists' /\ OneFile' /\ RecordsHaveBlobs' /\ Revivals'
  BY DEF IInv, Turns, Courses, Lists, Known, OneFile, RecordsHaveBlobs, Revivals, UserChanges
<1>5. JustTaken'
  BY <1>3 DEF IInv, JustTaken, HasNewest, Taken, Mine, UserChanges
<1>6. CheckedIsReplaced'
  <2> SUFFICES ASSUME NEW c \in Client, at[c] \in {"backup", "prune", "drop", "move"},
                      req[c].op = "apply", ~raced'[c]
               PROVE  disk'[req[c].path] = based[c]
    BY DEF CheckedIsReplaced, UserChanges
  <2>1. ~raced[c] /\ req[c].path # p
    BY <1>1
  <2>2. req[c].path \in Path
    BY Options DEF IInv, Turns
  <2>3. disk[req[c].path] = based[c]
    BY <2>1 DEF IInv, CheckedIsReplaced
  <2> QED
    BY <1>1, <2>1, <2>2, <2>3 DEF IInv, Shape
<1>7. BackupAtHand'
  BY <1>3 DEF IInv, BackupAtHand, Taken, Mine, UserChanges
<1> QED
  BY <1>2, <1>4, <1>5, <1>6, <1>7 DEF IInv

\* A restart loses the calls and keeps the disk.
LEMMA CrashStep == ASSUME IInv, Crash PROVE IInv'
<1>1. Shape'
  BY DEF IInv, Shape, Crash, disks
<1>2. \A c \in Client : at'[c] = "idle" /\ list'[c] = None
  BY DEF Crash
<1>3. Turns' /\ Courses' /\ OneFile' /\ JustTaken' /\ CheckedIsReplaced' /\ BackupAtHand'
  BY <1>2 DEF Turns, Courses, OneFile, JustTaken, CheckedIsReplaced, BackupAtHand, Inside
<1>4. Lists'
  BY <1>2 DEF IInv, Lists, Known, Crash, disks
<1>5. RecordsHaveBlobs' /\ Revivals'
  BY DEF IInv, RecordsHaveBlobs, Revivals, Crash, disks
<1> QED
  BY <1>1, <1>3, <1>4, <1>5 DEF IInv

LEMMA Stuttering == ASSUME IInv, UNCHANGED vars PROVE IInv'
<1>1. Shape' /\ Turns' /\ Courses' /\ Lists' /\ OneFile'
  BY DEF IInv, Shape, Turns, Courses, Lists, Known, OneFile, vars, disks
<1>2. JustTaken' /\ CheckedIsReplaced' /\ RecordsHaveBlobs' /\ BackupAtHand' /\ Revivals'
  BY DEF IInv, JustTaken, HasNewest, CheckedIsReplaced, RecordsHaveBlobs, BackupAtHand, Revivals,
     Taken, Mine, vars, disks
<1> QED
  BY <1>1, <1>2 DEF IInv

\* Every step of the calls, of the user and of the process keeps the invariant.
LEMMA NextIInv == ASSUME IInv, [Next]_vars PROVE IInv'
<1>1. ASSUME NEW c \in Client, Begin(c) \/ BeginRestore(c) \/ Step(c) PROVE IInv'
  BY <1>1, BeginStep, BeginRestoreStep, EnterStep, CheckStep, VerifyStep, BackupNothingStep,
     BackupStep, BackupFailsStep, PutStep, FailingStep, PruneStep, PruneUnreadStep, DropStep,
     MoveStep DEF Step
<1> QED
  BY <1>1, UserChangesStep, CrashStep, Stuttering DEF Next

-----------------------------------------------------------------------------
\* What is in the files, the backups and the calls.

\* A call that is past its first look goes on as it is.
Continues(c) ==
    \E s \in Inside :
        /\ GoOn(c, s)
        /\ s \in Past => at[c] \in Past \/ req[c].op # "apply"
        /\ UNCHANGED <<text, based>>
        /\ list' = list \/ \E l \in SUBSET Record : list' = [list EXCEPT ![c] = l]

\* A step of such a call.
Later(c) ==
    \/ Verify(c) \/ BackupNothing(c) \/ Backup(c) \/ BackupFails(c)
    \/ Put(c) \/ PutFails(c)
    \/ Prune(c) \/ PruneUnread(c) \/ Drop(c) \/ DropDenied(c) \/ DropFails(c)
    \/ Move(c) \/ MoveFails(c)

\* It ends the call or goes on with it.
LEMMA LaterCalls ==
  ASSUME TypeOK, Indexes, IInv, NEW c \in Client, Later(c)
  PROVE  /\ req[c].path \in Path
         /\ Leave(c) \/ Continues(c)
<1>1. at[c] \in Past \cup {"put"} /\ at[c] # "idle" /\ (at[c] = "put" => req[c].op # "apply")
  BY DEF IInv, Courses, Later, Verify, BackupNothing, Backup, BackupFails, Put, PutFails, Prune,
     PruneUnread, Drop, DropDenied, DropFails, Move, MoveFails, Past
<1>2. req[c].path \in Path
  BY <1>1, Options DEF IInv, Turns
<1> SUFFICES Leave(c) \/ Continues(c)
  BY <1>2
<1>3. Past \subseteq Inside /\ "put" \in Inside
  BY DEF Past, Inside
<1>4. ASSUME NEW s \in Past \cup {"put"}, GoOn(c, s), UNCHANGED <<text, based, list>>
      PROVE  Continues(c)
  BY <1>1, <1>3, <1>4 DEF Continues, Past
<1>5. ASSUME NEW s \in Past \cup {"put"}, NEW l \in SUBSET Record, GoOn(c, s),
             UNCHANGED <<text, based>>, list' = [list EXCEPT ![c] = l]
      PROVE  Continues(c)
  BY <1>1, <1>3, <1>5 DEF Continues, Past
<1>6. CASE Verify(c)
  BY <1>4, <1>6 DEF Verify, Past
<1>7. CASE BackupNothing(c)
  BY <1>4, <1>7 DEF BackupNothing
<1>8. CASE Backup(c)
  BY <1>4, <1>8 DEF Backup, AfterBackup, Past
<1>9. CASE BackupFails(c)
  BY <1>4, <1>9 DEF BackupFails, WithoutBackup, Past
<1>10. CASE Put(c)
  BY <1>4, <1>10 DEF Put, Past
<1>11. CASE Prune(c)
  <2>1. index \in SUBSET Record /\ {"move", "drop"} \subseteq Past
    BY DEF TypeOK, Past
  <2> QED
    BY <2>1, <1>5, <1>11 DEF Prune, Pruned
<1>12. CASE PruneUnread(c)
  BY <1>5, <1>12 DEF PruneUnread, Pruned, Past
<1>13. CASE Drop(c)
  <2>1. list[c] \in SUBSET Record
    BY <1>13 DEF Indexes, Drop
  <2>2. Pruned(c, list[c])
    BY <1>13 DEF Drop
  <2> QED
    BY <2>1, <2>2, <1>5 DEF Pruned, Past
<1>14. CASE PutFails(c) \/ DropDenied(c) \/ DropFails(c) \/ Move(c) \/ MoveFails(c)
  BY <1>14 DEF PutFails, DropDenied, DropFails, Move, MoveFails
<1> QED
  BY <1>2, <1>6, <1>7, <1>8, <1>9, <1>10, <1>11, <1>12, <1>13, <1>14 DEF Later

\* The files hold texts, and so do the backups.
LEMMA LaterStores ==
  ASSUME TypeOK, Indexes, Written, IInv, NEW c \in Client, Later(c)
  PROVE  /\ UNCHANGED scn
         /\ disk' \in [Path -> Text \cup {Absent}]
         /\ index' \subseteq Record /\ blobs' \subseteq Text
         /\ clock' \in Nat /\ stale' \in BOOLEAN /\ revived' \subseteq index'
         /\ made' \in [Client -> Nat] /\ upsets' \in Nat /\ faults' \in Nat
<1>1. Fault => faults' \in Nat /\ UNCHANGED <<made, upsets>>
  BY DEF Fault, TypeOK
<1>2. req[c].path \in Path
  BY LaterCalls
<1>3. CASE Verify(c) \/ BackupNothing(c)
  BY <1>3 DEF Verify, BackupNothing, TypeOK, disks, bounds
<1>4. CASE PutFails(c) \/ DropFails(c) \/ MoveFails(c) \/ PruneUnread(c)
  BY <1>1, <1>4 DEF PutFails, DropFails, MoveFails, PruneUnread, TypeOK, disks
<1>5. CASE Prune(c)
  BY <1>5 DEF Prune, TypeOK, disks, bounds
<1>6. CASE Backup(c)
  <2>1. disk[req[c].path] \in Text
    BY <1>2, <1>6 DEF Backup, TypeOK
  <2>2. [path |-> req[c].path, text |-> disk[req[c].path], tick |-> clock] \in Record
    BY <1>2, <2>1 DEF TypeOK, Record
  <2> QED
    BY <1>6, <2>1, <2>2 DEF Backup, TypeOK, bounds
<1>7. CASE BackupFails(c)
  <2>1. disk[req[c].path] \in Text
    BY <1>2, <1>7 DEF BackupFails, TypeOK
  <2> QED
    BY <1>1, <1>7, <2>1 DEF BackupFails, TypeOK
<1>8. CASE Put(c)
  <2>1. req[c].new \in blobs => req[c].new \in Text
    BY DEF TypeOK
  <2> QED
    BY <1>2, <1>8, <2>1 DEF Put, TypeOK, bounds
<1>9. CASE Move(c)
  <2>1. text[c] \in Seq(Line)
    BY <1>9 DEF Move, IInv, Courses, Written, Past
  <2> QED
    BY <1>2, <1>9, <2>1 DEF Move, TypeOK, bounds, Text
<1>10. CASE Drop(c) \/ DropDenied(c)
  <2>1. PICK stay : WriteBack(c, stay)
    BY <1>10 DEF Drop, DropDenied
  <2>2. index' \subseteq list[c] /\ list[c] \subseteq Record
    BY <1>10, <2>1 DEF Drop, DropDenied, WriteBack, Kept, Indexes
  <2>3. blobs' \subseteq blobs /\ revived' \subseteq index'
    BY <2>1 DEF WriteBack
  <2>4. Fault \/ UNCHANGED bounds
    BY <1>10 DEF Drop, DropDenied
  <2> QED
    BY <1>1, <2>1, <2>2, <2>3, <2>4 DEF WriteBack, TypeOK, bounds
<1> QED
  BY <1>3, <1>4, <1>5, <1>6, <1>7, <1>8, <1>9, <1>10 DEF Later

\* The types of what a call has, when it ends or goes on.
LEMMA LaterTypes ==
  ASSUME TypeOK, Indexes, Written, IInv, NEW c \in Client, Later(c)
  PROVE  TypeOK'
<1>1. req[c].path \in Path /\ (Leave(c) \/ Continues(c))
  BY LaterCalls
<1>2. CASE Leave(c)
  <2>1. gate' \in [Path -> Client \cup {None}] /\ at' \in [Client -> Inside \cup {"idle", "waiting"}]
        /\ raced' \in [Client -> BOOLEAN]
    BY <1>1, <1>2 DEF TypeOK, Leave
  <2>2. req' \in [Client -> Request \cup {NoRequest}]
    BY <1>2 DEF TypeOK, Leave
  <2>3. /\ text' \in [Client -> Seq(Line) \cup {None}]
        /\ based' \in [Client -> Text \cup {Absent, None}]
        /\ list' \in [Client -> (SUBSET Record) \cup {None}]
    BY <1>2 DEF TypeOK, Leave
  <2> QED
    BY LaterStores, <2>1, <2>2, <2>3 DEF TypeOK
<1>3. CASE Continues(c)
  <2>1. at' \in [Client -> Inside \cup {"idle", "waiting"}] /\ UNCHANGED <<gate, req, raced, text, based>>
    BY <1>3 DEF TypeOK, Continues, GoOn
  <2>2. list' \in [Client -> (SUBSET Record) \cup {None}]
    BY <1>3 DEF TypeOK, Continues
  <2> QED
    BY LaterStores, <2>1, <2>2 DEF TypeOK
<1> QED
  BY <1>1, <1>2, <1>3

\* What a call has written, decided and read, when it ends or goes on.
LEMMA LaterContents ==
  ASSUME TypeOK, Indexes, Written, IInv, NEW c \in Client, Later(c)
  PROVE  Indexes' /\ Written' /\ (Decided => Decided')
<1>1. req[c].path \in Path /\ (Leave(c) \/ Continues(c))
  BY LaterCalls
<1>2. ASSUME NEW d \in Client \ {c}
      PROVE  /\ at'[d] = at[d] /\ req'[d] = req[d] /\ text'[d] = text[d] /\ based'[d] = based[d]
             /\ list'[d] = list[d]
  BY <1>1 DEF TypeOK, Leave, Continues, GoOn
<1>3. \/ at'[c] = "idle" /\ req'[c].op = "none"
      \/ /\ req'[c] = req[c] /\ text'[c] = text[c] /\ based'[c] = based[c]
         /\ req[c].op = "apply" /\ at'[c] \in Past => at[c] \in Past
  BY <1>1 DEF TypeOK, Leave, NoRequest, Continues, GoOn
<1>4. at'[c] = "drop" => list'[c] \subseteq Record
  <2> SUFFICES ASSUME at'[c] = "drop" PROVE list'[c] \subseteq Record
    OBVIOUS
  <2>1. Prune(c)
    BY DEF TypeOK, Later, Verify, BackupNothing, Backup, BackupFails, Put, PutFails, Prune, PruneUnread,
       Drop, DropDenied, DropFails, Move, MoveFails, Pruned, AfterBackup, WithoutBackup, GoOn, Leave
  <2> QED
    BY <2>1 DEF TypeOK, Prune, Pruned, GoOn, Leave
<1>5. Indexes'
  BY <1>2, <1>4 DEF Indexes
<1>6. Written'
  <2> SUFFICES ASSUME NEW d \in Client, req'[d].op = "apply"
               PROVE  /\ req'[d].new \in Seq(Line)
                      /\ req'[d].base \in {None, req'[d].expected}
                      /\ at'[d] \in Past => text'[d] \in Seq(Line)
    BY DEF Written
  <2> QED
    BY <1>2, <1>3 DEF Written
<1>7. ASSUME Decided PROVE Decided'
  <2> SUFFICES ASSUME NEW d \in Client, req'[d].op = "apply", at'[d] \in Past, req'[d].expected # Absent,
                      NEW edited \in {req'[d].new, based'[d]},
                      NEW put \in Added(req'[d].expected, edited)
               PROVE  IsWithin(put, text'[d])
    BY DEF Decided
  <2>1. /\ at[d] \in Past /\ req'[d] = req[d] /\ based'[d] = based[d] /\ text'[d] = text[d]
    BY <1>2, <1>3 DEF Past
  <2> QED
    BY <1>7, <2>1 DEF Decided
<1> QED
  BY <1>5, <1>6, <1>7


\* What a decision is made of: text or nothing, and none of a file that is no text.
LEMMA DecisionType ==
  ASSUME TypeOK, Written, NEW c \in Client, req[c].op = "apply", req[c] \in Request,
         NEW t \in Decisions(req[c])
  PROVE  t \in Seq(Line) \cup {None}
<1> DEFINE r == req[c]
           cur == disk[r.path]
<1>1. r.new \in Seq(Line) /\ cur \in Text \cup {Absent} /\ r.base \in {None, r.expected}
      /\ r.base \in Seq(Line) \cup {None}
  BY DEF TypeOK, Written, Request
<1>2. Base(r) # None => Base(r) \in Seq(Line)
  BY <1>1 DEF Base, TypeOK, Text
<1>3. CASE cur = Binary
  BY <1>3 DEF Decisions
<1>4. CASE cur # Binary /\ r.expected \in {Absent, cur}
  BY <1>1, <1>4 DEF Decisions
<1>5. CASE ~(cur = Binary) /\ ~(cur # Binary /\ r.expected \in {Absent, cur})
  <2>1. CASE t = None
    BY <2>1
  <2>2. CASE t # None
    <3>1. /\ cur # Absent /\ Base(r) # None
          /\ t \in {IF m.clean THEN m.lines ELSE None : m \in Merges(Base(r), cur, r.new)}
      BY <1>5, <2>2 DEF Decisions
    <3>2. cur \in Seq(Line)
      BY <1>1, <1>5, <3>1 DEF Text
    <3>3. PICK m \in Merges(Base(r), cur, r.new) : t = m.lines
      BY <2>2, <3>1
    <3>4. m.lines \in Seq(Line)
      BY <1>1, <1>2, <3>1, <3>2, MergesType
    <3> QED
      BY <3>3, <3>4
  <2> QED
    BY <2>1, <2>2
<1> QED
  BY <1>3, <1>4, <1>5

\* Who has a call at all has made a request.
LEMMA Requesting ==
  ASSUME TypeOK, NEW c \in Client, req[c].op # "none"
  PROVE  req[c] \in Request
BY DEF TypeOK, NoRequest

Contents == TypeOK /\ Indexes /\ Written

LEMMA InitContents == Init => Contents /\ Decided
<1> SUFFICES ASSUME Init PROVE Contents /\ Decided
  OBVIOUS
<1>1. scn \in Scenarios /\ disk \in [Path -> Text \cup {Absent}]
  BY ScenariosAssumption DEF Init, ScenarioType
<1>2. TypeOK
  BY <1>1 DEF Init, TypeOK
<1>3. \A c \in Client : req[c].op # "apply" /\ at[c] = "idle"
  BY DEF Init, NoRequest
<1> QED
  BY <1>2, <1>3 DEF Contents, Indexes, Written, Decided

\* A call begins: it has decided nothing yet.
LEMMA BeginContents ==
  ASSUME Contents, NEW c \in Client, at[c] = "idle", NEW r \in Request,
         req' = [req EXCEPT ![c] = r],
         r.op = "apply" => r.new \in Seq(Line) /\ r.base \in {None, r.expected},
         at' = [at EXCEPT ![c] = "waiting"],
         made' = [made EXCEPT ![c] = @ + 1],
         UNCHANGED <<scn, disks, gate, text, based, list, upsets, faults, raced, stale, revived, clock>>
  PROVE  Contents' /\ (Decided => Decided')
<1>1. TypeOK'
  BY DEF Contents, TypeOK, disks
<1>2. \A d \in Client \ {c} : at'[d] = at[d] /\ req'[d] = req[d]
  BY DEF Contents, TypeOK
<1>3. at'[c] = "waiting" /\ req'[c] = r
  BY DEF Contents, TypeOK
<1>4. Indexes' /\ Written'
  BY <1>2, <1>3 DEF Contents, Indexes, Written, Past
<1>5. Decided => Decided'
  <2> SUFFICES ASSUME Decided, NEW d \in Client, req'[d].op = "apply", at'[d] \in Past,
                      req'[d].expected # Absent,
                      NEW edited \in {req'[d].new, based'[d]},
                      NEW put \in Added(req'[d].expected, edited)
               PROVE  IsWithin(put, text'[d])
    BY DEF Decided
  <2>1. d # c
    BY <1>3 DEF Past
  <2> QED
    BY <1>2, <2>1 DEF Decided
<1> QED
  BY <1>1, <1>4, <1>5 DEF Contents

\* A new call asks for text, and has decided nothing yet.
LEMMA BeginningContents ==
  ASSUME Contents, NEW c \in Client, Begin(c) PROVE Contents' /\ (Decided => Decided')
<1>1. PICK p \in scn.paths, way \in scn.ways, new \in scn.edits[c] :
        LET expected == IF way = "unconditional" THEN Absent ELSE disk[p]
            base == IF way = "conditional" /\ expected \notin {Absent, Binary}
                    THEN expected ELSE None
        IN  req' = [req EXCEPT ![c] = [op |-> "apply", path |-> p, new |-> new,
                                       expected |-> expected, base |-> base]]
  BY DEF Begin
<1> DEFINE expected == IF way = "unconditional" THEN Absent ELSE disk[p]
           base == IF way = "conditional" /\ expected \notin {Absent, Binary}
                   THEN expected ELSE None
           r == [op |-> "apply", path |-> p, new |-> new, expected |-> expected, base |-> base]
<1>2. p \in Path /\ new \in Seq(Line)
  BY ScenariosAssumption DEF Contents, TypeOK, ScenarioType
<1>3. disk[p] \in Text \cup {Absent}
  BY <1>2 DEF Contents, TypeOK
<1>4. expected \in Text \cup {Absent} /\ base \in Seq(Line) \cup {None} /\ base \in {None, expected}
  BY <1>3 DEF Text
<1> HIDE DEF expected, base
<1>5. r \in Request
  BY <1>2, <1>4 DEF Request, Text
<1>6. req' = [req EXCEPT ![c] = r]
  BY <1>1 DEF expected, base
<1>7. r.new \in Seq(Line) /\ r.base \in {None, r.expected}
  BY <1>2, <1>4
<1> HIDE DEF r
<1> QED
  BY <1>5, <1>6, <1>7, BeginContents DEF Begin

\* So it is with a call that restores a backup.
LEMMA RestoringContents ==
  ASSUME Contents, NEW c \in Client, BeginRestore(c) PROVE Contents' /\ (Decided => Decided')
<1>1. PICK b \in index :
        req' = [req EXCEPT ![c] = [op |-> "restore", path |-> b.path, new |-> b.text,
                                   expected |-> Absent, base |-> None]]
  BY DEF BeginRestore
<1> DEFINE r == [op |-> "restore", path |-> b.path, new |-> b.text, expected |-> Absent, base |-> None]
<1>2. b \in Record
  BY DEF Contents, TypeOK
<1>3. r \in Request /\ r.op # "apply"
  BY <1>2 DEF Request, Record
<1> HIDE DEF r
<1> QED
  BY <1>1, <1>3, BeginContents DEF BeginRestore, r

\* A call that gets the gate goes on to its first look.
LEMMA EnteringContents ==
  ASSUME Contents, IInv, NEW c \in Client, Enter(c) PROVE Contents' /\ (Decided => Decided')
<1>1. req[c].path \in Path
  BY Options DEF IInv, Turns, Enter
<1>2. TypeOK'
  BY <1>1 DEF Enter, Contents, TypeOK, disks, bounds, Inside
<1>3. \A d \in Client \ {c} : at'[d] = at[d]
  BY DEF Enter, Contents, TypeOK
<1>4. at'[c] \in {"check", "backup"} /\ (req[c].op = "apply" => at'[c] = "check")
  BY DEF Enter, Contents, TypeOK
<1>5. Indexes' /\ Written'
  BY <1>3, <1>4 DEF Enter, Contents, Indexes, Written, Past
<1>6. Decided => Decided'
  <2> SUFFICES ASSUME Decided, NEW d \in Client, req'[d].op = "apply", at'[d] \in Past,
                      req'[d].expected # Absent,
                      NEW edited \in {req'[d].new, based'[d]},
                      NEW put \in Added(req'[d].expected, edited)
               PROVE  IsWithin(put, text'[d])
    BY DEF Decided
  <2>1. d # c
    BY <1>4 DEF Past, Enter
  <2> QED
    BY <1>3, <2>1 DEF Decided, Enter
<1> QED
  BY <1>2, <1>5, <1>6 DEF Contents

\* The user and a restart decide nothing.
LEMMA OutsideContents ==
  ASSUME Contents, UserChanges \/ Crash \/ UNCHANGED vars PROVE Contents' /\ (Decided => Decided')
<1>1. CASE UserChanges
  <2>1. PICK p \in scn.paths, t \in scn.user :
          /\ disk' = [disk EXCEPT ![p] = t]
          /\ raced' = [c \in Client |->
                raced[c] \/ (at[c] \in {"backup", "prune", "drop", "move"} /\ req[c].path = p)]
    BY <1>1 DEF UserChanges
  <2>2. t \in Text \cup {Absent} /\ scn \in Scenarios
    BY ScenariosAssumption DEF Contents, TypeOK, ScenarioType
  <2>3. TypeOK'
    <3>1. disk' \in [Path -> Text \cup {Absent}]
      BY <2>1, <2>2 DEF Contents, TypeOK
    <3>2. raced' \in [Client -> BOOLEAN]
      <4>1. \A c \in Client :
              (raced[c] \/ (at[c] \in {"backup", "prune", "drop", "move"} /\ req[c].path = p)) \in BOOLEAN
        OBVIOUS
      <4> QED
        BY <2>1, <4>1
    <3> QED
      BY <1>1, <3>1, <3>2 DEF UserChanges, Contents, TypeOK
  <2>4. Indexes' /\ Written' /\ (Decided => Decided')
    BY <1>1 DEF UserChanges, Contents, Indexes, Written, Decided
  <2> QED
    BY <2>3, <2>4 DEF Contents
<1>2. CASE Crash
  <2>1. TypeOK'
    BY <1>2 DEF Crash, Fault, Contents, TypeOK, disks
  <2>2. \A c \in Client : req'[c].op # "apply" /\ at'[c] = "idle"
    BY <1>2 DEF Crash, NoRequest
  <2> QED
    BY <2>1, <2>2 DEF Contents, Indexes, Written, Decided
<1>3. CASE UNCHANGED vars
  BY <1>3 DEF vars, disks, bounds, Contents, TypeOK, Indexes, Written, Decided
<1> QED
  BY <1>1, <1>2, <1>3

\* The first look: a decision is text.
LEMMA CheckingContents ==
  ASSUME Contents, IInv, NEW c \in Client, Check(c) PROVE Contents'
<1>1. at[c] = "check" /\ req[c].op = "apply" /\ req[c] \in Request /\ req[c].path \in Path
  BY Requesting, Options DEF Check, Contents, IInv, Courses, Turns
<1>2. PICK t \in Decisions(req[c]) :
        IF t = None THEN Leave(c)
        ELSE /\ GoOn(c, "verify")
             /\ text' = [text EXCEPT ![c] = t]
             /\ based' = [based EXCEPT ![c] = disk[req[c].path]]
             /\ UNCHANGED list
  BY DEF Check
<1>3. t \in Seq(Line) \cup {None}
  BY <1>1, DecisionType DEF Contents
<1>4. UNCHANGED <<scn, disks, bounds, stale, revived, clock>>
  BY DEF Check
<1>5. CASE Leave(c)
  <2>1. \A d \in Client \ {c} : at'[d] = at[d] /\ req'[d] = req[d] /\ text'[d] = text[d] /\ list'[d] = list[d]
    BY <1>5 DEF Leave, Contents, TypeOK
  <2>2. at'[c] = "idle" /\ req'[c].op # "apply"
    BY <1>5 DEF Leave, Contents, TypeOK, NoRequest
  <2>3. gate' \in [Path -> Client \cup {None}] /\ at' \in [Client -> Inside \cup {"idle", "waiting"}]
        /\ raced' \in [Client -> BOOLEAN]
    BY <1>1, <1>5 DEF Contents, TypeOK, Leave
  <2>4. req' \in [Client -> Request \cup {NoRequest}]
    BY <1>5 DEF Contents, TypeOK, Leave
  <2>5. /\ text' \in [Client -> Seq(Line) \cup {None}]
        /\ based' \in [Client -> Text \cup {Absent, None}]
        /\ list' \in [Client -> (SUBSET Record) \cup {None}]
    BY <1>5 DEF Contents, TypeOK, Leave
  <2>6. TypeOK'
    BY <1>4, <2>3, <2>4, <2>5 DEF Contents, TypeOK, disks, bounds
  <2>7. Indexes' /\ Written'
    BY <2>1, <2>2 DEF Contents, Indexes, Written
  <2> QED
    BY <2>6, <2>7 DEF Contents
<1>6. CASE t # None
  <2>1. t \in Seq(Line) /\ disk[req[c].path] \in Text \cup {Absent}
    BY <1>1, <1>3, <1>6 DEF Contents, TypeOK
  <2>2. TypeOK'
    BY <1>2, <1>4, <1>6, <2>1 DEF Contents, TypeOK, GoOn, disks, bounds, Inside
  <2>3. Indexes' /\ Written'
    BY <1>2, <1>6, <2>1 DEF Contents, TypeOK, Indexes, Written, GoOn
  <2> QED
    BY <2>2, <2>3 DEF Contents
<1> QED
  BY <1>2, <1>5, <1>6

\* Every step keeps the types of what is worked on.
LEMMA NextContents == ASSUME Contents, IInv, [Next]_vars PROVE Contents'
<1>1. ASSUME NEW c \in Client, Step(c) PROVE Contents'
  <2>1. Enter(c) \/ Check(c) \/ Later(c)
    BY <1>1 DEF Step, Later
  <2> QED
    BY <2>1, EnteringContents, CheckingContents, LaterTypes, LaterContents DEF Contents
<1> QED
  BY <1>1, BeginningContents, RestoringContents, OutsideContents DEF Next

\* What is decided on keeps what the author has put in, and what is in the file.
LEMMA DecisionKeeps ==
  ASSUME TypeOK, Written, NEW c \in Client, req[c].op = "apply", req[c] \in Request,
         NEW t \in Decisions(req[c]), t # None, req[c].expected # Absent,
         NEW edited \in {req[c].new, disk[req[c].path]},
         NEW put \in Added(req[c].expected, edited)
  PROVE  IsWithin(put, t)
<1> DEFINE r == req[c]
           cur == disk[r.path]
<1>1. r.new \in Seq(Line) /\ cur \in Text \cup {Absent} /\ r.base \in {None, r.expected}
      /\ r.base \in Seq(Line) \cup {None}
  BY DEF TypeOK, Written, Request
<1>2. CASE cur = Binary
  BY <1>2 DEF Decisions
<1>3. CASE cur # Binary /\ r.expected \in {Absent, cur}
  <2>1. r.expected = cur /\ cur \in Seq(Line) /\ t = r.new
    BY <1>1, <1>3 DEF Decisions, Text
  <2>2. CASE edited = r.new
    BY <1>1, <2>1, <2>2, AddedInside
  <2>3. CASE edited = cur
    <3>1. put = <<>>
      BY <2>1, <2>3, AddedSame
    <3> QED
      BY <1>1, <2>1, <3>1, NothingWithin
  <2> QED
    BY <2>2, <2>3
<1>4. CASE ~(cur = Binary) /\ ~(cur # Binary /\ r.expected \in {Absent, cur})
  <2>1. /\ cur # Absent /\ Base(r) # None
        /\ t \in {IF m.clean THEN m.lines ELSE None : m \in Merges(Base(r), cur, r.new)}
    BY <1>4 DEF Decisions
  <2>2. cur \in Seq(Line)
    BY <1>1, <1>4, <2>1 DEF Text
  <2>3. Base(r) = r.expected /\ Base(r) \in Seq(Line)
    BY <1>1, <2>1 DEF Base, TypeOK, Text
  <2>4. PICK m \in Merges(Base(r), cur, r.new) : m.clean /\ t = m.lines
    BY <2>1
  <2> HIDE DEF r, cur
  <2>5. edited \in {cur, r.new} /\ put \in Added(Base(r), edited) /\ edited \in Seq(Line)
    BY <1>1, <2>2, <2>3 DEF r, cur
  <2>6. put \in Seq(Line)
    BY <2>3, <2>5, AddedInside
  <2> QED
    BY <1>1, <2>2, <2>3, <2>4, <2>5, <2>6, MergeKeeps
<1> QED
  BY <1>2, <1>3, <1>4

\* The first look decides with both edits in view.
LEMMA CheckingDecides ==
  ASSUME Contents, Decided, IInv, NEW c \in Client, Check(c) PROVE Decided'
<1>1. at[c] = "check" /\ req[c].op = "apply" /\ req[c] \in Request
  BY Requesting DEF Check, Contents, IInv, Courses
<1>2. PICK t \in Decisions(req[c]) :
        IF t = None THEN Leave(c)
        ELSE /\ GoOn(c, "verify")
             /\ text' = [text EXCEPT ![c] = t]
             /\ based' = [based EXCEPT ![c] = disk[req[c].path]]
             /\ UNCHANGED list
  BY DEF Check
<1> SUFFICES ASSUME NEW d \in Client, req'[d].op = "apply", at'[d] \in Past,
                    req'[d].expected # Absent,
                    NEW edited \in {req'[d].new, based'[d]},
                    NEW put \in Added(req'[d].expected, edited)
             PROVE  IsWithin(put, text'[d])
  BY DEF Decided
<1>3. CASE d # c
  <2>1. at'[d] = at[d] /\ req'[d] = req[d] /\ text'[d] = text[d] /\ based'[d] = based[d]
    BY <1>2, <1>3 DEF Contents, TypeOK, Leave, GoOn
  <2> QED
    BY <2>1 DEF Decided
<1>4. CASE d = c
  <2>1. t # None
    BY <1>2, <1>4 DEF Contents, TypeOK, Leave, Past
  <2>2. req' = req /\ text'[c] = t /\ based'[c] = disk[req[c].path]
    BY <1>2, <2>1 DEF Contents, TypeOK, GoOn
  <2> QED
    BY <1>1, <1>4, <2>1, <2>2, DecisionKeeps DEF Contents
<1> QED
  BY <1>3, <1>4

\* Every step keeps both edits in what has been decided on.
LEMMA NextDecided == ASSUME Contents, Decided, IInv, [Next]_vars PROVE Decided'
<1>1. ASSUME NEW c \in Client, Step(c) PROVE Decided'
  <2>1. Enter(c) \/ Check(c) \/ Later(c)
    BY <1>1 DEF Step, Later
  <2> QED
    BY <2>1, EnteringContents, CheckingDecides, LaterContents DEF Contents
<1> QED
  BY <1>1, BeginningContents, RestoringContents, OutsideContents DEF Next

\* The step that changes a file and ends a call of c is the move of c.
LEMMA Landing ==
  ASSUME TypeOK, [Next]_vars, NEW c \in Client, at[c] = "move", at'[c] = "idle", disk' # disk
  PROVE  Move(c)
<1>1. ~UNCHANGED vars /\ ~Crash /\ ~UserChanges
  BY DEF vars, disks, Crash, UserChanges
<1>2. PICK d \in Client : Begin(d) \/ BeginRestore(d) \/ Step(d)
  BY <1>1 DEF Next
<1>3. Move(d) \/ Put(d)
  <2>1. ~Drop(d) /\ ~DropDenied(d)
    BY DEF Drop, DropDenied, WriteBack
  <2> QED
    BY <1>2, <2>1 DEF Begin, BeginRestore, Step, Enter, Check, Verify, BackupNothing, Backup,
       BackupFails, PutFails, Prune, PruneUnread, DropFails, MoveFails, disks
<1>4. d = c
  BY <1>3 DEF TypeOK, Move, Put, GoOn, Leave
<1> QED
  BY <1>3, <1>4 DEF Put

\* What replaces the file holds what the author has put in, and what is in the file.
LEMMA BothKept ==
  ASSUME Contents, Decided, IInv, [Next]_vars, NEW c \in Client,
         at[c] = "move", at'[c] = "idle", disk' # disk, ~raced[c], req[c].expected # Absent,
         NEW edited \in {req[c].new, disk[req[c].path]},
         NEW put \in Added(req[c].expected, edited)
  PROVE  IsWithin(put, disk'[req[c].path])
<1>1. Move(c)
  BY Landing DEF Contents
<1>2. req[c].op = "apply" /\ req[c].path \in Path /\ disk[req[c].path] = based[c]
  BY Options DEF IInv, Courses, Turns, CheckedIsReplaced
<1>3. disk'[req[c].path] = text[c]
  BY <1>1, <1>2 DEF Move, IInv, Shape
<1>4. IsWithin(put, text[c])
  BY <1>2 DEF Decided, Past
<1> QED
  BY <1>3, <1>4

-----------------------------------------------------------------------------
\* The theorems.

\* The inductive invariant of the file service.
THEOREM Invariant == Spec => []IInv
<1> QED
  BY InitIInv, NextIInv, PTL DEF Spec

\* The file that a write replaces is the one its text was made from, for any
\* number of callers, files and restarts: who cannot be seen has come after the
\* second look.
THEOREM Replaced == Spec => []CheckedIsReplaced
<1>1. IInv => CheckedIsReplaced
  BY DEF IInv
<1> QED
  BY <1>1, Invariant, PTL

\* Every record of the index can be restored, however the calls, the prunes and the
\* restarts fall, but those that a prune of another file has brought back after they
\* had been removed; no record is ever brought back while one file is in use.
THEOREM Restorable == Spec => []RecordsHaveBlobs
<1>1. IInv => RecordsHaveBlobs
  BY DEF IInv
<1> QED
  BY <1>1, Invariant, PTL

\* What a write is about to replace can be restored, when its backup is the only
\* one of these contents.
THEOREM AtHand == Spec => []BackupAtHand
<1>1. IInv => BackupAtHand
  BY DEF IInv
<1> QED
  BY <1>1, Invariant, PTL

\* The service puts nothing but texts in a file, and backs up no file that does not
\* exist, whatever fails.
THEOREM Types == Spec => []TypeOK
<1>1. Init => Contents
  BY InitContents
<1>2. Contents /\ IInv /\ [Next]_vars => Contents'
  BY NextContents
<1>3. Contents => TypeOK
  BY DEF Contents
<1> QED
  BY <1>1, <1>2, <1>3, Invariant, PTL DEF Spec

\* No lost update: when a write that knows what its author saw lands, and nobody has
\* changed the file behind its back after the second look, the file holds the lines
\* the author has put in and those that others have, whatever the texts are.
THEOREM NoLostUpdate == Spec => BothEditsSurvive
<1>1. Init => Contents /\ Decided
  BY InitContents
<1>2. IInv /\ Contents /\ Decided /\ [Next]_vars => Contents' /\ Decided'
  BY NextContents, NextDecided
<1>3. IInv /\ Contents /\ Decided /\ [Next]_vars
        => [\A c \in Client :
              at[c] = "move" /\ at'[c] = "idle" /\ disk' # disk /\ ~raced[c] /\ req[c].expected # Absent =>
                  \A edited \in {req[c].new, disk[req[c].path]} :
                  \A put \in Added(req[c].expected, edited) : IsWithin(put, disk'[req[c].path])]_vars
  BY BothKept
<1> QED
  BY <1>1, <1>2, <1>3, Invariant, PTL DEF Spec, BothEditsSurvive
=============================================================================
