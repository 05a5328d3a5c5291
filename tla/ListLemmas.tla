---------------------------- MODULE ListLemmas ----------------------------
(***************************************************************************)
(* What the list operations of the models do to membership (Contains) and  *)
(* to lists without repetition (IsInjective); induction over the natural   *)
(* numbers, for sets of them, and the functions defined along it.          *)
(***************************************************************************)
EXTENDS Integers, FiniteSets, SequencesExt, SequenceTheorems, WellFoundedInduction, TLAPS

\* A set of natural numbers that is not empty has a least element.
LEMMA LeastElement ==
  ASSUME NEW T, T \subseteq Nat, T # {}
  PROVE  \E x \in T : \A y \in T : x <= y
<1>1. PICK x \in T : \A y \in T : ~(<<y, x>> \in OpToRel(<, Nat))
  BY NatLessThanWellFounded, WFMin, Zenon
<1>2. \A y \in T : ~(y < x)
  BY <1>1, Zenon DEF OpToRel
<1> QED
  <2> HIDE <1>1
  <2> QED
    BY <1>2

\* Induction, for a set: what holds 0 and the successor of each of its numbers
\* holds all natural numbers.
LEMMA SetInduction ==
  ASSUME NEW T, 0 \in T, \A n \in Nat : n \in T => n + 1 \in T
  PROVE  Nat \subseteq T
<1> SUFFICES ASSUME Nat \ T # {} PROVE FALSE
  OBVIOUS
<1>1. PICK x \in Nat \ T : \A y \in Nat \ T : x <= y
  BY LeastElement
<1>2. x # 0 /\ x - 1 \in Nat /\ ~(x <= x - 1) /\ (x - 1) + 1 = x
  BY <1>1
<1> QED
  BY <1>1, <1>2

\* The functions that begin with a and go on from k - 1 to k by g.
Iterations(X, a, n, g) ==
    {w \in [0..n -> X] : w[0] = a /\ \A k \in 1..n : w[k] = g[k][w[k - 1]]}

\* There is one.
LEMMA Recursion ==
  ASSUME NEW X, NEW a \in X, NEW n \in Nat, NEW g \in [1..n -> [X -> X]]
  PROVE  Iterations(X, a, n, g) # {}
<1> DEFINE Up(m) == \E w \in [0..m -> X] : w[0] = a /\ \A k \in 1..m : w[k] = g[k][w[k - 1]]
           T == {m \in Nat : m <= n => Up(m)}
<1>1. 0 \in T
  <2> DEFINE w == [k \in 0..0 |-> a]
  <2>1. w \in [0..0 -> X] /\ w[0] = a /\ \A k \in 1..0 : w[k] = g[k][w[k - 1]]
    OBVIOUS
  <2>2. Up(0)
    BY <2>1
  <2> QED
    BY <2>2
<1>2. ASSUME NEW m \in Nat, m \in T PROVE m + 1 \in T
  <2> SUFFICES ASSUME m + 1 <= n PROVE Up(m + 1)
    OBVIOUS
  <2>1. PICK w \in [0..m -> X] : w[0] = a /\ \A k \in 1..m : w[k] = g[k][w[k - 1]]
    BY <1>2
  <2> DEFINE v == [k \in 0..m + 1 |-> IF k = m + 1 THEN g[m + 1][w[m]] ELSE w[k]]
  <2>2. g[m + 1][w[m]] \in X
    BY <2>1
  <2>3. v \in [0..m + 1 -> X] /\ v[0] = a
    BY <2>1, <2>2
  <2>4. ASSUME NEW k \in 1..m + 1 PROVE v[k] = g[k][v[k - 1]]
    <3>1. CASE k = m + 1
      <4>1. v[m + 1] = g[m + 1][w[m]] /\ v[m] = w[m] /\ k - 1 = m
        BY <3>1
      <4> QED
        BY <3>1, <4>1
    <3>2. CASE k # m + 1
      <4>1. v[k] = w[k] /\ v[k - 1] = w[k - 1] /\ k \in 1..m
        BY <3>2
      <4> QED
        BY <2>1, <4>1
    <3> QED
      BY <3>1, <3>2
  <2> QED
    BY <2>3, <2>4
<1> HIDE DEF T
<1>3. n \in T
  BY <1>1, <1>2, SetInduction
<1> QED
  BY <1>3 DEF T, Iterations

\* Recursion along a rank: there is a function on D whose value at x is made by g from
\* its values of lower rank.
Ranked(D, X, rank, g) ==
    /\ g \in [D -> [[D -> X] -> X]]
    /\ \A x \in D : \A u, v \in [D -> X] :
          (\A y \in D : rank[y] < rank[x] => u[y] = v[y]) => g[x][u] = g[x][v]

Solutions(D, X, g) == {w \in [D -> X] : \A x \in D : w[x] = g[x][w]}

\* There is one: a function may be defined by recursion on the rank.
LEMMA RankedRecursion ==
  ASSUME NEW D, NEW X, X # {}, NEW n \in Nat, NEW rank \in [D -> 0..n],
         NEW g, Ranked(D, X, rank, g)
  PROVE  Solutions(D, X, g) # {}
<1> USE DEF Ranked
<1> DEFINE F == [D -> X]
           m == n + 2
           next == [k \in 1..m |-> [u \in F |-> [x \in D |-> g[x][u]]]]
<1>1. PICK a : a \in F
  <2>1. PICK b \in X : TRUE
    OBVIOUS
  <2>2. [x \in D |-> b] \in F
    OBVIOUS
  <2> QED
    BY <2>2
<1>2. m \in Nat /\ next \in [1..m -> [F -> F]]
  OBVIOUS
<1>3. \A k \in 1..m, u \in F, x \in D : next[k][u][x] = g[x][u]
  OBVIOUS
<1> HIDE DEF F, m, next
<1>4. PICK f \in [0..m -> F] : f[0] = a /\ \A k \in 1..m : f[k] = next[k][f[k - 1]]
  <2>1. Iterations(F, a, m, next) # {}
    BY <1>1, <1>2, Recursion
  <2> QED
    BY <2>1 DEF Iterations
<1> DEFINE Settled(k) == \A x \in D : rank[x] < k => f[k + 1][x] = f[k][x]
           T == {k \in Nat : k <= n + 1 => Settled(k)}
<1>5. 0 \in T
  OBVIOUS
<1>6. ASSUME NEW k \in Nat, k \in T PROVE k + 1 \in T
  <2> SUFFICES ASSUME k + 1 <= n + 1, NEW x \in D, rank[x] < k + 1
               PROVE  f[(k + 1) + 1][x] = f[k + 1][x]
    OBVIOUS
  <2>1. Settled(k) /\ k \in 0..m /\ k + 1 \in 1..m /\ (k + 1) + 1 \in 1..m
        /\ k + 1 \in 0..m /\ (k + 1) - 1 = k /\ ((k + 1) + 1) - 1 = k + 1
    BY <1>6 DEF m
  <2>2. f[k] \in F /\ f[k + 1] \in F
    BY <2>1, <1>4
  <2>3. f[k + 1][x] = g[x][f[k]] /\ f[(k + 1) + 1][x] = g[x][f[k + 1]]
    BY <1>3, <1>4, <2>1, <2>2
  <2>4. \A y \in D : rank[y] < rank[x] => f[k + 1][y] = f[k][y]
    BY <2>1
  <2> QED
    BY <2>2, <2>3, <2>4 DEF F
<1> HIDE DEF T
<1>7. n + 1 \in T
  BY <1>5, <1>6, SetInduction
<1> DEFINE w == f[n + 1]
<1>8. n + 1 \in 0..m /\ n + 2 \in 1..m /\ (n + 2) - 1 = n + 1 /\ (n + 1) + 1 = n + 2
  BY DEF m
<1>9. w \in F
  BY <1>4, <1>8
<1>10. ASSUME NEW x \in D PROVE w[x] = g[x][w]
  <2>1. f[n + 2][x] = g[x][w]
    BY <1>3, <1>4, <1>8, <1>9
  <2>2. f[n + 2][x] = w[x]
    BY <1>7, <1>8 DEF T
  <2> QED
    BY <2>1, <2>2
<1>11. w \in Solutions(D, X, g)
  BY <1>9, <1>10 DEF F, Solutions
<1> QED
  BY <1>11

\* FlattenSeq puts the lists of q together, one after the other.
LEMMA FlattenSteps ==
  ASSUME NEW S, NEW q \in Seq(Seq(S))
  PROVE  \E f \in [0..Len(q) -> Seq(S)] :
            /\ f[0] = <<>>
            /\ \A k \in 1..Len(q) : f[k] = f[k - 1] \o q[k]
            /\ FlattenSeq(q) = f[Len(q)]
<1> DEFINE n == Len(q)
           X == Seq(S)
           e == <<>>
           g == [k \in 1..n |-> [u \in X |-> u \o q[k]]]
<1>1. n \in Nat /\ e \in X /\ \A k \in 1..n : q[k] \in X
  OBVIOUS
<1>2. g \in [1..n -> [X -> X]] /\ \A k \in 1..n, u \in X : g[k][u] = u \o q[k]
  BY <1>1
<1> HIDE DEF g, e, X, n
<1>3. PICK f \in [0..n -> X] : f[0] = e /\ \A k \in 1..n : f[k] = g[k][f[k - 1]]
  <2>1. Iterations(X, e, n, g) # {}
    BY <1>1, <1>2, Recursion
  <2> QED
    BY <2>1 DEF Iterations
<1>4. \A k \in 1..n : f[k - 1] \in X /\ f[k] = f[k - 1] \o q[k]
  <2> SUFFICES ASSUME NEW k \in 1..n PROVE f[k - 1] \in X /\ f[k] = f[k - 1] \o q[k]
    OBVIOUS
  <2>1. k - 1 \in 0..n
    BY <1>1
  <2> QED
    BY <1>2, <1>3, <2>1
<1>5. CASE n = 0
  <2>1. FlattenSeq(q) = q /\ q = e
    BY <1>5 DEF FlattenSeq, n, e
  <2> QED
    BY <1>3, <1>4, <1>5, <2>1 DEF n, e, X
<1>6. CASE n # 0
  <2> DEFINE flatten == CHOOSE h : h = [i \in 1..n |-> IF i = 1 THEN q[i] ELSE h[i - 1] \o q[i]]
             h == [i \in 1..n |-> f[i]]
  <2>1. f[1] = q[1]
    <3>1. 1 \in 1..n /\ 1 - 1 = 0
      BY <1>1, <1>6
    <3>2. f[1] = <<>> \o q[1] /\ q[1] \in X
      BY <1>1, <1>3, <1>4, <3>1 DEF e
    <3> QED
      BY <3>2 DEF X
  <2>2. h = [i \in 1..n |-> IF i = 1 THEN q[i] ELSE h[i - 1] \o q[i]]
    <3>1. \A i \in 1..n : h[i] = IF i = 1 THEN q[i] ELSE h[i - 1] \o q[i]
      <4> SUFFICES ASSUME NEW i \in 1..n, i # 1 PROVE h[i] = h[i - 1] \o q[i]
        BY <2>1
      <4>1. i - 1 \in 1..n
        BY <1>1
      <4> QED
        BY <1>4, <4>1
    <3> HIDE DEF h
    <3>2. h = [i \in 1..n |-> h[i]]
      BY DEF h
    <3> QED
      BY <3>1, <3>2, Zenon
  <2> HIDE DEF h
  <2>3. flatten = [i \in 1..n |-> IF i = 1 THEN q[i] ELSE flatten[i - 1] \o q[i]]
    BY <2>2, Zenon
  <2>4. FlattenSeq(q) = flatten[n]
    BY <1>6, Zenon DEF FlattenSeq, n
  <2> HIDE DEF flatten
  <2>5. \A i \in 1..n : flatten[i] = IF i = 1 THEN q[i] ELSE flatten[i - 1] \o q[i]
    BY <2>3, Zenon
  <2> DEFINE T == {i \in Nat : i + 1 <= n => flatten[i + 1] = f[i + 1]}
  <2>6. 0 \in T
    <3>1. 1 \in 1..n /\ 0 + 1 = 1
      BY <1>1, <1>6
    <3> QED
      BY <2>1, <2>5, <3>1
  <2>7. ASSUME NEW i \in Nat, i \in T PROVE i + 1 \in T
    <3> SUFFICES ASSUME (i + 1) + 1 <= n PROVE flatten[(i + 1) + 1] = f[(i + 1) + 1]
      OBVIOUS
    <3>1. (i + 1) + 1 \in 1..n /\ (i + 1) + 1 # 1 /\ ((i + 1) + 1) - 1 = i + 1 /\ i + 1 <= n
      BY <1>1
    <3>2. flatten[i + 1] = f[i + 1]
      BY <2>7, <3>1
    <3>3. f[(i + 1) + 1] = f[i + 1] \o q[(i + 1) + 1]
      BY <1>4, <3>1
    <3>4. flatten[(i + 1) + 1] = flatten[i + 1] \o q[(i + 1) + 1]
      BY <2>5, <3>1
    <3> QED
      BY <3>2, <3>3, <3>4
  <2> HIDE DEF T
  <2>8. n - 1 \in T /\ (n - 1) + 1 = n
    BY <1>1, <1>6, <2>6, <2>7, SetInduction
  <2>9. FlattenSeq(q) = f[n]
    BY <1>1, <2>4, <2>8 DEF T
  <2> QED
    BY <1>3, <1>4, <2>9 DEF n, e, X
<1> QED
  BY <1>5, <1>6

\* So it gives a list of what they are lists of.
LEMMA FlattenType ==
  ASSUME NEW S, NEW q \in Seq(Seq(S))
  PROVE  FlattenSeq(q) \in Seq(S)
<1>1. PICK f \in [0..Len(q) -> Seq(S)] : FlattenSeq(q) = f[Len(q)]
  BY FlattenSteps
<1>2. Len(q) \in 0..Len(q)
  OBVIOUS
<1> QED
  BY <1>1, <1>2

\* The pieces r are the pieces q without the m-th, the last that is not empty (o).
WithoutLast(n, q, r, m, o) ==
    /\ n \in Nat /\ m \in 1..n /\ r[m] = o
    /\ \A j \in 1..n : j < m => r[j] = q[j]
    /\ \A j \in 1..n : m < j => r[j] = o /\ q[j] = o

\* The lists that grow by one piece after the other.
Together(S, n, q) ==
    {f \in [0..n -> Seq(S)] : f[0] = <<>> /\ \A k \in 1..n : f[k] = f[k - 1] \o q[k]}

\* Nothing changes when o is put after a list.
Neutral(S, o) == \A s \in Seq(S) : s \o o = s

\* The provers see no list in it before it is expanded.
Joint(s, t) == s \o t

\* A list of pieces without its last one that is not empty gives all but that piece.
LEMMA TogetherExtend ==
  ASSUME NEW S, NEW n, NEW m, NEW q, NEW r, NEW o, WithoutLast(n, q, r, m, o), Neutral(S, o)
  PROVE  \A f \in Together(S, n, q), g \in Together(S, n, r) : f[n] = Joint(g[n], q[m])
<1> SUFFICES ASSUME NEW f \in Together(S, n, q), NEW g \in Together(S, n, r)
             PROVE  f[n] = g[n] \o q[m]
  BY DEF Joint
<1> USE DEF WithoutLast
<1> DEFINE e == [k \in 0..n |-> g[k] \o q[m]]
<1>1. \A k \in 1..n :
         /\ f[k - 1] \in Seq(S) /\ f[k] = f[k - 1] \o q[k]
         /\ g[k - 1] \in Seq(S) /\ g[k] = g[k - 1] \o r[k]
  <2> SUFFICES ASSUME NEW k \in 1..n
               PROVE  /\ f[k - 1] \in Seq(S) /\ f[k] = f[k - 1] \o q[k]
                      /\ g[k - 1] \in Seq(S) /\ g[k] = g[k - 1] \o r[k]
    OBVIOUS
  <2>1. k - 1 \in 0..n
    OBVIOUS
  <2> QED
    BY <2>1 DEF Together
<1>2. \A k \in 0..n : e[k] = g[k] \o q[m]
  OBVIOUS
<1> HIDE DEF e
<1>3. ASSUME NEW k \in 1..n, k < m, f[k - 1] = g[k - 1] PROVE f[k] = g[k]
  <2>1. q[k] = r[k]
    BY <1>3 DEF WithoutLast
  <2> QED
    BY <1>1, <1>3, <2>1
<1>4. ASSUME NEW k \in 1..n, k = m, f[k - 1] = g[k - 1] PROVE f[k] = e[k]
  <2>1. r[k] = o
    BY <1>4 DEF WithoutLast
  <2>2. g[k - 1] \in Seq(S) /\ g[k] = g[k - 1] \o o
    BY <1>1, <2>1
  <2>3. g[k] = g[k - 1]
    BY <2>2 DEF Neutral
  <2>4. f[k] = g[k] \o q[m]
    BY <1>1, <1>4, <2>3
  <2>5. e[k] = g[k] \o q[m]
    <3>1. k \in 0..n
      OBVIOUS
    <3> QED
      BY <1>2, <3>1
  <2> QED
    BY <2>4, <2>5, Zenon
<1>5. ASSUME NEW k \in 1..n, m < k, f[k - 1] = e[k - 1] PROVE f[k] = e[k]
  <2>1. r[k] = o /\ q[k] = o
    BY <1>5 DEF WithoutLast
  <2>2. g[k - 1] \in Seq(S) /\ g[k] = g[k - 1] \o o /\ f[k - 1] \in Seq(S) /\ f[k] = f[k - 1] \o o
    BY <1>1, <2>1
  <2>3. g[k] = g[k - 1] /\ f[k] = f[k - 1]
    BY <2>2 DEF Neutral
  <2>4. e[k] = g[k] \o q[m] /\ e[k - 1] = g[k - 1] \o q[m]
    <3>1. k - 1 \in 0..n /\ k \in 0..n
      OBVIOUS
    <3> QED
      BY <1>2, <3>1
  <2> QED
    BY <1>5, <2>3, <2>4
<1> DEFINE T == {k \in Nat : k <= n => (k < m => f[k] = g[k]) /\ (m <= k => f[k] = e[k])}
<1>6. 0 \in T
  BY DEF Together
<1>7. ASSUME NEW k \in Nat, k \in T PROVE k + 1 \in T
  <2> SUFFICES ASSUME NEW l \in 1..n, l = k + 1
               PROVE  (l < m => f[l] = g[l]) /\ (m <= l => f[l] = e[l])
    OBVIOUS
  <2>1. l - 1 = k /\ k <= n
    OBVIOUS
  <2>2. (l - 1 < m => f[l - 1] = g[l - 1]) /\ (m <= l - 1 => f[l - 1] = e[l - 1])
    BY <1>7, <2>1
  <2>3. l < m => f[l] = g[l]
    BY <1>3, <2>2
  <2>4. l = m => f[l] = e[l]
    BY <1>4, <2>2
  <2>5. m < l => f[l] = e[l]
    BY <1>5, <2>2
  <2>6. m <= l => l = m \/ m < l
    OBVIOUS
  <2> QED
    BY <2>3, <2>4, <2>5, <2>6, Zenon
<1> HIDE DEF T
<1>8. n \in T
  BY <1>6, <1>7, SetInduction
<1>9. f[n] = e[n] /\ n \in 0..n
  BY <1>8 DEF T
<1> QED
  BY <1>2, <1>9

\* When r lacks the last piece of q that is not empty, FlattenSeq(q) has it in addition.
LEMMA FlattenExtend ==
  ASSUME NEW S, NEW q \in Seq(Seq(S)), NEW r \in Seq(Seq(S)), Len(q) = Len(r),
         NEW m, WithoutLast(Len(q), q, r, m, <<>>)
  PROVE  FlattenSeq(q) = FlattenSeq(r) \o q[m]
<1> DEFINE n == Len(q)
           o == <<>>
<1>1. n \in Nat /\ Neutral(S, o)
  BY DEF Neutral
<1>2. \E f \in Together(S, Len(q), q) : FlattenSeq(q) = f[Len(q)]
  BY FlattenSteps DEF Together
<1>3. \E g \in Together(S, Len(r), r) : FlattenSeq(r) = g[Len(r)]
  BY FlattenSteps DEF Together
<1>4. WithoutLast(n, q, r, m, o) /\ Neutral(S, o)
  BY <1>1
<1> HIDE DEF n, o
<1>5. \A f \in Together(S, n, q), g \in Together(S, n, r) : f[n] = Joint(g[n], q[m])
  BY <1>4, TogetherExtend
<1>6. FlattenSeq(q) = Joint(FlattenSeq(r), q[m])
  BY <1>2, <1>3, <1>5, Zenon DEF n
<1> QED
  BY <1>6 DEF Joint

\* Empty lists give the empty list.
LEMMA FlattenEmpty ==
  ASSUME NEW S, NEW q \in Seq(Seq(S)), \A j \in 1..Len(q) : q[j] = <<>>
  PROVE  FlattenSeq(q) = <<>>
<1> DEFINE n == Len(q)
<1>1. n \in Nat
  OBVIOUS
<1>2. PICK f \in [0..n -> Seq(S)] :
         f[0] = <<>> /\ (\A k \in 1..n : f[k] = f[k - 1] \o q[k]) /\ FlattenSeq(q) = f[n]
  BY FlattenSteps
<1> DEFINE T == {k \in Nat : k <= n => f[k] = <<>>}
<1>3. 0 \in T
  BY <1>2
<1>4. ASSUME NEW k \in Nat, k \in T PROVE k + 1 \in T
  <2> SUFFICES ASSUME k + 1 <= n PROVE f[k + 1] = <<>>
    OBVIOUS
  <2>1. k + 1 \in 1..n /\ (k + 1) - 1 = k /\ f[k] = <<>>
    BY <1>1, <1>4
  <2>2. f[k + 1] = <<>> \o <<>>
    BY <1>2, <2>1
  <2> QED
    BY <2>2
<1> HIDE DEF T
<1>5. n \in T
  BY <1>1, <1>3, <1>4, SetInduction
<1> QED
  BY <1>1, <1>2, <1>5 DEF T

\* The empty list has no member, and none of them twice.
LEMMA EmptyList == IsInjective(<<>>) /\ \A m : ~Contains(<<>>, m)
  BY DEF IsInjective, Contains

\* The members of a list to which an element was appended.
LEMMA AppendMembers ==
  ASSUME NEW S, NEW q \in Seq(S), NEW n \in S
  PROVE  \A m : Contains(Append(q, n), m) <=> Contains(q, m) \/ m = n
<1>1. ASSUME NEW m, Contains(Append(q, n), m) PROVE Contains(q, m) \/ m = n
  BY <1>1 DEF Contains
<1>2. ASSUME NEW m, Contains(q, m) PROVE Contains(Append(q, n), m)
  BY <1>2 DEF Contains
<1>3. Contains(Append(q, n), n)
  <2>1. Len(q) + 1 \in 1..Len(Append(q, n)) /\ Append(q, n)[Len(q) + 1] = n
    OBVIOUS
  <2> QED
    BY <2>1 DEF Contains
<1> QED
  BY <1>1, <1>2, <1>3

\* Appending a new element keeps a list without repetitions.
LEMMA AppendKeepsInjective ==
  ASSUME NEW S, NEW q \in Seq(S), NEW n \in S, IsInjective(q), ~Contains(q, n)
  PROVE  IsInjective(Append(q, n))
<1> SUFFICES ASSUME NEW i \in 1..Len(q) + 1, NEW j \in 1..Len(q) + 1,
                    Append(q, n)[i] = Append(q, n)[j], i < j
             PROVE  FALSE
  BY DEF IsInjective
<1>1. CASE j <= Len(q)
  BY <1>1 DEF IsInjective
<1>2. CASE j = Len(q) + 1
  BY <1>2 DEF Contains
<1> QED
  BY <1>1, <1>2

\* The members of the tail of a list without repetitions: all but the first.
LEMMA TailMembers ==
  ASSUME NEW S, NEW q \in Seq(S), q # <<>>, IsInjective(q)
  PROVE  /\ IsInjective(Tail(q))
         /\ \A m : Contains(Tail(q), m) <=> Contains(q, m) /\ m # Head(q)
<1>1. Tail(q) \in Seq(S) /\ Len(Tail(q)) = Len(q) - 1 /\ Len(q) \in Nat \ {0}
      /\ \A i \in 1..Len(q) - 1 : Tail(q)[i] = q[i + 1]
  OBVIOUS
<1>2. \A i, j \in 1..Len(q) : q[i] = q[j] => i = j
  BY DEF IsInjective
<1>3. IsInjective(Tail(q))
  BY <1>1, <1>2 DEF IsInjective
<1>4. ASSUME NEW m, Contains(Tail(q), m) PROVE Contains(q, m) /\ m # Head(q)
  <2>1. PICK i \in 1..Len(q) - 1 : q[i + 1] = m
    BY <1>1, <1>4 DEF Contains
  <2>2. i + 1 \in 1..Len(q) /\ 1 \in 1..Len(q) /\ i + 1 # 1
    BY <1>1, <2>1
  <2> QED
    BY <1>2, <2>1, <2>2 DEF Contains
<1>5. ASSUME NEW m, Contains(q, m), m # Head(q) PROVE Contains(Tail(q), m)
  <2>1. PICK i \in 1..Len(q) : q[i] = m
    BY <1>5 DEF Contains
  <2>2. i - 1 \in 1..Len(q) - 1 /\ Tail(q)[i - 1] = m
    BY <1>1, <1>5, <2>1
  <2> QED
    BY <1>1, <2>2 DEF Contains
<1> QED
  BY <1>3, <1>4, <1>5

\* The members of two lists joined together.
LEMMA ConcatMembers ==
  ASSUME NEW S, NEW q \in Seq(S), NEW w \in Seq(S)
  PROVE  \A m : Contains(q \o w, m) <=> Contains(q, m) \/ Contains(w, m)
<1> SUFFICES ASSUME NEW m PROVE Contains(q \o w, m) <=> Contains(q, m) \/ Contains(w, m)
  OBVIOUS
<1>1. ASSUME Contains(q \o w, m) PROVE Contains(q, m) \/ Contains(w, m)
  <2>1. PICK i \in 1..Len(q \o w) : (q \o w)[i] = m
    BY <1>1 DEF Contains
  <2>2. CASE i <= Len(q)
    BY <2>1, <2>2 DEF Contains
  <2>3. CASE i > Len(q)
    <3>1. i - Len(q) \in 1..Len(w) /\ w[i - Len(q)] = m
      BY <2>1, <2>3
    <3> QED BY <3>1 DEF Contains
  <2> QED BY <2>2, <2>3
<1>2. ASSUME Contains(q, m) PROVE Contains(q \o w, m)
  <2>1. PICK i \in 1..Len(q) : q[i] = m
    BY <1>2 DEF Contains
  <2>2. i \in 1..Len(q \o w) /\ (q \o w)[i] = m
    BY <2>1
  <2> QED BY <2>2 DEF Contains
<1>3. ASSUME Contains(w, m) PROVE Contains(q \o w, m)
  <2>1. PICK i \in 1..Len(w) : w[i] = m
    BY <1>3 DEF Contains
  <2>2. Len(q) + i \in 1..Len(q \o w) /\ (q \o w)[Len(q) + i] = m
    BY <2>1
  <2> QED BY <2>2 DEF Contains
<1> QED BY <1>1, <1>2, <1>3

\* Two lists without repetitions and with no common member, joined together.
LEMMA ConcatInjective ==
  ASSUME NEW S, NEW q \in Seq(S), NEW w \in Seq(S), IsInjective(q), IsInjective(w),
         \A m : ~(Contains(q, m) /\ Contains(w, m))
  PROVE  IsInjective(q \o w)
<1> SUFFICES ASSUME NEW i \in 1..Len(q \o w), NEW j \in 1..Len(q \o w),
                    (q \o w)[i] = (q \o w)[j], i < j
             PROVE  FALSE
  BY DEF IsInjective
<1>1. CASE j <= Len(q)
  BY <1>1 DEF IsInjective
<1>2. CASE i <= Len(q) /\ j > Len(q)
  <2>1. i \in 1..Len(q) /\ j - Len(q) \in 1..Len(w) /\ q[i] = w[j - Len(q)]
    BY <1>2
  <2> QED BY <2>1 DEF Contains
<1>3. CASE i > Len(q)
  <2>1. /\ i - Len(q) \in 1..Len(w) /\ j - Len(q) \in 1..Len(w)
        /\ w[i - Len(q)] = w[j - Len(q)]
    BY <1>3
  <2> QED BY <2>1, <1>3 DEF IsInjective
<1> QED BY <1>1, <1>2, <1>3

\* The members of a list without repetitions from which the k-th is removed.
LEMMA RemoveAtMembers ==
  ASSUME NEW S, NEW q \in Seq(S), IsInjective(q), NEW k \in 1..Len(q)
  PROVE  /\ RemoveAt(q, k) \in Seq(S)
         /\ Len(RemoveAt(q, k)) = Len(q) - 1
         /\ k > 1 => RemoveAt(q, k)[1] = q[1]
         /\ IsInjective(RemoveAt(q, k))
         /\ \A m : Contains(RemoveAt(q, k), m) <=> Contains(q, m) /\ m # q[k]
<1>0. \A i, j \in 1..Len(q) : q[i] = q[j] => i = j
  BY DEF IsInjective
<1> DEFINE n == q[k]
<1>1. q[k] = n
  OBVIOUS
<1> HIDE DEF n
<1> DEFINE r == RemoveAt(q, k)
<1>6. /\ r \in Seq(S) /\ Len(r) = Len(q) - 1
      /\ \A j \in 1..Len(q) - 1 : r[j] = IF j < k THEN q[j] ELSE q[j + 1]
  <2> DEFINE a == SubSeq(q, 1, k - 1)
             b == SubSeq(q, k + 1, Len(q))
  <2>1. a \in Seq(S) /\ Len(a) = k - 1 /\ \A j \in 1..k - 1 : a[j] = q[j]
    BY <1>1
  <2>2. b \in Seq(S) /\ Len(b) = Len(q) - k /\ \A j \in 1..Len(q) - k : b[j] = q[j + k]
    <3>1. \A j \in k + 1..Len(q) : q[j] \in S
      BY <1>1
    <3>2. \A j \in 1..Len(q) - k : (k + 1) + j - 1 = j + k
      BY <1>1
    <3>3. Len(q) - (k + 1) + 1 = Len(q) - k /\ k + 1 \in Int /\ Len(q) \in Int
      BY <1>1
    <3>4. k + 1 <= Len(q) \/ Len(q) - k = 0
      BY <1>1
    <3>5. b \in Seq(S)
      BY <3>1, <3>3, SubSeqProperties
    <3>6. Len(b) = Len(q) - k
      <4>1. Len(b) = IF k + 1 <= Len(q) THEN Len(q) - (k + 1) + 1 ELSE 0
        BY <3>1, <3>3, SubSeqProperties
      <4> HIDE DEF b
      <4> QED
        BY <1>1, <4>1
    <3>7. \A j \in 1..Len(q) - k : b[j] = q[(k + 1) + j - 1]
      BY <3>1, <3>3, SubSeqProperties
    <3> QED
      BY <3>2, <3>5, <3>6, <3>7
  <2>3. r = a \o b
    BY DEF RemoveAt
  <2> HIDE DEF a, b, r
  <2>4. Len(r) = Len(q) - 1 /\ r \in Seq(S)
    BY <1>1, <2>1, <2>2, <2>3
  <2>5. ASSUME NEW j \in 1..Len(q) - 1 PROVE r[j] = IF j < k THEN q[j] ELSE q[j + 1]
    <3>1. CASE j < k
      BY <1>1, <2>1, <2>2, <2>3, <3>1
    <3>2. CASE ~(j < k)
      <4>1. j - (k - 1) \in 1..Len(q) - k /\ (j - (k - 1)) + k = j + 1
        BY <1>1, <3>2
      <4>2. r[j] = b[j - (k - 1)]
        BY <1>1, <2>1, <2>2, <2>3, <3>2
      <4> QED
        BY <2>2, <3>2, <4>1, <4>2
    <3> QED
      BY <3>1, <3>2
  <2> QED
    BY <2>4, <2>5
<1> HIDE DEF r
<1>7. IsInjective(r)
  <2>1. SUFFICES ASSUME NEW i \in 1..Len(q) - 1, NEW j \in 1..Len(q) - 1, i < j, r[i] = r[j]
                 PROVE  FALSE
    BY SMTT(30), <1>6 DEF IsInjective
  <2> QED
    BY <1>0, <1>1, <1>6, <2>1
<1>8. ASSUME NEW m PROVE Contains(r, m) <=> Contains(q, m) /\ m # n
  <2>1. ASSUME Contains(r, m) PROVE Contains(q, m) /\ m # n
    <3>1. PICK j \in 1..Len(q) - 1 : r[j] = m
      BY <1>6, <2>1 DEF Contains
    <3>2. CASE j < k
      <4>1. j \in 1..Len(q) /\ q[j] = m /\ j # k
        BY <1>1, <1>6, <3>1, <3>2
      <4> QED
        BY <1>0, <1>1, <4>1 DEF Contains
    <3>3. CASE ~(j < k)
      <4>1. j + 1 \in 1..Len(q) /\ q[j + 1] = m /\ j + 1 # k
        BY <1>1, <1>6, <3>1, <3>3
      <4> QED
        BY <1>0, <1>1, <4>1 DEF Contains
    <3> QED
      BY <3>2, <3>3
  <2>2. ASSUME Contains(q, m), m # n PROVE Contains(r, m)
    <3>1. PICK j \in 1..Len(q) : q[j] = m
      BY <2>2 DEF Contains
    <3>2. CASE j < k
      <4>1. j \in 1..Len(r) /\ r[j] = m
        BY <1>1, <1>6, <3>1, <3>2
      <4> QED
        BY <4>1 DEF Contains
    <3>3. CASE j > k
      <4>1. j - 1 \in 1..Len(r) /\ r[j - 1] = m
        BY <1>1, <1>6, <3>1, <3>3
      <4> QED
        BY <4>1 DEF Contains
    <3> QED
      BY <1>1, <2>2, <3>1, <3>2, <3>3
  <2> QED
    BY <2>1, <2>2
<1>9. k > 1 => r[1] = q[1]
  BY <1>6
<1> QED
  BY <1>6, <1>7, <1>8, <1>9 DEF r, n

\* The members of a list without repetitions from which one is removed.
LEMMA RemoveFirstMembers ==
  ASSUME NEW S, NEW q \in Seq(S), IsInjective(q), NEW n, Contains(q, n)
  PROVE  /\ RemoveFirst(q, n) \in Seq(S)
         /\ IsInjective(RemoveFirst(q, n))
         /\ \A m : Contains(RemoveFirst(q, n), m) <=> Contains(q, m) /\ m # n
<1>1. PICK k \in 1..Len(q) : q[k] = n
  BY DEF Contains
<1>2. {i \in 1..Len(q) : q[i] = n} = {k}
  BY <1>1 DEF IsInjective
<1>3. Min({k}) = k
  BY <1>1 DEF Min
<1>4. SelectInSeq(q, LAMBDA v : v = n) = k
  BY <1>2, <1>3 DEF SelectInSeq
<1>5. RemoveFirst(q, n) = RemoveAt(q, k)
  BY <1>1, <1>4 DEF RemoveFirst
<1> QED
  BY <1>1, <1>5, RemoveAtMembers
=============================================================================
