------------------------- MODULE SearchFailoverProofs -------------------------
(***************************************************************************)
(* Proofs about SearchFailover, for any providers, searches and bounds: no *)
(* provider loses its slot, an open primary is replaced if it can be, and  *)
(* a search that reports nothing available has tried all that was.         *)
(***************************************************************************)
EXTENDS SearchFailover, ListLemmas

-----------------------------------------------------------------------------
\* The default order.

\* The function along ByPriority that Default takes its value from.
UpTo(c) ==
    CHOOSE upto : upto = [i \in 0..Len(ByPriority) |->
        IF i = 0 THEN <<>>
        ELSE IF ByPriority[i] \in c THEN Append(upto[i - 1], ByPriority[i])
        ELSE upto[i - 1]]

\* It exists, and satisfies its equation.
LEMMA UpToEquation ==
  ASSUME NEW c
  PROVE  /\ UpTo(c) = [i \in 0..Len(ByPriority) |->
                IF i = 0 THEN <<>>
                ELSE IF ByPriority[i] \in c THEN Append(UpTo(c)[i - 1], ByPriority[i])
                ELSE UpTo(c)[i - 1]]
         /\ Default(c) = UpTo(c)[Len(ByPriority)]
<1> DEFINE L == Len(ByPriority)
           S == Seq(Provider)
           g == [i \in 1..L |-> [q \in S |->
                    IF ByPriority[i] \in c THEN Append(q, ByPriority[i]) ELSE q]]
<1>1. L \in Nat /\ ByPriority \in S /\ <<>> \in S /\ \A i \in 1..L : ByPriority[i] \in Provider
  BY SearchAssumption
<1>2. g \in [1..L -> [S -> S]]
  BY <1>1
<1>3. \A i \in 1..L, q \in S :
        g[i][q] = IF ByPriority[i] \in c THEN Append(q, ByPriority[i]) ELSE q
  BY <1>1
<1> HIDE DEF L, S, g
<1>4. PICK w \in [0..L -> S] : w[0] = <<>> /\ \A i \in 1..L : w[i] = g[i][w[i - 1]]
  <2>1. Iterations(S, <<>>, L, g) # {}
    BY <1>1, <1>2, Recursion
  <2> QED
    BY <2>1 DEF Iterations
<1>5. w = [i \in 0..L |->
            IF i = 0 THEN <<>>
            ELSE IF ByPriority[i] \in c THEN Append(w[i - 1], ByPriority[i])
            ELSE w[i - 1]]
  <2>1. ASSUME NEW i \in 1..L
        PROVE  w[i] = IF ByPriority[i] \in c THEN Append(w[i - 1], ByPriority[i]) ELSE w[i - 1]
    <3>1. i - 1 \in 0..L
      BY <1>1
    <3> QED
      BY <1>3, <1>4, <3>1
  <2>2. \A i \in 0..L : w[i] = IF i = 0 THEN <<>>
            ELSE IF ByPriority[i] \in c THEN Append(w[i - 1], ByPriority[i])
            ELSE w[i - 1]
    <3>1. \A i \in 0..L : i # 0 => i \in 1..L
      BY <1>1
    <3> QED
      BY <1>4, <2>1, <3>1, Zenon
  <2> QED
    BY <1>4, <2>2
<1>6. UpTo(c) = [i \in 0..L |->
            IF i = 0 THEN <<>>
            ELSE IF ByPriority[i] \in c THEN Append(UpTo(c)[i - 1], ByPriority[i])
            ELSE UpTo(c)[i - 1]]
  BY <1>5, Zenon DEF UpTo, L
<1>7. Default(c) = UpTo(c)[L]
  BY Zenon DEF Default, UpTo, L
<1> QED
  BY <1>6, <1>7, Zenon DEF L

\* The default order of the providers of c: each of them has one slot.
LEMMA DefaultOrder ==
  ASSUME NEW c
  PROVE  /\ Default(c) \in Seq(Provider)
         /\ IsInjective(Default(c))
         /\ \A p : Contains(Default(c), p) <=> p \in Provider \cap c
<1> DEFINE L == Len(ByPriority)
           u == UpTo(c)
           Good(i) == /\ u[i] \in Seq(Provider) /\ IsInjective(u[i])
                      /\ \A p : Contains(u[i], p) <=> p \in c /\ \E j \in 1..i : ByPriority[j] = p
           T == {i \in Nat : i <= L => Good(i)}
<1>1. L \in Nat /\ \A i \in 1..L : ByPriority[i] \in Provider
  BY SearchAssumption
<1>2. \A i, j \in 1..L : ByPriority[i] = ByPriority[j] => i = j
  BY SearchAssumption DEF IsInjective
<1>3. u = [i \in 0..L |->
            IF i = 0 THEN <<>>
            ELSE IF ByPriority[i] \in c THEN Append(u[i - 1], ByPriority[i])
            ELSE u[i - 1]]
  BY UpToEquation, Zenon
<1> HIDE DEF L, u
<1>4. u[0] = <<>> /\ \A i \in 1..L :
            u[i] = IF ByPriority[i] \in c THEN Append(u[i - 1], ByPriority[i]) ELSE u[i - 1]
  <2>1. 0 \in 0..L /\ \A i \in 1..L : i \in 0..L /\ i # 0
    BY <1>1
  <2>2. \A i \in 0..L : u[i] = IF i = 0 THEN <<>>
            ELSE IF ByPriority[i] \in c THEN Append(u[i - 1], ByPriority[i])
            ELSE u[i - 1]
    BY <1>3, Zenon
  <2> QED
    BY <2>1, <2>2, Zenon
<1>5. 0 \in T
  <2>1. Good(0)
    <3>1. u[0] \in Seq(Provider) /\ 1..0 = {}
      BY <1>4
    <3> QED
      BY <1>4, <3>1, EmptyList
  <2> QED
    BY <2>1
<1>6. ASSUME NEW i \in Nat, i \in T PROVE i + 1 \in T
  <2> SUFFICES ASSUME i + 1 <= L PROVE Good(i + 1)
    OBVIOUS
  <2> DEFINE b == ByPriority[i + 1]
  <2>1. Good(i) /\ i + 1 \in 1..L /\ (i + 1) - 1 = i /\ b \in Provider
    BY <1>1, <1>6
  <2>2. u[i + 1] = IF b \in c THEN Append(u[i], b) ELSE u[i]
    BY <1>4, <2>1
  <2>3. \A j \in 1..i : ByPriority[j] # b
    BY <1>1, <1>2, <2>1
  <2>4. \A p : (\E j \in 1..i + 1 : ByPriority[j] = p) <=> p = b \/ \E j \in 1..i : ByPriority[j] = p
    <3>1. 1..i + 1 = (1..i) \cup {i + 1}
      BY <2>1
    <3> QED
      BY <3>1
  <2> HIDE DEF b
  <2>5. CASE b \in c
    <3>1. ~Contains(u[i], b)
      BY <2>1, <2>3
    <3>2. IsInjective(Append(u[i], b)) /\ Append(u[i], b) \in Seq(Provider)
      BY <2>1, <3>1, AppendKeepsInjective
    <3>3. \A p : Contains(Append(u[i], b), p) <=> Contains(u[i], p) \/ p = b
      BY <2>1, AppendMembers
    <3> QED
      BY <2>1, <2>2, <2>4, <2>5, <3>2, <3>3
  <2>6. CASE b \notin c
    <3>1. u[i + 1] = u[i]
      BY <2>2, <2>6
    <3>2. \A p : p \in c => ((\E j \in 1..i + 1 : ByPriority[j] = p) <=> \E j \in 1..i : ByPriority[j] = p)
      BY <2>4, <2>6
    <3> QED
      BY <2>1, <3>1, <3>2
  <2> QED
    BY <2>5, <2>6
<1> HIDE DEF T
<1>7. L \in T
  BY <1>1, <1>5, <1>6, SetInduction
<1>8. Good(L)
  BY <1>1, <1>7 DEF T
<1>9. \A p : p \in Provider <=> \E j \in 1..L : ByPriority[j] = p
  BY SearchAssumption DEF ToSet, L
<1>10. Default(c) = u[L]
  BY UpToEquation, Zenon DEF u, L
<1> QED
  BY <1>8, <1>9, <1>10

-----------------------------------------------------------------------------
\* The other lists.

\* The members of a list, as a set.
LEMMA SetOfMembers ==
  ASSUME NEW S, NEW q \in Seq(S)
  PROVE  \A p : p \in ToSet(q) <=> Contains(q, p)
BY DEF ToSet, Contains

\* A promotion keeps each slot, and the usable backup has the first one.
LEMMA PromotionKeeps ==
  ASSUME slots \in Seq(Provider), IsInjective(slots), slots # <<>>, NEW i \in 2..Len(slots)
  PROVE  /\ Reordered(i) \in Seq(Provider)
         /\ IsInjective(Reordered(i))
         /\ ToSet(Reordered(i)) = ToSet(slots)
         /\ Reordered(i)[1] = slots[i]
<1> DEFINE h == Head(slots)
           b == slots[i]
           r == RemoveAt(slots, i)
           a == <<b>>
           z == <<h>>
<1>1. i \in 1..Len(slots) /\ i > 1 /\ Len(slots) \in Nat /\ h = slots[1] /\ h \in Provider /\ b \in Provider
  OBVIOUS
<1>2. h # b
  BY <1>1 DEF IsInjective
<1>3. /\ r \in Seq(Provider) /\ Len(r) = Len(slots) - 1 /\ r[1] = h /\ IsInjective(r)
      /\ \A p : Contains(r, p) <=> Contains(slots, p) /\ p # b
  BY <1>1, RemoveAtMembers
<1>4. a \in Seq(Provider) /\ IsInjective(a) /\ \A p : Contains(a, p) <=> p = b
  BY <1>1 DEF IsInjective, Contains
<1>5. z \in Seq(Provider) /\ IsInjective(z) /\ \A p : Contains(z, p) <=> p = h
  BY <1>1 DEF IsInjective, Contains
<1>6. Reordered(i) = (a \o Tail(r)) \o z
  BY <1>1, <1>3, ConcatAssociative DEF Reordered
<1>7. Contains(slots, h) /\ Contains(slots, b)
  BY <1>1 DEF Contains
<1> HIDE DEF h, b, r, a, z
<1>8. r # <<>> /\ Head(r) = h
  BY <1>1, <1>3
<1>9. /\ Tail(r) \in Seq(Provider) /\ IsInjective(Tail(r))
      /\ \A p : Contains(Tail(r), p) <=> Contains(slots, p) /\ p # b /\ p # h
  BY <1>3, <1>8, TailMembers
<1>10. /\ a \o Tail(r) \in Seq(Provider) /\ IsInjective(a \o Tail(r))
       /\ \A p : Contains(a \o Tail(r), p) <=> p = b \/ (Contains(slots, p) /\ p # h)
  <2>1. \A p : ~(Contains(a, p) /\ Contains(Tail(r), p))
    BY <1>4, <1>9
  <2>2. \A p : Contains(a \o Tail(r), p) <=> Contains(a, p) \/ Contains(Tail(r), p)
    BY <1>4, <1>9, ConcatMembers
  <2>3. IsInjective(a \o Tail(r))
    BY <1>4, <1>9, <2>1, ConcatInjective
  <2>4. a \o Tail(r) \in Seq(Provider)
    BY <1>4, <1>9
  <2> QED
    BY <1>2, <1>4, <1>9, <2>2, <2>3, <2>4
<1> DEFINE y == a \o Tail(r)
<1> HIDE DEF y
<1>11. /\ y \o z \in Seq(Provider) /\ IsInjective(y \o z)
       /\ \A p : Contains(y \o z, p) <=> Contains(slots, p)
  <2>1. \A p : ~(Contains(y, p) /\ Contains(z, p))
    BY <1>2, <1>5, <1>10 DEF y
  <2>2. \A p : Contains(y \o z, p) <=> Contains(y, p) \/ Contains(z, p)
    BY <1>5, <1>10, ConcatMembers DEF y
  <2>3. IsInjective(y \o z)
    BY <1>5, <1>10, <2>1, ConcatInjective DEF y
  <2>4. y \o z \in Seq(Provider)
    BY <1>5, <1>10 DEF y
  <2> QED
    BY <1>5, <1>7, <1>10, <2>2, <2>3, <2>4 DEF y
<1>12. Reordered(i)[1] = b
  <2>1. y[1] = b /\ Len(y) >= 1
    BY <1>9 DEF y, a
  <2> QED
    BY <1>5, <1>6, <1>10, <2>1 DEF y
<1>13. ToSet(Reordered(i)) = ToSet(slots)
  <2>1. \A p : p \in ToSet(y \o z) <=> Contains(y \o z, p)
    BY <1>11, SetOfMembers
  <2>2. \A p : p \in ToSet(slots) <=> Contains(slots, p)
    BY SetOfMembers
  <2> QED
    BY <1>6, <1>11, <2>1, <2>2 DEF y
<1> QED
  BY <1>6, <1>11, <1>12, <1>13 DEF y, b

\* A start of the program gives each provider that is configured one slot, in
\* whatever state the file is.
LEMMA LoadKeeps ==
  ASSUME disk = Torn \/ disk \in Seq(Provider), disk # Torn => IsInjective(disk),
         NEW c \in SUBSET Provider
  PROVE  /\ LoadSlotState(c) \in Seq(Provider)
         /\ IsInjective(LoadSlotState(c))
         /\ c \subseteq ToSet(LoadSlotState(c))
<1>1. CASE disk \in {Missing, Torn}
  <2>1. LoadSlotState(c) = Default(c)
    BY <1>1 DEF LoadSlotState
  <2> QED
    BY <2>1, DefaultOrder, SetOfMembers
<1>2. CASE disk \notin {Missing, Torn}
  <2> DEFINE more == Default(Provider \ ToSet(disk))
  <2>1. disk \in Seq(Provider) /\ IsInjective(disk) /\ LoadSlotState(c) = disk \o more
    BY <1>2 DEF LoadSlotState
  <2>2. /\ more \in Seq(Provider) /\ IsInjective(more)
        /\ \A p : Contains(more, p) <=> p \in Provider \cap (Provider \ ToSet(disk))
    BY DefaultOrder
  <2>3. \A p : p \in ToSet(disk) <=> Contains(disk, p)
    BY <2>1, SetOfMembers
  <2> HIDE DEF more
  <2>4. IsInjective(disk \o more) /\ disk \o more \in Seq(Provider)
    BY <2>1, <2>2, <2>3, ConcatInjective
  <2>5. \A p : Contains(disk \o more, p) <=> Contains(disk, p) \/ Contains(more, p)
    BY <2>1, <2>2, ConcatMembers
  <2>6. \A p : p \in ToSet(disk \o more) <=> Contains(disk \o more, p)
    BY <2>4, SetOfMembers
  <2> QED
    BY <2>1, <2>2, <2>3, <2>4, <2>5, <2>6
<1> QED
  BY <1>1, <1>2

-----------------------------------------------------------------------------
\* Each step keeps the invariant.

\* The invariant holds at the start.
LEMMA InitIInv == Init => IInv
<1> SUFFICES ASSUME Init PROVE IInv
  OBVIOUS
<1> USE SearchAssumption DEF Init
<1>1. /\ slots \in Seq(Provider) /\ IsInjective(slots) /\ configured \in SUBSET Provider
      /\ \A p : Contains(slots, p) <=> p \in Provider \cap configured
  BY DefaultOrder
<1>2. booted \subseteq ToSet(slots)
  BY <1>1, SetOfMembers
<1>3. disk = <<>> /\ disk \in Seq(Provider) /\ IsInjective(disk)
  BY EmptyList DEF Missing
<1>4. task \in [Search -> [step: Step, todo: Seq(Provider), cur: Provider \cup {None},
                           seen: 0..Threshold, order: Seq(Provider), found: BOOLEAN]]
  BY DEF Idle, Step
<1>5. TypeOK
  BY <1>1, <1>2, <1>3, <1>4 DEF TypeOK
<1>6. OrdersInjective
  BY <1>3, EmptyList DEF OrdersInjective, Idle
<1>7. Courses /\ DueToCome
  BY DEF Courses, DueToCome, At, Idle
<1>8. OpenPrimaryIsReplaced
  <2>1. slots # <<>> => Head(slots) \in Provider
    BY <1>1
  <2> QED
    BY <2>1 DEF OpenPrimaryIsReplaced
<1> QED
  BY <1>5, <1>6, <1>7, <1>8 DEF IInv

SearchTask ==
    [step: Step, todo: Seq(Provider), cur: Provider \cup {None},
     seen: 0..Threshold, order: Seq(Provider), found: BOOLEAN]

\* What a search holds, apart from its place in the program.
TaskFine(t) ==
    /\ t \in SearchTask
    /\ IsInjective(t.order)
    /\ t.step = "asking" => t.cur \in Keyed
    /\ t.step \in {"call", "record", "check", "promote"} => t.cur \in Provider

\* The types and courses of the searches, put together.
LEMMA TasksFine ==
  ASSUME TypeOK, OrdersInjective, Courses
  PROVE  task \in [Search -> SearchTask] /\ \A s \in Search : TaskFine(task[s])
BY DEF TypeOK, OrdersInjective, Courses, TaskFine, SearchTask, At

\* An idle search.
LEMMA IdleFine == TaskFine(Idle)
<1>1. <<>> \in Seq(Provider) /\ IsInjective(<<>>)
  BY EmptyList
<1> QED
  BY <1>1, SearchAssumption DEF TaskFine, SearchTask, Idle, Step

\* Each step of a search keeps what it holds.
LEMMA SearchTaskStep ==
  ASSUME IInv, NEW s \in Search, Begin(s) \/ SearchStep(s)
  PROVE  task' \in [Search -> SearchTask] /\ \A t \in Search : TaskFine(task'[t])
<1>1. /\ task \in [Search -> SearchTask] /\ \A t \in Search : TaskFine(task[t])
      /\ slots \in Seq(Provider) /\ IsInjective(slots) /\ fails \in [Provider -> 0..Threshold]
  BY TasksFine DEF IInv, TypeOK
<1>2. ASSUME NEW t, task' = [task EXCEPT ![s] = t], TaskFine(t)
      PROVE  task' \in [Search -> SearchTask] /\ \A u \in Search : TaskFine(task'[u])
  BY <1>1, <1>2 DEF TaskFine
<1> DEFINE old == task[s]
<1>3. old \in SearchTask /\ TaskFine(old)
  BY <1>1
<1> USE SearchAssumption DEF At, Goes
<1>4. CASE Begin(s)
  <2>1. TaskFine([old EXCEPT !.step = "ask"])
    BY <1>3 DEF TaskFine, SearchTask, Step
  <2>2. task' = [task EXCEPT ![s] = [old EXCEPT !.step = "ask"]]
    BY <1>1, <1>4 DEF Begin
  <2> QED
    BY <1>2, <2>1, <2>2
<1>5. ASSUME NEW p \in Provider, Ask(s, p)
      PROVE  task' \in [Search -> SearchTask] /\ \A t \in Search : TaskFine(task'[t])
  <2>1. TaskFine([old EXCEPT !.step = "asking", !.cur = p])
    BY <1>3, <1>5 DEF TaskFine, SearchTask, Step, Ask
  <2>2. task' = [task EXCEPT ![s] = [old EXCEPT !.step = "asking", !.cur = p]]
    BY <1>1, <1>5 DEF Ask
  <2> QED
    BY <1>2, <2>1, <2>2
<1>6. CASE Answered(s)
  <2>1. TaskFine([old EXCEPT !.step = "ask"])
    BY <1>3 DEF TaskFine, SearchTask, Step
  <2>2. task' = [task EXCEPT ![s] = [old EXCEPT !.step = "ask"]]
    BY <1>1, <1>6 DEF Answered
  <2> QED
    BY <1>2, <2>1, <2>2
<1>7. CASE TakeOrder(s)
  <2>1. TaskFine([old EXCEPT !.step = "walk", !.todo = slots, !.cur = None])
    BY <1>1, <1>3 DEF TaskFine, SearchTask, Step
  <2>2. task' = [task EXCEPT ![s] = [old EXCEPT !.step = "walk", !.todo = slots, !.cur = None]]
    BY <1>1, <1>7 DEF TakeOrder
  <2> QED
    BY <1>2, <2>1, <2>2
<1>8. CASE Walk(s)
  <2> DEFINE p == Head(old.todo)
             next == IF Usable(p) THEN "call" ELSE "walk"
  <2>1. p \in Provider /\ Tail(old.todo) \in Seq(Provider)
    BY <1>3, <1>8 DEF Walk, SearchTask
  <2>2. TaskFine([old EXCEPT !.step = next, !.cur = p, !.todo = Tail(old.todo)])
    BY <1>3, <2>1 DEF TaskFine, SearchTask, Step
  <2>3. task' = [task EXCEPT ![s] = [old EXCEPT !.step = next, !.cur = p, !.todo = Tail(old.todo)]]
    BY <1>1, <1>8 DEF Walk, Rest
  <2> QED
    BY <1>2, <2>2, <2>3
<1>9. CASE GiveUp(s)
  BY <1>2, <1>9, IdleFine DEF GiveUp
<1>10. CASE CallSucceeds(s)
  <2>1. TaskFine([old EXCEPT !.step = "save", !.found = TRUE])
    BY <1>3 DEF TaskFine, SearchTask, Step
  <2>2. task' = [task EXCEPT ![s] = [old EXCEPT !.step = "save", !.found = TRUE]]
    BY <1>1, <1>10 DEF CallSucceeds
  <2> QED
    BY <1>2, <2>1, <2>2
<1>11. CASE CallFails(s)
  <2>1. old.cur \in Provider /\ fails[old.cur] \in 0..Threshold
    BY <1>1, <1>3, <1>11 DEF TaskFine, CallFails
  <2>2. TaskFine([old EXCEPT !.step = "record", !.seen = fails[old.cur]])
    BY <1>3, <2>1 DEF TaskFine, SearchTask, Step
  <2>3. task' = [task EXCEPT ![s] = [old EXCEPT !.step = "record", !.seen = fails[old.cur]]]
    BY <1>1, <1>11 DEF CallFails
  <2> QED
    BY <1>2, <2>2, <2>3
<1>12. CASE RecordFailure(s)
  <2>1. TaskFine([old EXCEPT !.step = "check"])
    BY <1>3, <1>12 DEF TaskFine, SearchTask, Step, RecordFailure
  <2>2. task' = [task EXCEPT ![s] = [old EXCEPT !.step = "check"]]
    BY <1>1, <1>12 DEF RecordFailure
  <2> QED
    BY <1>2, <2>1, <2>2
<1>13. CASE Cancelled(s)
  BY <1>2, <1>13, IdleFine DEF Cancelled
<1>14. CASE StaysClosed(s)
  <2>1. TaskFine([old EXCEPT !.step = "walk"])
    BY <1>3 DEF TaskFine, SearchTask, Step
  <2>2. task' = [task EXCEPT ![s] = [old EXCEPT !.step = "walk"]]
    BY <1>1, <1>14 DEF StaysClosed
  <2> QED
    BY <1>2, <2>1, <2>2
<1>15. CASE Promote(s)
  <2>1. TaskFine([old EXCEPT !.step = "save"])
    BY <1>3 DEF TaskFine, SearchTask, Step
  <2>2. task' = [task EXCEPT ![s] = [old EXCEPT !.step = "save"]]
    BY <1>1, <1>15 DEF Promote
  <2> QED
    BY <1>2, <2>1, <2>2
<1>16. CASE Trips(s)
  <2>1. TaskFine([old EXCEPT !.step = "promote"])
    BY <1>3, <1>16 DEF TaskFine, SearchTask, Step, Trips
  <2>2. task' = [task EXCEPT ![s] = [old EXCEPT !.step = "promote"]]
    BY <1>1, <1>16 DEF Trips
  <2> QED
    BY <1>2, <2>1, <2>2
<1>17. CASE Copy(s)
  <2>1. TaskFine([old EXCEPT !.step = "write", !.order = slots])
    BY <1>1, <1>3 DEF TaskFine, SearchTask, Step
  <2>2. task' = [task EXCEPT ![s] = [old EXCEPT !.step = "write", !.order = slots]]
    BY <1>1, <1>17 DEF Copy
  <2> QED
    BY <1>2, <2>1, <2>2
<1>18. TaskFine(Saved(s))
  <2>1. <<>> \in Seq(Provider) /\ IsInjective(<<>>)
    BY EmptyList
  <2>2. TaskFine([old EXCEPT !.step = "walk", !.order = <<>>])
    BY <1>3, <2>1 DEF TaskFine, SearchTask, Step
  <2> QED
    BY <2>2, IdleFine DEF Saved
<1>19. CASE BeginWrite(s)
  <2>1. TaskFine([old EXCEPT !.step = "writing"])
    BY <1>3 DEF TaskFine, SearchTask, Step
  <2>2. task' = [task EXCEPT ![s] = Saved(s)] \/ task' = [task EXCEPT ![s] = [old EXCEPT !.step = "writing"]]
    BY <1>1, <1>19 DEF BeginWrite
  <2> QED
    BY <1>2, <1>18, <2>1, <2>2
<1>20. CASE EndWrite(s)
  BY <1>2, <1>18, <1>20 DEF EndWrite
<1> QED
  BY <1>4, <1>5, <1>6, <1>7, <1>8, <1>9, <1>10, <1>11, <1>12, <1>13, <1>14, <1>15, <1>16,
     <1>17, <1>19, <1>20 DEF SearchStep

\* The backup that PromoteNextAvailable finds is one that can be used.
LEMMA FirstUsableIsUsable ==
  ASSUME slots \in Seq(Provider), FirstUsable > 0
  PROVE  FirstUsable \in 2..Len(slots) /\ Usable(slots[FirstUsable])
<1> DEFINE able == {i \in 2..Len(slots) : Usable(slots[i])}
<1>1. able # {} /\ FirstUsable = CHOOSE i \in able : \A j \in able : i <= j
  BY DEF FirstUsable
<1>2. able \subseteq Nat
  OBVIOUS
<1> HIDE DEF able
<1>3. \E i \in able : \A j \in able : i <= j
  BY <1>1, <1>2, LeastElement
<1>4. FirstUsable \in able
  BY <1>1, <1>3, Zenon
<1> QED
  BY <1>4 DEF able

\* What a search does to the slots: nothing, or it gives the first one to a provider
\* that can be used.
LEMMA SlotStep ==
  ASSUME IInv, NEW s \in Search, Begin(s) \/ SearchStep(s)
  PROVE  /\ slots' \in Seq(Provider) /\ IsInjective(slots') /\ ToSet(slots') = ToSet(slots)
         /\ \/ slots' = slots
            \/ slots' # <<>> /\ Usable(slots'[1]) /\ circuit' = circuit
<1>1. slots \in Seq(Provider) /\ IsInjective(slots)
  BY DEF IInv, TypeOK
<1>2. CASE Promote(s) /\ IsPrimary(task[s].cur) /\ FirstUsable > 0
  <2>1. slots # <<>> /\ slots' = Reordered(FirstUsable) /\ circuit' = circuit
    BY <1>2 DEF Promote, IsPrimary, health
  <2>2. FirstUsable \in 2..Len(slots) /\ Usable(slots[FirstUsable])
    BY <1>1, <1>2, FirstUsableIsUsable
  <2>3. /\ slots' \in Seq(Provider) /\ IsInjective(slots') /\ ToSet(slots') = ToSet(slots)
        /\ slots'[1] = slots[FirstUsable]
    BY <1>1, <2>1, <2>2, PromotionKeeps
  <2>4. slots' # <<>>
    <3>1. slots[1] \in ToSet(slots)
      BY <1>1, <2>1 DEF ToSet
    <3>2. slots' = <<>> => ToSet(slots') = {}
      BY DEF ToSet
    <3> QED
      BY <2>3, <3>1, <3>2
  <2> QED
    BY <2>1, <2>2, <2>3, <2>4
<1>3. CASE Promote(s) /\ ~(IsPrimary(task[s].cur) /\ FirstUsable > 0)
  BY <1>1, <1>3 DEF Promote
<1>4. CASE ~Promote(s)
  <2>1. slots' = slots
    BY <1>4 DEF Begin, SearchStep, Ask, Answered, TakeOrder, Walk, GiveUp, CallSucceeds, CallFails,
                RecordFailure, Cancelled, StaysClosed, Trips, Copy, BeginWrite, EndWrite
  <2> QED
    BY <1>1, <2>1
<1> QED
  BY <1>2, <1>3, <1>4

\* What it does to the rest of the state.
LEMMA HealthStep ==
  ASSUME IInv, NEW s \in Search, Begin(s) \/ SearchStep(s)
  PROVE  /\ fails' \in [Provider -> 0..Threshold]
         /\ circuit' \in [Provider -> {"closed", "open", "cooled"}]
         /\ configured' \subseteq Provider /\ declined' \subseteq Keyed
         /\ disk' = Torn \/ disk' \in Seq(Provider)
         /\ disk' # Torn => IsInjective(disk')
         /\ searches' \in 0..MaxSearches /\ restarts' = restarts
<1> USE SearchAssumption
<1>1. /\ fails \in [Provider -> 0..Threshold] /\ circuit \in [Provider -> {"closed", "open", "cooled"}]
      /\ configured \subseteq Provider /\ declined \subseteq Keyed
      /\ disk = Torn \/ disk \in Seq(Provider)
      /\ disk # Torn => IsInjective(disk)
      /\ searches \in 0..MaxSearches
  BY DEF IInv, TypeOK, OrdersInjective
<1>2. task \in [Search -> SearchTask] /\ TaskFine(task[s])
  BY TasksFine DEF IInv
<1>3. CASE Answered(s)
  BY <1>1, <1>2, <1>3 DEF Answered, TaskFine, At, health
<1>4. CASE CallSucceeds(s)
  BY <1>1, <1>2, <1>4 DEF CallSucceeds, TaskFine, At, health
<1>5. CASE RecordFailure(s)
  <2>1. task[s].seen \in 0..Threshold
    BY <1>2 DEF SearchTask
  <2> DEFINE count == IF task[s].seen < Threshold THEN task[s].seen + 1 ELSE Threshold
  <2>2. count \in 0..Threshold
    BY <2>1
  <2>3. fails' = [fails EXCEPT ![task[s].cur] = count]
    BY <1>5 DEF RecordFailure
  <2> HIDE DEF count
  <2>4. fails' \in [Provider -> 0..Threshold]
    BY <1>1, <2>2, <2>3
  <2> QED
    BY <1>1, <2>4, <1>5 DEF RecordFailure
<1>6. CASE BeginWrite(s) \/ EndWrite(s)
  BY <1>1, <1>2, <1>6 DEF BeginWrite, EndWrite, TaskFine, SearchTask, health
<1>7. CASE Begin(s)
  BY <1>1, <1>7 DEF Begin, health
<1>8. CASE ~(Begin(s) \/ Answered(s) \/ CallSucceeds(s) \/ RecordFailure(s) \/ BeginWrite(s) \/ EndWrite(s))
  <2>1. UNCHANGED <<fails, circuit, configured, declined, disk, searches, restarts>>
    BY <1>8 DEF SearchStep, Ask, TakeOrder, Walk, GiveUp, CallFails, Cancelled, StaysClosed,
                Trips, Promote, Copy, health
  <2> QED
    BY <1>1, <2>1
<1> QED
  BY <1>3, <1>4, <1>5, <1>6, <1>7, <1>8

\* A step of a search keeps types, orders and courses.
LEMMA SearchKeepsTypes ==
  ASSUME IInv, NEW s \in Search, Begin(s) \/ SearchStep(s), Observe
  PROVE  TypeOK' /\ OrdersInjective' /\ Courses'
<1>1. restarts' = restarts
  BY HealthStep
<1>2. booted' = booted
  BY <1>1 DEF Observe
<1>3. TypeOK'
  <2>1. restarts' \in 0..MaxRestarts /\ booted' \subseteq ToSet(slots')
    BY <1>1, <1>2, SlotStep DEF IInv, TypeOK
  <2> QED
    BY <2>1, SearchTaskStep, SlotStep, HealthStep DEF TypeOK, SearchTask
<1>4. OrdersInjective'
  BY SearchTaskStep, HealthStep DEF OrdersInjective, TaskFine
<1>5. Courses'
  BY SearchTaskStep DEF Courses, TaskFine, At
<1> QED
  BY <1>3, <1>4, <1>5

\* So do the end of a cooldown and a restart.
LEMMA OthersKeepTypes ==
  ASSUME IInv, (\E p \in Provider : Cooldown(p)) \/ Restart, Observe
  PROVE  TypeOK' /\ OrdersInjective' /\ Courses'
<1>1. CASE \E p \in Provider : Cooldown(p)
  <2>1. PICK p \in Provider : Cooldown(p)
    BY <1>1
  <2>2. circuit' \in [Provider -> {"closed", "open", "cooled"}]
    BY <2>1 DEF Cooldown, IInv, TypeOK
  <2>3. UNCHANGED <<slots, fails, configured, declined, task, disk, searches, restarts>> /\ booted' = booted
    BY <2>1 DEF Cooldown, Observe
  <2>4. TypeOK'
    BY <2>2, <2>3 DEF IInv, TypeOK
  <2>5. OrdersInjective' /\ Courses'
    BY <2>3 DEF IInv, OrdersInjective, Courses, At
  <2> QED
    BY <2>4, <2>5
<1>2. CASE Restart
  <2>1. PICK c \in SUBSET Provider : configured' = c /\ slots' = LoadSlotState(c)
    BY <1>2 DEF Restart
  <2>2. /\ slots' \in Seq(Provider) /\ IsInjective(slots') /\ configured' \subseteq ToSet(slots')
    BY <2>1, LoadKeeps DEF IInv, TypeOK, OrdersInjective
  <2>3. restarts' = restarts + 1 /\ restarts' \in 0..MaxRestarts /\ restarts' # restarts
    BY <1>2, SearchAssumption DEF Restart, IInv, TypeOK
  <2>4. booted' = configured'
    BY <2>3 DEF Observe
  <2>5. /\ fails' = [p \in Provider |-> 0] /\ circuit' = [p \in Provider |-> "closed"]
        /\ declined' = {} /\ task' = [t \in Search |-> Idle]
        /\ disk' = disk /\ searches' = searches
    BY <1>2 DEF Restart
  <2>6. task' \in [Search -> SearchTask] /\ \A t \in Search : TaskFine(task'[t])
    BY <2>5, IdleFine DEF TaskFine
  <2>7. TypeOK'
    <3>1. 0 \in 0..Threshold
      BY SearchAssumption
    <3> QED
      BY <2>1, <2>2, <2>3, <2>4, <2>5, <2>6, <3>1 DEF IInv, TypeOK, SearchTask
  <2>8. OrdersInjective'
    BY <2>5, <2>6 DEF IInv, OrdersInjective, TaskFine
  <2>9. Courses'
    BY <2>6 DEF Courses, TaskFine, At
  <2> QED
    BY <2>7, <2>8, <2>9
<1> QED
  BY <1>1, <1>2

\* A search leaves the others alone.
LEMMA OneMoves ==
  ASSUME IInv, NEW s \in Search, Begin(s) \/ SearchStep(s), NEW u \in Search, u # s
  PROVE  task'[u] = task[u]
<1>1. task \in [Search -> SearchTask]
  BY TasksFine DEF IInv
<1> QED
  BY <1>1 DEF Begin, SearchStep, Ask, Answered, TakeOrder, Walk, GiveUp, CallSucceeds, CallFails,
              RecordFailure, Cancelled, StaysClosed, Trips, Promote, Copy, BeginWrite, EndWrite,
              Goes

\* A circuit opens only for a failure that is then to be looked at.
LEMMA Opened ==
  ASSUME IInv, NEW s \in Search, Begin(s) \/ SearchStep(s), NEW p \in Provider,
         circuit[p] # "open", circuit'[p] = "open"
  PROVE  task'[s].step = "check" /\ task'[s].cur = p
<1>1. task \in [Search -> SearchTask] /\ circuit \in [Provider -> {"closed", "open", "cooled"}]
  BY TasksFine DEF IInv, TypeOK
<1>2. CASE RecordFailure(s)
  <2>1. p = task[s].cur
    BY <1>1, <1>2 DEF RecordFailure
  <2>2. task'[s] = [task[s] EXCEPT !.step = "check"]
    BY <1>1, <1>2 DEF RecordFailure, Goes
  <2> QED
    BY <1>1, <2>1, <2>2 DEF SearchTask
<1>3. CASE CallSucceeds(s)
  BY <1>1, <1>3 DEF CallSucceeds
<1>4. CASE ~RecordFailure(s) /\ ~CallSucceeds(s)
  <2>1. circuit' = circuit
    BY <1>4 DEF Begin, SearchStep, Ask, Answered, TakeOrder, Walk, GiveUp, CallFails, Cancelled,
                StaysClosed, Trips, Promote, Copy, BeginWrite, EndWrite, health
  <2> QED
    BY <2>1
<1> QED
  BY <1>2, <1>3, <1>4

\* From an open circuit a search goes on to the promotion, and from there to the
\* order to save.
LEMMA OnItsWay ==
  ASSUME IInv, NEW s \in Search, Begin(s) \/ SearchStep(s),
         task[s].step \in {"check", "promote"}, circuit[task[s].cur] = "open"
  PROVE  \/ task'[s].step = "promote" /\ task'[s].cur = task[s].cur
         \/ task[s].step = "promote" /\ task'[s].step = "save"
<1>1. task \in [Search -> SearchTask]
  BY TasksFine DEF IInv
<1>2. Trips(s) \/ Promote(s)
  BY DEF Begin, SearchStep, Ask, Answered, TakeOrder, Walk, GiveUp, CallSucceeds, CallFails,
         RecordFailure, Cancelled, StaysClosed, Copy, BeginWrite, EndWrite, At
<1> QED
  BY <1>1, <1>2 DEF Trips, Promote, Goes, At, SearchTask

\* An open primary is replaced: it stays only where nothing could take its place,
\* and a new primary could be used when it took the slot.
LEMMA ReplacedStep ==
  ASSUME IInv, Next, TypeOK'
  PROVE  OpenPrimaryIsReplaced'
<1> DEFINE h == Head(slots')
           Coming == \E u \in Search : task'[u].step \in {"check", "promote"} /\ task'[u].cur = h
<1> SUFFICES ASSUME slots' # <<>>, circuit'[h] = "open" PROVE h \in stranded' \/ Coming
  BY DEF OpenPrimaryIsReplaced
<1>1. h \in Provider /\ h = slots'[1]
  BY DEF TypeOK
<1>2. stranded' = {p \in stranded \cup {task[s].cur : s \in {t \in Search : LeftInPlace(t)}} :
                       circuit'[p] = "open" /\ restarts' = restarts}
  BY DEF Next, Observe
<1>3. ~Restart
  BY <1>1 DEF Restart
<1>4. ASSUME NEW p \in Provider, Cooldown(p) PROVE h \in stranded' \/ Coming
  <2>1. /\ slots' = slots /\ task' = task /\ restarts' = restarts
        /\ circuit' = [circuit EXCEPT ![p] = "cooled"]
    BY <1>4 DEF Cooldown
  <2>2. circuit[h] = "open"
    BY <1>1, <2>1 DEF IInv, TypeOK
  <2> QED
    BY <1>2, <2>1, <2>2 DEF IInv, OpenPrimaryIsReplaced
<1>5. ASSUME NEW s \in Search, Begin(s) \/ SearchStep(s) PROVE h \in stranded' \/ Coming
  <2>1. restarts' = restarts
    BY <1>5, HealthStep
  <2>2. slots' = slots
    BY <1>1, <1>5, SlotStep DEF Usable
  <2>3. CASE circuit[h] # "open"
    BY <1>1, <1>5, <2>3, Opened
  <2>4. CASE circuit[h] = "open"
    <3>1. CASE h \in stranded
      BY <1>2, <2>1, <3>1
    <3>2. CASE h \notin stranded
      <4>1. PICK u \in Search : task[u].step \in {"check", "promote"} /\ task[u].cur = h
        BY <2>2, <2>4, <3>2 DEF IInv, OpenPrimaryIsReplaced
      <4>2. CASE u # s
        BY <1>5, <4>1, <4>2, OneMoves
      <4>3. CASE u = s /\ task[s].step = "promote" /\ task'[s].step = "save"
        <5>1. LeftInPlace(s)
          BY <2>2, <4>1, <4>3 DEF LeftInPlace, IsPrimary, At
        <5> QED
          BY <1>2, <2>1, <4>1, <4>3, <5>1
      <4>4. CASE u = s /\ task'[s].step = "promote" /\ task'[s].cur = task[s].cur
        BY <4>1, <4>4
      <4> QED
        BY <1>5, <2>4, <4>1, <4>2, <4>3, <4>4, OnItsWay
    <3> QED
      BY <3>1, <3>2
  <2> QED
    BY <2>3, <2>4
<1> QED
  BY <1>3, <1>4, <1>5 DEF Next

\* The first of the list, or one that is still to come.
LEMMA TailHolds ==
  ASSUME NEW S, NEW q \in Seq(S), q # <<>>
  PROVE  ToSet(q) \subseteq {Head(q)} \cup ToSet(Tail(q))
<1> SUFFICES ASSUME NEW i \in 1..Len(q), q[i] # Head(q) PROVE q[i] \in ToSet(Tail(q))
  BY DEF ToSet
<1>1. i - 1 \in 1..Len(Tail(q)) /\ Tail(q)[i - 1] = q[i]
  OBVIOUS
<1>2. Tail(q) \in Seq(S)
  OBVIOUS
<1>3. i - 1 \in DOMAIN Tail(q)
  BY <1>1, <1>2
<1> QED
  BY <1>1, <1>3 DEF ToSet

\* What is due to a search: at first what can be used, then ever less of it.
DueNow(s) == {p \in ToSet(slots) : Usable(p)}
StillDue(s) ==
    {p \in due[s] : Usable(p)' /\ task'[s].step # "idle"
                      /\ ~(task'[s].step = "call" /\ task'[s].cur = p)}

\* A search that has taken its order takes another one only after it has ended.
LEMMA DueStep ==
  ASSUME IInv, Next
  PROVE  DueToCome'
<1> DEFINE early == {"idle", "ask", "asking"}
           Kept(u) == IF task'[u].step \in early THEN due'[u] = {}
                      ELSE due'[u] \subseteq ToSet(task'[u].todo)
<1> SUFFICES ASSUME NEW u \in Search PROVE Kept(u)
  BY DEF DueToCome
<1>1. due'[u] = IF task'[u].step # "idle" /\ At(u, "ask") /\ task'[u].step = "walk"
                THEN DueNow(u) ELSE StillDue(u)
  BY DEF Next, Observe, DueNow, StillDue
<1>2. task \in [Search -> SearchTask]
  BY TasksFine DEF IInv
<1>3. IF task[u].step \in early THEN due[u] = {} ELSE due[u] \subseteq ToSet(task[u].todo)
  BY DEF IInv, DueToCome
<1>4. CASE task'[u].step = "idle"
  BY <1>1, <1>4 DEF StillDue
<1>5. CASE task'[u] = task[u]
  <2>1. due'[u] \subseteq due[u]
    BY <1>1, <1>5 DEF StillDue, At
  <2> QED
    BY <1>3, <1>5, <2>1
<1>6. ASSUME task'[u].todo = task[u].todo, task'[u].step # "idle",
             task[u].step \in early <=> task'[u].step \in early
      PROVE  Kept(u)
  <2>1. due'[u] \subseteq due[u]
    BY <1>1, <1>6 DEF StillDue, At
  <2> QED
    BY <1>3, <1>6, <2>1
<1>7. ASSUME NEW s \in Search, Begin(s) \/ SearchStep(s), s = u PROVE Kept(u)
  <2> USE <1>2, <1>7 DEF At, Goes, SearchTask
  <2>1. CASE TakeOrder(s)
    BY <1>1, <2>1 DEF TakeOrder, DueNow
  <2>2. CASE Walk(s)
    <3> DEFINE h == Head(task[u].todo)
    <3>1. /\ task[u].todo # <<>> /\ task[u].todo \in Seq(Provider) /\ task[u].step = "walk"
          /\ task'[u].todo = Tail(task[u].todo) /\ task'[u].cur = h
          /\ task'[u].step = IF Usable(h) THEN "call" ELSE "walk"
          /\ configured' = configured /\ circuit' = circuit
      BY <2>2 DEF Walk, Rest, health
    <3>2. due'[u] = StillDue(u)
      BY <1>1, <3>1
    <3>3. h \notin StillDue(u)
      BY <3>1 DEF StillDue, Usable
    <3>4. due[u] \subseteq ToSet(task[u].todo)
      BY <1>3, <3>1
    <3>5. due'[u] \subseteq ToSet(task[u].todo) \ {h}
      BY <3>2, <3>3, <3>4 DEF StillDue
    <3>6. due'[u] \subseteq ToSet(task'[u].todo)
      BY <3>1, <3>5, TailHolds
    <3> QED
      BY <3>1, <3>6
  <2>3. CASE Begin(s)
    BY <1>1, <1>3, <2>3 DEF Begin, StillDue
  <2>4. CASE (\E p \in Provider : Ask(s, p)) \/ Answered(s)
    BY <1>6, <2>4 DEF Ask, Answered
  <2>5. CASE CallSucceeds(s) \/ CallFails(s) \/ RecordFailure(s)
    BY <1>6, <2>5 DEF CallSucceeds, CallFails, RecordFailure
  <2>6. CASE StaysClosed(s) \/ Trips(s) \/ Promote(s) \/ Copy(s)
    BY <1>6, <2>6 DEF StaysClosed, Trips, Promote, Copy
  <2>7. CASE GiveUp(s) \/ Cancelled(s)
    BY <1>4, <2>7 DEF GiveUp, Cancelled, Idle
  <2>8. CASE BeginWrite(s) \/ EndWrite(s)
    <3>1. Saved(s) = Idle \/ Saved(s) = [task[s] EXCEPT !.step = "walk", !.order = <<>>]
      BY DEF Saved
    <3>2. CASE task'[u] = Idle
      BY <1>4, <3>2 DEF Idle
    <3>3. CASE task'[u] # Idle
      <4>1. task[u].step \in {"write", "writing"}
        BY <2>8 DEF BeginWrite, EndWrite
      <4>2. CASE Goes(s, "writing")
        <5>1. task'[u].todo = task[u].todo /\ task'[u].step = "writing"
          BY <4>2
        <5> QED
          BY <1>6, <4>1, <5>1
      <4>3. CASE task' = [task EXCEPT ![s] = Saved(s)]
        <5>1. task'[u] = [task[u] EXCEPT !.step = "walk", !.order = <<>>]
          BY <3>1, <3>3, <4>3
        <5>2. task'[u].todo = task[u].todo /\ task'[u].step = "walk"
          BY <5>1
        <5> QED
          BY <1>6, <4>1, <5>2
      <4> QED
        BY <2>8, <4>2, <4>3 DEF BeginWrite, EndWrite
    <3> QED
      BY <3>2, <3>3
  <2> QED
    BY <2>1, <2>2, <2>3, <2>4, <2>5, <2>6, <2>7, <2>8 DEF SearchStep
<1>8. ASSUME NEW s \in Search, Begin(s) \/ SearchStep(s), s # u PROVE Kept(u)
  <2>1. task'[u] = task[u]
    BY <1>8, OneMoves
  <2> QED
    BY <1>5, <2>1
<1>9. ASSUME NEW p \in Provider, Cooldown(p) PROVE Kept(u)
  BY <1>5, <1>9 DEF Cooldown
<1>10. CASE Restart
  BY <1>4, <1>10 DEF Restart, Idle
<1> QED
  BY <1>7, <1>8, <1>9, <1>10 DEF Next

\* Every step keeps the invariant.
LEMMA NextIInv == IInv /\ [Next]_vars => IInv'
<1>1. ASSUME IInv, Next PROVE IInv'
  <2>1. TypeOK' /\ OrdersInjective' /\ Courses'
    BY <1>1, SearchKeepsTypes, OthersKeepTypes DEF Next
  <2> QED
    BY <1>1, <2>1, ReplacedStep, DueStep DEF IInv
<1>2. ASSUME IInv, UNCHANGED vars PROVE IInv'
  BY <1>2 DEF vars, health, IInv, TypeOK, OrdersInjective, Courses, OpenPrimaryIsReplaced, LeftInPlace,
            DueToCome, At
<1> QED
  BY <1>1, <1>2

-----------------------------------------------------------------------------
\* The theorems.

\* The inductive invariant holds for any providers, searches and restarts.
THEOREM Invariant == Spec => []IInv
<1> QED
  BY InitIInv, NextIInv, PTL DEF Spec

\* The state keeps its types; no provider has two slots, and none that was
\* configured at the start is without one.
THEOREM Slots == Spec => []TypeOK
<1>1. IInv => TypeOK
  BY DEF IInv
<1> QED
  BY <1>1, Invariant, PTL

\* A primary whose circuit is open is about to be replaced, unless no backup could
\* take its place, however many searches fail at the same time.
THEOREM Replaced == Spec => []OpenPrimaryIsReplaced
<1>1. IInv => OpenPrimaryIsReplaced
  BY DEF IInv
<1> QED
  BY <1>1, Invariant, PTL

\* A search that reports nothing available has tried every provider that could be
\* used all the time it went along the slots.
THEOREM Honest == Spec => UnavailableIsHonest
<1>1. IInv /\ [Next]_vars =>
        [\A s \in Search : At(s, "walk") /\ task[s].todo = <<>> /\ task'[s] = Idle
              /\ restarts' = restarts => due[s] = {}]_vars
  <2> SUFFICES ASSUME IInv, NEW s \in Search, At(s, "walk"), task[s].todo = <<>>
               PROVE  due[s] = {}
    OBVIOUS
  <2>1. due[s] \subseteq ToSet(task[s].todo)
    BY DEF IInv, DueToCome, At
  <2>2. ToSet(<<>>) = {}
    BY DEF ToSet
  <2> QED
    BY <2>1, <2>2
<1> QED
  BY <1>1, Invariant, PTL DEF Spec, UnavailableIsHonest
===============================================================================
