----------------------------- MODULE StagingProofs -----------------------------
(***************************************************************************)
(* Staging keeps its promises for any number of sessions, batches, files   *)
(* and commands.                                                           *)
(***************************************************************************)
EXTENDS Staging, TLAPS

\* The kinds of values that are told apart.
LEMMA Names ==
  /\ \A b \in Batch : b \in Text /\ b # Absent /\ b # Empty /\ b # None /\ b \notin UserText
  /\ Absent \in Text /\ Empty \in Text /\ UserText \subseteq Text
  /\ \A s \in Session : s # None
  /\ \A p \in Path : p # None
  /\ None \notin UserText /\ None # Absent /\ None # Empty
BY StagingAssumption DEF Text

\* The entries and the jobs that the actions write down.
LEMMA Values ==
  /\ Unknown \in Entry /\ Pending \in Entry /\ Idle \in Job
  /\ \A e \in Entry, x \in Status : [e EXCEPT !.status = x] \in Entry
BY Names DEF Unknown, Pending, Idle, Entry, Status, Job, Step

\* A count that is below its bound may grow by one.
LEMMA Counting ==
  ASSUME NEW bound \in Nat, NEW n \in 0..bound, n < bound
  PROVE  n + 1 \in 0..bound
OBVIOUS

\* What a command that saves the index can leave behind.
LEMMA Saving ==
  ASSUME TypeOK, NEW m \in [Batch -> Entry], SaveIndex(m)
  PROVE  /\ index' \in {m, index} /\ index' \in [Batch -> Entry]
         /\ upsets' \in 0..MaxUpsets
BY Counting, StagingAssumption DEF TypeOK, SaveIndex, Upset

-----------------------------------------------------------------------------
\* Types.

\* The commands leave the locks and the jobs alone, but for one that begins.
LEMMA CommandTypes ==
  ASSUME TypeOK, NEW s \in Session,
         \/ ScanExpiry(s) \/ Cleanup(s)
         \/ \E b \in Batch : Reject(s, b) \/ \E ps \in (SUBSET Path) \ {{}} : CreateBatch(s, b, ps)
  PROVE  TypeOK'
<1>0. UNCHANGED <<files, lock, job, open, wrote, age>>
  BY DEF ScanExpiry, Cleanup, Reject, CreateBatch
<1>c. Command(s)
  BY DEF ScanExpiry, Cleanup, Reject, CreateBatch
<1>1. commands' \in 0..MaxCommands
  BY <1>c, Counting, StagingAssumption DEF TypeOK, Command
<1>2. ASSUME NEW m \in [Batch -> Entry], SaveIndex(m), stored' \subseteq Batch,
             mem' \in [Session -> [Batch -> Entry]], base' \in [Batch -> [Path -> Text \cup {None}]]
      PROVE  TypeOK'
  BY <1>0, <1>1, <1>2, Saving DEF TypeOK, LocksHeld
<1>3. CASE ScanExpiry(s)
  <2> DEFINE m == [b \in Batch |-> IF mem[s][b].status = "pending"
                                   THEN [mem[s][b] EXCEPT !.status = Expired(b)] ELSE mem[s][b]]
  <2>1. \A b \in Batch : Expired(b) \in Status /\ mem[s][b] \in Entry
    BY DEF Expired, Status, TypeOK
  <2>2. m \in [Batch -> Entry]
    BY <2>1, Values
  <2>3. mem' = [mem EXCEPT ![s] = m] /\ SaveIndex(mem'[s]) /\ UNCHANGED <<stored, base>>
    BY <1>3 DEF ScanExpiry
  <2> HIDE DEF m
  <2>4. mem'[s] = m /\ mem' \in [Session -> [Batch -> Entry]]
    BY <2>2, <2>3 DEF TypeOK
  <2> QED
    BY <1>2, <2>2, <2>3, <2>4 DEF TypeOK
<1>4. CASE Cleanup(s)
  <2>1. PICK old \in SUBSET Batch :
          /\ SaveIndex([b \in Batch |-> IF b \in old THEN Unknown ELSE index[b]])
          /\ stored' = stored \ old /\ UNCHANGED <<mem, base>>
    BY <1>4 DEF Cleanup
  <2>2. [b \in Batch |-> IF b \in old THEN Unknown ELSE index[b]] \in [Batch -> Entry]
    BY Values DEF TypeOK
  <2> QED
    BY <1>2, <2>1, <2>2 DEF TypeOK
<1>5. ASSUME NEW b \in Batch, Reject(s, b) PROVE TypeOK'
  <2>1. /\ mem' = [mem EXCEPT ![s] = [mem[s] EXCEPT ![b] = [mem[s][b] EXCEPT !.status = "rejected"]]]
        /\ SaveIndex(mem'[s]) /\ UNCHANGED <<stored, base>>
    BY <1>5 DEF Reject
  <2>2. mem[s][b] \in Entry /\ "rejected" \in Status
    BY DEF TypeOK, Status
  <2> DEFINE e == [mem[s][b] EXCEPT !.status = "rejected"]
  <2>e. e \in Entry
    BY <2>2, Values
  <2>m. mem' = [mem EXCEPT ![s] = [mem[s] EXCEPT ![b] = e]]
    BY <2>1
  <2> HIDE DEF e
  <2>3. mem' \in [Session -> [Batch -> Entry]]
    BY <2>m, <2>e DEF TypeOK
  <2> QED
    BY <1>2, <2>1, <2>3 DEF TypeOK
<1>6. ASSUME NEW b \in Batch, NEW ps \in SUBSET Path, CreateBatch(s, b, ps) PROVE TypeOK'
  <2>1. /\ mem' = [mem EXCEPT ![s] = [mem[s] EXCEPT ![b] = Pending]]
        /\ SaveIndex(mem'[s]) /\ stored' = stored \cup {b}
        /\ base' = [base EXCEPT ![b] = [p \in Path |-> IF p \in ps THEN files[p] ELSE None]]
    BY <1>6 DEF CreateBatch
  <2>2. mem' \in [Session -> [Batch -> Entry]]
    BY <2>1, Values DEF TypeOK
  <2>3. base' \in [Batch -> [Path -> Text \cup {None}]]
    BY <2>1 DEF TypeOK
  <2>4. mem'[s] \in [Batch -> Entry] /\ stored' \subseteq Batch
    BY <2>1, <2>2 DEF TypeOK
  <2> QED
    BY <1>2, <2>1, <2>2, <2>3, <2>4
<1> QED
  BY <1>3, <1>4, <1>5, <1>6

\* One Apply moves on: its lock stays as it is, or is taken, or is given back.
LEMMA LockKept ==
  ASSUME TypeOK, NEW s \in Session, NEW j \in Job, job' = [job EXCEPT ![s] = j], UNCHANGED lock,
         AtFile(j) <=> AtFile(job[s]), AtFile(j) => j.path = job[s].path
  PROVE  LocksHeld'
BY DEF TypeOK, LocksHeld

LEMMA LockTaken ==
  ASSUME TypeOK, NEW s \in Session, NEW j \in Job, job' = [job EXCEPT ![s] = j],
         AtFile(j), j.path \in Path, lock[j.path] = None, lock' = [lock EXCEPT ![j.path] = s],
         ~AtFile(job[s])
  PROVE  LocksHeld'
<1>1. job'[s] = j /\ \A t \in Session : t # s => job'[t] = job[t]
  BY DEF TypeOK
<1>2. lock'[j.path] = s /\ \A p \in Path : p # j.path => lock'[p] = lock[p]
  BY DEF TypeOK
<1>3. \A t \in Session : AtFile(job[t]) => job[t].path # j.path
  BY Names DEF TypeOK, LocksHeld
<1> QED
  BY <1>1, <1>2, <1>3 DEF TypeOK, LocksHeld

LEMMA LockGiven ==
  ASSUME TypeOK, NEW s \in Session, NEW j \in Job, job' = [job EXCEPT ![s] = j],
         AtFile(job[s]), job[s].path \in Path, lock' = [lock EXCEPT ![job[s].path] = None],
         ~AtFile(j)
  PROVE  LocksHeld'
<1>1. job'[s] = j /\ \A t \in Session : t # s => job'[t] = job[t]
  BY DEF TypeOK
<1>2. lock'[job[s].path] = None /\ \A p \in Path : p # job[s].path => lock'[p] = lock[p]
  BY DEF TypeOK
<1>3. \A t \in Session : t # s /\ AtFile(job[t]) => job[t].path # job[s].path
  BY DEF TypeOK, LocksHeld
<1> QED
  BY <1>1, <1>2, <1>3, Names DEF TypeOK, LocksHeld

LEMMA ApplyTypes ==
  ASSUME TypeOK, ItemsAtHand, NEW s \in Session, ApplyStep(s)
  PROVE  TypeOK'
<1>1. job[s] \in Job /\ job[s].path \in Path \cup {None} /\ job[s].batch \in Batch \cup {None}
      /\ job[s].left \subseteq Path
  BY DEF TypeOK, Job
<1>2. ASSUME NEW j \in Job, job' = [job EXCEPT ![s] = j], LocksHeld',
             lock' \in [Path -> Session \cup {None}], files' \in [Path -> Text],
             mem' \in [Session -> [Batch -> Entry]], index' \in [Batch -> Entry],
             wrote' \subseteq Text \X Path, upsets' \in 0..MaxUpsets,
             UNCHANGED <<base, age, stored, open, commands>>
      PROVE  TypeOK'
  BY <1>2 DEF TypeOK
<1>3. ASSUME NEW p \in Path, TakeItem(s, p) PROVE TypeOK'
  <2> DEFINE j == [job[s] EXCEPT !.step = "lock", !.path = p, !.left = @ \ {p},
                                 !.text = IF job[s].batch \in stored THEN job[s].batch ELSE Empty]
  <2>1. job' = [job EXCEPT ![s] = j]
    BY <1>3 DEF TakeItem
  <2>2. j \in Job /\ ~AtFile(j) /\ ~AtFile(job[s])
    BY <1>1, <1>3, Names DEF TakeItem, AtFile, Job, Step, TypeOK
  <2> HIDE DEF j
  <2>3. LocksHeld'
    BY <1>3, <2>1, <2>2, LockKept DEF TakeItem
  <2> QED
    BY <1>2, <1>3, <2>1, <2>2, <2>3 DEF TakeItem, ApplyFrame, TypeOK
<1>4. ASSUME ApplyThrows(s) PROVE TypeOK'
  <2>1. LocksHeld'
    BY <1>4, LockKept, Values DEF ApplyThrows, AtFile, Idle
  <2> QED
    BY <1>2, <1>4, <2>1, Values, Counting, StagingAssumption DEF ApplyThrows, FaultFrame, Upset, TypeOK
<1>5. ASSUME TryAcquire(s) PROVE TypeOK'
  <2> DEFINE j == [job[s] EXCEPT !.step =
                     IF files[job[s].path] \in {Absent, Empty} THEN "write" ELSE "compare"]
  <2>0. job[s].path \in Path
    BY <1>5 DEF TryAcquire, ItemsAtHand
  <2>1. job' = [job EXCEPT ![s] = j]
    BY <1>5 DEF TryAcquire, ReadExisting
  <2>2. j \in Job /\ AtFile(j) /\ ~AtFile(job[s]) /\ j.path = job[s].path
    BY <1>1, <1>5 DEF TryAcquire, AtFile, Job, Step
  <2> HIDE DEF j
  <2>3. LocksHeld'
    BY <1>5, <2>0, <2>1, <2>2, LockTaken DEF TryAcquire, ReadExisting
  <2>4. lock' \in [Path -> Session \cup {None}]
    BY <1>5 DEF TryAcquire, ReadExisting, TypeOK
  <2> QED
    BY <1>2, <1>5, <2>1, <2>2, <2>3, <2>4 DEF TryAcquire, ReadExisting, ApplyFrame, TypeOK
<1>6. ASSUME LockTimeout(s) PROVE TypeOK'
  <2> DEFINE j == [job[s] EXCEPT !.step = "item", !.conflicts = @ \cup {job[s].path}]
  <2>1. job' = [job EXCEPT ![s] = j]
    BY <1>6 DEF LockTimeout, Conflict
  <2>2. j \in Job /\ ~AtFile(j) /\ ~AtFile(job[s])
    BY <1>1, <1>6 DEF LockTimeout, ItemsAtHand, AtFile, Job, Step
  <2> HIDE DEF j
  <2>3. LocksHeld'
    BY <1>6, <2>1, <2>2, LockKept DEF LockTimeout
  <2> QED
    BY <1>2, <1>6, <2>1, <2>2, <2>3 DEF LockTimeout, ApplyFrame, TypeOK
<1>7. ASSUME Compare(s) \/ WriteFails(s), Conflict(s), Release(s) PROVE TypeOK'
  <2> DEFINE j == [job[s] EXCEPT !.step = "item", !.conflicts = @ \cup {job[s].path}]
  <2>1. job' = [job EXCEPT ![s] = j] /\ lock' = [lock EXCEPT ![job[s].path] = None]
    BY <1>7 DEF Compare, WriteFails, Conflict, Release
  <2>2. j \in Job /\ ~AtFile(j) /\ AtFile(job[s]) /\ job[s].path \in Path
    BY <1>1, <1>7 DEF Compare, WriteFails, ItemsAtHand, AtFile, Job, Step
  <2> HIDE DEF j
  <2>3. LocksHeld' /\ lock' \in [Path -> Session \cup {None}]
    BY <2>1, <2>2, LockGiven DEF TypeOK
  <2>4. upsets' \in 0..MaxUpsets
    BY <1>7, Counting, StagingAssumption
       DEF Compare, WriteFails, ApplyFrame, FaultFrame, Upset, TypeOK
  <2> QED
    BY <1>2, <1>7, <2>1, <2>2, <2>3, <2>4 DEF Compare, WriteFails, ApplyFrame, FaultFrame, TypeOK
<1>8. ASSUME Compare(s), job' = [job EXCEPT ![s].step = "write"], UNCHANGED lock PROVE TypeOK'
  <2> DEFINE j == [job[s] EXCEPT !.step = "write"]
  <2>1. j \in Job /\ AtFile(j) /\ AtFile(job[s]) /\ j.path = job[s].path
    BY <1>1, <1>8 DEF Compare, AtFile, Job, Step
  <2>2. job' = [job EXCEPT ![s] = j]
    BY <1>8
  <2> HIDE DEF j
  <2>3. LocksHeld'
    BY <1>8, <2>1, <2>2, LockKept
  <2> QED
    BY <1>2, <1>8, <2>1, <2>2, <2>3 DEF Compare, ApplyFrame, TypeOK
<1>9. ASSUME WriteAllText(s) PROVE TypeOK'
  <2> DEFINE p == job[s].path
             j == [job[s] EXCEPT !.step = "item", !.applied = @ \cup {p}]
             e == [mem[s][job[s].batch] EXCEPT !.applied = @ \cup {p}]
  <2>0. p \in Path /\ job[s].batch \in Batch /\ job[s].text \in Text
    BY <1>9 DEF WriteAllText, ItemsAtHand, TypeOK, Job
  <2>1. job' = [job EXCEPT ![s] = j] /\ lock' = [lock EXCEPT ![p] = None]
    BY <1>9 DEF WriteAllText, Release
  <2>2. j \in Job /\ ~AtFile(j) /\ AtFile(job[s])
    BY <1>1, <1>9, <2>0 DEF WriteAllText, AtFile, Job, Step
  <2>3. mem' = [mem EXCEPT ![s] = [mem[s] EXCEPT ![job[s].batch] = e]]
    BY <1>9 DEF WriteAllText
  <2>4. mem[s][job[s].batch] \in Entry
    BY <2>0 DEF TypeOK
  <2>5. e \in Entry
    BY <2>0, <2>4 DEF Entry
  <2> HIDE DEF e
  <2>6. mem' \in [Session -> [Batch -> Entry]]
    BY <2>3, <2>5 DEF TypeOK
  <2>7. files' \in [Path -> Text] /\ wrote' \subseteq Text \X Path
    BY <1>9, <2>0 DEF WriteAllText, TypeOK
  <2> HIDE DEF j
  <2>8. LocksHeld' /\ lock' \in [Path -> Session \cup {None}]
    BY <2>0, <2>1, <2>2, LockGiven DEF TypeOK
  <2> QED
    BY <1>2, <1>9, <2>1, <2>2, <2>6, <2>7, <2>8 DEF WriteAllText, ApplyFrame, TypeOK
<1>10. ASSUME FinishApply(s) PROVE TypeOK'
  <2> DEFINE o == Outcome(job[s])
             e == [mem[s][job[s].batch] EXCEPT !.status = o]
  <2>0. job[s].batch \in Batch /\ ~AtFile(job[s]) /\ ~AtFile(Idle)
    BY <1>10 DEF FinishApply, ItemsAtHand, AtFile, Idle
  <2>1. mem[s][job[s].batch] \in Entry /\ o \in Status
    BY <2>0 DEF TypeOK, Outcome, Status
  <2>2. mem' = [mem EXCEPT ![s] = [mem[s] EXCEPT ![job[s].batch] = e]]
    BY <1>10 DEF FinishApply
  <2> HIDE DEF o
  <2>3. e \in Entry
    BY <2>1, Values
  <2> HIDE DEF e
  <2>4. mem' \in [Session -> [Batch -> Entry]] /\ mem'[s] \in [Batch -> Entry]
    BY <2>2, <2>3 DEF TypeOK
  <2>5. LocksHeld'
    BY <1>10, <2>0, LockKept, Values DEF FinishApply
  <2>6. index' \in [Batch -> Entry] /\ upsets' \in 0..MaxUpsets
    BY <1>10, <2>4, Saving DEF FinishApply
  <2> QED
    BY <1>2, <1>10, <2>4, <2>5, <2>6, Values DEF FinishApply, TypeOK
<1> QED
  BY <1>3, <1>4, <1>5, <1>6, <1>7, <1>8, <1>9, <1>10 DEF ApplyStep, Compare, WriteFails

\* What one session does.
SessionStep(s) ==
  \/ Open(s) \/ ScanExpiry(s) \/ Cleanup(s) \/ ApplyStep(s) \/ Crash(s)
  \/ \E b \in Batch : \/ Reject(s, b) \/ StartApply(s, b)
                       \/ \E ps \in (SUBSET Path) \ {{}} : CreateBatch(s, b, ps)

UserStep == \E p \in Path, t \in {Absent, Empty} \cup UserText : UserEdits(p, t)

LEMMA Steps ==
  ASSUME [Next]_vars
  PROVE  \/ \E s \in Session : SessionStep(s)
         \/ UserStep \/ TimePasses \/ UNCHANGED vars
BY DEF Next, SessionStep, UserStep

LEMMA TypesKept ==
  ASSUME TypeOK, ItemsAtHand, [Next]_vars
  PROVE  TypeOK'
<1>1. ASSUME NEW s \in Session, Open(s) PROVE TypeOK'
  BY <1>1 DEF Open, TypeOK, LocksHeld
<1>2. ASSUME NEW s \in Session, NEW b \in Batch, StartApply(s, b) PROVE TypeOK'
  <2> DEFINE j == [Idle EXCEPT !.step = "item", !.batch = b, !.left = Items(b) \ mem[s][b].applied]
  <2>1. job' = [job EXCEPT ![s] = j] /\ job[s] = Idle
    BY <1>2 DEF StartApply, Command
  <2>2. j \in Job /\ ~AtFile(j) /\ ~AtFile(Idle)
    BY Names DEF AtFile, Idle, Job, Step, Items
  <2> HIDE DEF j
  <2>3. LocksHeld'
    BY <1>2, <2>1, <2>2, LockKept DEF StartApply
  <2>4. commands' \in 0..MaxCommands
    BY <1>2, Counting, StagingAssumption DEF StartApply, Command, TypeOK
  <2> QED
    BY <1>2, <2>1, <2>2, <2>3, <2>4 DEF StartApply, TypeOK
<1>3. ASSUME UserStep PROVE TypeOK'
  BY <1>3, Names, Counting, StagingAssumption DEF UserStep, UserEdits, Upset, TypeOK, LocksHeld
<1>4. ASSUME TimePasses PROVE TypeOK'
  BY <1>4 DEF TimePasses, TypeOK, LocksHeld
<1>5. ASSUME NEW s \in Session, Crash(s) PROVE TypeOK'
  <2>1. mem' = [mem EXCEPT ![s] = [b \in Batch |-> Unknown]] /\ job' = [job EXCEPT ![s] = Idle]
        /\ lock' = [p \in Path |-> IF lock[p] = s THEN None ELSE lock[p]]
    BY <1>5 DEF Crash
  <2>2. mem' \in [Session -> [Batch -> Entry]] /\ job' \in [Session -> Job]
        /\ lock' \in [Path -> Session \cup {None}]
    BY <2>1, Values DEF TypeOK
  <2>3. ~AtFile(Idle)
    BY DEF AtFile, Idle
  <2>4. LocksHeld'
    BY <2>1, <2>3, Names DEF TypeOK, LocksHeld
  <2>5. upsets' \in 0..MaxUpsets /\ open' \subseteq Session
    BY <1>5, Counting, StagingAssumption DEF Crash, Upset, TypeOK
  <2> QED
    BY <1>5, <2>2, <2>4, <2>5 DEF Crash, TypeOK
<1>6. CASE UNCHANGED vars
  BY <1>6 DEF vars, TypeOK, LocksHeld
<1> QED
  BY <1>1, <1>2, <1>3, <1>4, <1>5, <1>6, CommandTypes, ApplyTypes, Steps DEF SessionStep

-----------------------------------------------------------------------------
\* The invariant.

\* The memory and the Apply of a session are its own.
LEMMA OneAtATime ==
  ASSUME TypeOK, NEW s \in Session, SessionStep(s), NEW t \in Session, t # s
  PROVE  mem'[t] = mem[t] /\ job'[t] = job[t]
<1>1. CASE ApplyStep(s)
  BY <1>1 DEF TypeOK, ApplyStep, TakeItem, ApplyThrows, TryAcquire, ReadExisting, LockTimeout, Conflict,
              Compare, WriteAllText, WriteFails, FinishApply
<1>2. CASE ~ApplyStep(s)
  BY <1>2 DEF TypeOK, SessionStep, Open, ScanExpiry, Cleanup, Crash, Reject, StartApply, CreateBatch
<1> QED
  BY <1>1, <1>2

\* A step of an Apply changes what its session knows of the batch it applies, and
\* nothing of the others.
LEMMA Applying ==
  ASSUME TypeOK, ItemsAtHand, NEW s \in Session, ApplyStep(s)
  PROVE  /\ job[s].batch \in Batch
         /\ job'[s] = Idle \/ job'[s].batch = job[s].batch
         /\ \A b \in Batch : b # job[s].batch => mem'[s][b] = mem[s][b]
         /\ index' \in {mem'[s], index}
         /\ UNCHANGED <<base, stored>> /\ wrote \subseteq wrote'
<1>1. ASSUME NEW p \in Path, TakeItem(s, p) PROVE job'[s].batch = job[s].batch
  BY <1>1 DEF TakeItem, TypeOK, Job
<1>2. CASE ApplyThrows(s)
  BY <1>2 DEF ApplyThrows, FaultFrame, TypeOK, ItemsAtHand
<1>3. ASSUME TryAcquire(s) PROVE job'[s].batch = job[s].batch
  BY <1>3 DEF TryAcquire, ReadExisting, TypeOK, Job
<1>4. ASSUME Conflict(s) PROVE job'[s].batch = job[s].batch
  BY <1>4 DEF Conflict, TypeOK, Job
<1>5. ASSUME Compare(s) PROVE job'[s].batch = job[s].batch
  BY <1>4, <1>5 DEF Compare, TypeOK, Job
<1>6. CASE WriteAllText(s)
  <2>1. job'[s].batch = job[s].batch
    BY <1>6 DEF WriteAllText, TypeOK, Job
  <2>2. \A b \in Batch : b # job[s].batch => mem'[s][b] = mem[s][b]
    BY <1>6 DEF WriteAllText, TypeOK
  <2> QED
    BY <1>6, <2>1, <2>2 DEF WriteAllText, ApplyFrame, ItemsAtHand
<1>7. CASE FinishApply(s)
  <2>1. job'[s] = Idle /\ job[s].batch \in Batch
    BY <1>7 DEF FinishApply, TypeOK, ItemsAtHand
  <2>2. \A b \in Batch : b # job[s].batch => mem'[s][b] = mem[s][b]
    BY <1>7 DEF FinishApply, TypeOK
  <2> QED
    BY <1>7, <2>1, <2>2 DEF FinishApply, SaveIndex
<1> QED
  <2>1. CASE \E p \in Path : TakeItem(s, p)
    BY <1>1, <2>1 DEF TakeItem, ApplyFrame, ItemsAtHand
  <2>2. CASE TryAcquire(s)
    BY <1>3, <2>2 DEF TryAcquire, ReadExisting, ApplyFrame, ItemsAtHand
  <2>3. CASE LockTimeout(s)
    BY <1>4, <2>3 DEF LockTimeout, ApplyFrame, ItemsAtHand
  <2>4. CASE Compare(s)
    BY <1>5, <2>4 DEF Compare, ApplyFrame, ItemsAtHand
  <2>5. CASE WriteFails(s)
    BY <1>4, <2>5 DEF WriteFails, FaultFrame, ItemsAtHand
  <2> QED
    BY <1>2, <1>6, <1>7, <2>1, <2>2, <2>3, <2>4, <2>5 DEF ApplyStep

\* A batch comes into being whole, and keeps its baseline; nothing was known of it.
LEMMA Creating ==
  ASSUME TypeOK, KnownAreCreated, NEW s \in Session, NEW b \in Batch, NEW ps \in (SUBSET Path) \ {{}},
         CreateBatch(s, b, ps)
  PROVE  /\ Created' = Created \cup {b}
         /\ \A c \in Batch : c # b => base'[c] = base[c]
         /\ index[b].status = "none" /\ b \notin stored
         /\ \A t \in Session : mem[t][b].status = "none" /\ job[t].batch # b
<1>1. base' = [base EXCEPT ![b] = [p \in Path |-> IF p \in ps THEN files[p] ELSE None]] /\ b \notin Created
  BY DEF CreateBatch
<1>2. \A p \in Path : files[p] # None
  BY Names DEF TypeOK, Text
<1>3. base'[b] = [p \in Path |-> IF p \in ps THEN files[p] ELSE None]
      /\ \A c \in Batch : c # b => base'[c] = base[c]
  BY <1>1 DEF TypeOK
<1>4. Items(b)' = ps /\ \A c \in Batch : c # b => Items(c)' = Items(c)
  BY <1>2, <1>3 DEF Items
<1>5. Created' = Created \cup {b}
  <2>0. PICK p \in Path : p \in ps
    OBVIOUS
  <2>1. Items(b)' # {}
    BY <2>0, <1>4
  <2>2. ASSUME NEW c \in Batch, c # b PROVE c \in Created' <=> c \in Created
    <3>1. Items(c)' = Items(c)
      BY <1>4, <2>2
    <3> QED
      BY <3>1 DEF Created
  <2>3. b \in Created' /\ Created' \subseteq Batch /\ Created \subseteq Batch
    BY <2>1 DEF Created
  <2> QED
    BY <2>2, <2>3
<1> QED
  BY <1>1, <1>3, <1>5 DEF KnownAreCreated

LEMMA KnownKept ==
  ASSUME TypeOK, TypeOK', ItemsAtHand, KnownAreCreated, [Next]_vars
  PROVE  KnownAreCreated'
<1>1. ASSUME UNCHANGED base PROVE Created' = Created
  BY <1>1 DEF Created, Items
<1>2. ASSUME NEW s \in Session, SessionStep(s), UNCHANGED base, stored' \subseteq stored,
             \A b \in Batch \ Created : /\ mem'[s][b].status = "none" /\ job'[s].batch # b
                                        /\ index'[b].status = "none"
      PROVE  KnownAreCreated'
  BY <1>1, <1>2, OneAtATime DEF KnownAreCreated
<1>3. ASSUME NEW s \in Session, Open(s) PROVE KnownAreCreated'
  <2>1. \A b \in Batch : mem'[s][b] = index[b] /\ index'[b] = index[b]
    BY <1>3 DEF Open, TypeOK
  <2>2. SessionStep(s) /\ UNCHANGED <<base, stored, job, index>>
    BY <1>3 DEF SessionStep, Open
  <2> QED
    BY <1>2, <2>1, <2>2 DEF KnownAreCreated
<1>4. ASSUME NEW s \in Session, ScanExpiry(s) PROVE KnownAreCreated'
  <2>1. \A b \in Batch : mem[s][b].status = "none" => mem'[s][b] = mem[s][b]
    BY <1>4 DEF ScanExpiry, TypeOK
  <2>2. index' \in {mem'[s], index}
    BY <1>4, Saving DEF ScanExpiry, TypeOK, SaveIndex
  <2>3. SessionStep(s) /\ UNCHANGED <<base, stored, job>>
    BY <1>4 DEF SessionStep, ScanExpiry
  <2> QED
    BY <1>2, <2>1, <2>2, <2>3 DEF KnownAreCreated
<1>5. ASSUME NEW s \in Session, Cleanup(s) PROVE KnownAreCreated'
  BY <1>2, <1>5 DEF SessionStep, Cleanup, SaveIndex, Unknown, KnownAreCreated
<1>6. ASSUME NEW s \in Session, NEW b \in Batch, Reject(s, b) PROVE KnownAreCreated'
  <2>1. \A c \in Batch : c # b => mem'[s][c] = mem[s][c]
    BY <1>6 DEF Reject, TypeOK
  <2>2. index' \in {mem'[s], index} /\ b \in Created
    BY <1>6 DEF Reject, SaveIndex, KnownAreCreated
  <2>3. SessionStep(s) /\ UNCHANGED <<base, stored, job>>
    BY <1>6 DEF SessionStep, Reject
  <2> QED
    BY <1>2, <2>1, <2>2, <2>3 DEF KnownAreCreated
<1>7. ASSUME NEW s \in Session, NEW b \in Batch, StartApply(s, b) PROVE KnownAreCreated'
  <2>1. job'[s].batch = b /\ b \in Created
    BY <1>7 DEF StartApply, TypeOK, Idle, KnownAreCreated
  <2> QED
    BY <1>2, <1>7, <2>1 DEF SessionStep, StartApply, KnownAreCreated
<1>8. ASSUME NEW s \in Session, Crash(s) PROVE KnownAreCreated'
  <2>1. \A b \in Batch : mem'[s][b].status = "none" /\ job'[s].batch # b
    BY <1>8, Names DEF Crash, TypeOK, Unknown, Idle
  <2> QED
    BY <1>2, <1>8, <2>1 DEF SessionStep, Crash, KnownAreCreated
<1>9. ASSUME NEW s \in Session, NEW b \in Batch, NEW ps \in (SUBSET Path) \ {{}}, CreateBatch(s, b, ps)
      PROVE  KnownAreCreated'
  <2>1. \A c \in Batch : c # b => mem'[s][c] = mem[s][c]
    BY <1>9 DEF CreateBatch, TypeOK
  <2>2. index' \in {mem'[s], index} /\ stored' = stored \cup {b} /\ UNCHANGED job
    BY <1>9 DEF CreateBatch, SaveIndex
  <2>3. \A t \in Session : t # s => mem'[t] = mem[t]
    BY <1>9, OneAtATime DEF SessionStep
  <2>4. ASSUME NEW c \in Batch \ Created' PROVE c \in Batch \ Created /\ c # b
    BY <1>9, Creating
  <2>5. \A c \in Batch \ Created' : \A t \in Session : mem'[t][c] = mem[t][c]
    BY <2>1, <2>3, <2>4
  <2>6. \A c \in Batch \ Created' : index'[c].status = "none" /\ c \notin stored'
    BY <2>2, <2>4, <2>5 DEF KnownAreCreated
  <2> QED
    BY <2>2, <2>4, <2>5, <2>6 DEF KnownAreCreated
<1>10. ASSUME NEW s \in Session, ApplyStep(s) PROVE KnownAreCreated'
  <2>1. SessionStep(s)
    BY <1>10 DEF SessionStep
  <2>2. \A b \in Batch \ Created : job'[s].batch # b
    BY <1>10, Applying, Names DEF KnownAreCreated, Idle
  <2>3. \A b \in Batch \ Created : mem'[s][b].status = "none" /\ index'[b].status = "none"
    BY <1>10, Applying DEF KnownAreCreated
  <2> QED
    BY <1>2, <1>10, <2>1, <2>2, <2>3, Applying
<1>11. ASSUME UserStep \/ TimePasses \/ UNCHANGED vars PROVE KnownAreCreated'
  BY <1>1, <1>11 DEF UserStep, UserEdits, TimePasses, vars, KnownAreCreated
<1> QED
  BY <1>3, <1>4, <1>5, <1>6, <1>7, <1>8, <1>9, <1>10, <1>11, Steps DEF SessionStep

LEMMA ItemsKept ==
  ASSUME TypeOK, TypeOK', KnownAreCreated, ItemsAtHand, [Next]_vars
  PROVE  ItemsAtHand'
<1> DEFINE AtHand(s) ==
      /\ job[s].step # "idle" =>
          /\ job[s].batch \in Batch
          /\ job[s].batch \in stored => \A p \in job[s].applied : <<job[s].batch, p>> \in wrote
      /\ job[s].step \in {"lock", "compare", "write"} =>
          /\ job[s].path \in Path
          /\ job[s].batch \in stored => job[s].text = job[s].batch
<1>0. \A s \in Session : AtHand(s)
  BY DEF ItemsAtHand
<1>1. ASSUME NEW s \in Session, UNCHANGED job[s], wrote \subseteq wrote',
             job[s].batch \in stored' => job[s].batch \in stored
      PROVE  AtHand(s)'
  BY <1>0, <1>1
<1>2. ASSUME NEW s \in Session, job'[s] = Idle PROVE AtHand(s)'
  BY <1>2 DEF Idle
<1>3. ASSUME \A s \in Session : AtHand(s)' PROVE ItemsAtHand'
  BY <1>3 DEF ItemsAtHand
<1>4. ASSUME NEW s \in Session, NEW b \in Batch, NEW ps \in (SUBSET Path) \ {{}}, CreateBatch(s, b, ps)
      PROVE  ItemsAtHand'
  <2>1. stored' = stored \cup {b} /\ UNCHANGED <<job, wrote>>
    BY <1>4 DEF CreateBatch
  <2> HIDE DEF AtHand
  <2> QED
    BY <1>1, <1>3, <1>4, <2>1, Creating
<1>5. ASSUME NEW s \in Session, NEW b \in Batch, StartApply(s, b) PROVE ItemsAtHand'
  <2>1. job'[s].step = "item" /\ job'[s].batch = b /\ job'[s].applied = {}
    BY <1>5 DEF StartApply, TypeOK, Idle
  <2>2. AtHand(s)'
    BY <2>1
  <2>3. \A t \in Session : t # s => job'[t] = job[t]
    BY <1>5, OneAtATime DEF SessionStep
  <2>4. UNCHANGED <<stored, wrote>>
    BY <1>5 DEF StartApply
  <2> HIDE DEF AtHand
  <2> QED
    BY <1>1, <1>3, <2>2, <2>3, <2>4
<1>6. ASSUME NEW s \in Session, ApplyStep(s), AtHand(s)' PROVE ItemsAtHand'
  <2>1. \A t \in Session : t # s => job'[t] = job[t]
    BY <1>6, OneAtATime DEF SessionStep
  <2> HIDE DEF AtHand
  <2> QED
    BY <1>1, <1>3, <1>6, <2>1, Applying
<1>7. ASSUME NEW s \in Session, ApplyStep(s) PROVE ItemsAtHand'
  <2>0. AtHand(s) /\ job[s] \in Job
    BY <1>0 DEF TypeOK
  <2>1. ASSUME NEW p \in Path, TakeItem(s, p) PROVE AtHand(s)'
    <3>1. job'[s] = [job[s] EXCEPT !.step = "lock", !.path = p, !.left = @ \ {p},
                       !.text = IF job[s].batch \in stored THEN job[s].batch ELSE Empty]
          /\ UNCHANGED <<stored, wrote>> /\ job[s].step = "item"
      BY <2>1 DEF TakeItem, ApplyFrame, TypeOK
    <3> QED
      BY <2>0, <3>1 DEF Job
  <2>2. ASSUME TryAcquire(s) \/ (Compare(s) /\ job' = [job EXCEPT ![s].step = "write"]) PROVE AtHand(s)'
    <3>1. \E st \in {"compare", "write"} : job'[s] = [job[s] EXCEPT !.step = st]
      BY <2>2 DEF TryAcquire, ReadExisting, TypeOK
    <3>2. UNCHANGED <<stored, wrote>> /\ job[s].step \in {"lock", "compare"}
      BY <2>2 DEF TryAcquire, ReadExisting, Compare, ApplyFrame
    <3> QED
      BY <2>0, <3>1, <3>2 DEF Job
  <2>3. ASSUME Conflict(s), UNCHANGED <<stored, wrote>>, job[s].step \in {"lock", "compare", "write"}
        PROVE  AtHand(s)'
    <3>1. job'[s] = [job[s] EXCEPT !.step = "item", !.conflicts = @ \cup {job[s].path}]
      BY <2>3 DEF Conflict, TypeOK
    <3> QED
      BY <2>0, <2>3, <3>1 DEF Job
  <2>4. ASSUME WriteAllText(s) PROVE AtHand(s)'
    <3>1. job'[s] = [job[s] EXCEPT !.step = "item", !.applied = @ \cup {job[s].path}]
          /\ wrote' = wrote \cup {<<job[s].text, job[s].path>>}
          /\ UNCHANGED stored /\ job[s].step = "write"
      BY <2>4 DEF WriteAllText, ApplyFrame, TypeOK
    <3> QED
      BY <2>0, <3>1 DEF Job
  <2>5. ASSUME ApplyThrows(s) \/ FinishApply(s) PROVE AtHand(s)'
    <3>1. job'[s] = Idle
      BY <2>5 DEF ApplyThrows, FinishApply, TypeOK
    <3> HIDE DEF AtHand
    <3> QED
      BY <1>2, <3>1
  <2> HIDE DEF AtHand
  <2>6. CASE \E p \in Path : TakeItem(s, p)
    BY <1>6, <1>7, <2>1, <2>6
  <2>7. CASE Compare(s)
    BY <1>6, <1>7, <2>2, <2>3, <2>7 DEF Compare, ApplyFrame
  <2>8. CASE LockTimeout(s) \/ WriteFails(s)
    BY <1>6, <1>7, <2>3, <2>8 DEF LockTimeout, WriteFails, ApplyFrame, FaultFrame
  <2> QED
    BY <1>6, <1>7, <2>2, <2>4, <2>5, <2>6, <2>7, <2>8 DEF ApplyStep
<1>8. ASSUME NEW s \in Session, Open(s) \/ ScanExpiry(s) \/ Cleanup(s) \/ \E b \in Batch : Reject(s, b)
      PROVE  ItemsAtHand'
  <2>1. UNCHANGED <<job, wrote>> /\ stored' \subseteq stored
    BY <1>8 DEF Open, ScanExpiry, Cleanup, Reject
  <2> HIDE DEF AtHand
  <2> QED
    BY <1>1, <1>3, <2>1
<1>9. ASSUME NEW s \in Session, Crash(s) PROVE ItemsAtHand'
  <2>1. UNCHANGED <<stored, wrote>> /\ job'[s] = Idle /\ \A t \in Session : t # s => job'[t] = job[t]
    BY <1>9 DEF Crash, TypeOK
  <2> HIDE DEF AtHand
  <2> QED
    BY <1>1, <1>2, <1>3, <2>1
<1>10. ASSUME UserStep \/ TimePasses \/ UNCHANGED vars PROVE ItemsAtHand'
  BY <1>10 DEF UserStep, UserEdits, TimePasses, vars, ItemsAtHand
<1> HIDE DEF AtHand
<1> QED
  BY <1>4, <1>5, <1>7, <1>8, <1>9, <1>10, Steps DEF SessionStep

LEMMA ReplacingKept ==
  ASSUME TypeOK, KnownAreCreated, ItemsAtHand, MayBeReplaced, [Next]_vars
  PROVE  MayBeReplaced'
<1> DEFINE Fit(s) == job[s].step = "write" /\ files[job[s].path] \in Batch
                       => files[job[s].path] = base[job[s].batch][job[s].path]
<1>0. \A s \in Session : Fit(s)
  BY DEF MayBeReplaced
<1>1. ASSUME NEW s \in Session, UNCHANGED job[s],
             job[s].step = "write" =>
                /\ base'[job[s].batch] = base[job[s].batch]
                /\ files'[job[s].path] \in {files[job[s].path], Absent, Empty} \cup UserText
      PROVE  Fit(s)'
  BY <1>0, <1>1, Names
<1>2. ASSUME \A s \in Session : Fit(s)' PROVE MayBeReplaced'
  BY <1>2 DEF MayBeReplaced
<1>3. ASSUME NEW s \in Session, job'[s].step # "write" PROVE Fit(s)'
  BY <1>3
<1>4. ASSUME NEW s \in Session, ApplyStep(s), UNCHANGED files, Fit(s)' PROVE MayBeReplaced'
  <2>1. \A t \in Session : t # s => job'[t] = job[t]
    BY <1>4, OneAtATime DEF SessionStep
  <2> HIDE DEF Fit
  <2> QED
    BY <1>1, <1>2, <1>4, <2>1, Applying
<1>5. ASSUME NEW s \in Session, TryAcquire(s) PROVE MayBeReplaced'
  <2>1. UNCHANGED files /\ job'[s].path = job[s].path
        /\ job'[s].step = IF files[job[s].path] \in {Absent, Empty} THEN "write" ELSE "compare"
    BY <1>5 DEF TryAcquire, ReadExisting, TypeOK, Job
  <2>2. Fit(s)'
    BY <2>1, Names
  <2> HIDE DEF Fit
  <2> QED
    BY <1>4, <1>5, <2>1, <2>2 DEF ApplyStep
<1>6. ASSUME NEW s \in Session, Compare(s) PROVE MayBeReplaced'
  <2>1. UNCHANGED <<files, base>> /\ job'[s].path = job[s].path /\ job'[s].batch = job[s].batch
        /\ (job'[s].step = "write" => files[job[s].path] = base[job[s].batch][job[s].path])
    BY <1>6 DEF Compare, Conflict, ApplyFrame, TypeOK, Job
  <2>2. Fit(s)'
    BY <2>1
  <2> HIDE DEF Fit
  <2> QED
    BY <1>4, <1>6, <2>1, <2>2 DEF ApplyStep
<1>7. ASSUME NEW s \in Session, WriteAllText(s) PROVE MayBeReplaced'
  <2>1. job'[s].step = "item" /\ UNCHANGED base /\ job[s].path \in Path
        /\ files' = [files EXCEPT ![job[s].path] = job[s].text]
        /\ \A t \in Session : t # s => job'[t] = job[t]
    BY <1>7 DEF WriteAllText, ApplyFrame, TypeOK, ItemsAtHand
  <2>2. \A t \in Session : t # s /\ job[t].step = "write" => job[t].path # job[s].path
    BY <1>7, <2>1 DEF WriteAllText, TypeOK, LocksHeld, AtFile
  <2>3. \A t \in Session : t # s /\ job[t].step = "write" => files'[job[t].path] = files[job[t].path]
    BY <2>1, <2>2 DEF TypeOK, ItemsAtHand
  <2>4. Fit(s)'
    BY <1>3, <2>1
  <2> HIDE DEF Fit
  <2> QED
    BY <1>1, <1>2, <2>1, <2>3, <2>4
<1>8. ASSUME NEW s \in Session,
             \/ \E p \in Path : TakeItem(s, p)
             \/ ApplyThrows(s) \/ LockTimeout(s) \/ WriteFails(s) \/ FinishApply(s)
      PROVE  MayBeReplaced'
  <2>a. UNCHANGED files
    BY <1>8 DEF TakeItem, ApplyThrows, LockTimeout, WriteFails, FinishApply
  <2>b. ASSUME NEW p \in Path, TakeItem(s, p) PROVE job'[s].step = "lock"
    BY <2>b DEF TakeItem, TypeOK, Job
  <2>c. ASSUME ApplyThrows(s) \/ FinishApply(s) PROVE job'[s].step = "idle"
    BY <2>c DEF ApplyThrows, FinishApply, TypeOK, Idle
  <2>d. ASSUME LockTimeout(s) \/ WriteFails(s) PROVE job'[s].step = "item"
    BY <2>d DEF LockTimeout, WriteFails, Conflict, TypeOK, Job
  <2>1. UNCHANGED files /\ job'[s].step # "write"
    BY <1>8, <2>a, <2>b, <2>c, <2>d
  <2>2. Fit(s)'
    BY <1>3, <2>1
  <2> HIDE DEF Fit
  <2> QED
    BY <1>4, <1>8, <2>1, <2>2 DEF ApplyStep
<1>9. ASSUME NEW s \in Session,
             \/ Open(s) \/ ScanExpiry(s) \/ Cleanup(s) \/ Crash(s)
             \/ \E b \in Batch : StartApply(s, b) \/ Reject(s, b)
      PROVE  MayBeReplaced'
  <2>1. UNCHANGED <<files, base>>
    BY <1>9 DEF StartApply, Reject, Open, ScanExpiry, Cleanup, Crash
  <2>2. job'[s] = job[s] \/ job'[s].step # "write"
    <3>1. CASE \E b \in Batch : StartApply(s, b)
      BY <3>1 DEF StartApply, TypeOK, Idle
    <3>2. CASE Crash(s)
      BY <3>2 DEF Crash, TypeOK, Idle
    <3>3. CASE UNCHANGED job
      BY <3>3
    <3> QED
      BY <1>9, <3>1, <3>2, <3>3 DEF Reject, Open, ScanExpiry, Cleanup
  <2>3. \A t \in Session : t # s => job'[t] = job[t]
    BY <1>9, OneAtATime DEF SessionStep
  <2> HIDE DEF Fit
  <2> QED
    BY <1>1, <1>2, <1>3, <2>1, <2>2, <2>3
<1>10. ASSUME NEW s \in Session, NEW b \in Batch, NEW ps \in (SUBSET Path) \ {{}}, CreateBatch(s, b, ps)
       PROVE  MayBeReplaced'
  <2>1. UNCHANGED <<files, job>>
    BY <1>10 DEF CreateBatch
  <2>2. \A t \in Session : job[t].step = "write" => base'[job[t].batch] = base[job[t].batch]
    <3>1. \A t \in Session : job[t].step = "write" => job[t].batch \in Batch /\ job[t].batch # b
      BY <1>10, Creating DEF ItemsAtHand
    <3> QED
      BY <1>10, <3>1, Creating
  <2> HIDE DEF Fit
  <2> QED
    BY <1>1, <1>2, <2>1, <2>2
<1>11. CASE UserStep
  <2>1. UNCHANGED <<base, job>>
        /\ \A p \in Path : files'[p] \in {files[p], Absent, Empty} \cup UserText
    BY <1>11 DEF UserStep, UserEdits, TypeOK
  <2>2. \A s \in Session : job[s].step = "write" => job[s].path \in Path
    BY DEF ItemsAtHand
  <2> HIDE DEF Fit
  <2> QED
    BY <1>1, <1>2, <2>1, <2>2
<1>12. CASE TimePasses \/ UNCHANGED vars
  BY <1>12 DEF TimePasses, vars, MayBeReplaced
<1> HIDE DEF Fit
<1> QED
  BY <1>5, <1>6, <1>7, <1>8, <1>9, <1>10, <1>11, <1>12, Steps DEF SessionStep, ApplyStep

-----------------------------------------------------------------------------
\* What is said of a batch.

\* Approved comes from an Apply that ends, reclaimable from the age of the batch;
\* else what is said of a batch was said before.
LEMMA StatusFrom ==
  ASSUME TypeOK, ItemsAtHand, NEW s \in Session, SessionStep(s), NEW b \in Batch,
         NEW x \in {"approved", "reclaimable"}, Said(x, b)'
  PROVE  \/ Said(x, b)
         \/ /\ x = "approved" /\ FinishApply(s)
            /\ job[s].batch = b /\ Outcome(job[s]) = "approved"
         \/ x = "reclaimable" /\ age[b] >= 2
<1> DEFINE Goal == \/ Said(x, b)
                   \/ /\ x = "approved" /\ FinishApply(s)
                      /\ job[s].batch = b /\ Outcome(job[s]) = "approved"
                   \/ x = "reclaimable" /\ age[b] >= 2
<1>1. \A t \in Session : t # s => mem'[t] = mem[t]
  BY OneAtATime
<1>2. ASSUME index'[b].status \in {mem'[s][b].status, index[b].status, "none"},
             mem'[s][b].status = x => Goal
      PROVE  Goal
  <2>1. CASE mem'[s][b].status = x
    BY <1>2, <2>1
  <2>2. CASE mem'[s][b].status # x
    BY <1>1, <1>2, <2>2 DEF Said
  <2> QED
    BY <2>1, <2>2
<1>3. CASE Open(s) \/ Crash(s)
  <2>1. mem'[s][b].status \in {index[b].status, "none"} /\ index' = index
    BY <1>3 DEF Open, Crash, Unknown, TypeOK
  <2> QED
    BY <1>2, <2>1 DEF Said
<1>4. CASE Cleanup(s)
  <2>1. mem' = mem /\ index'[b].status \in {index[b].status, "none"}
    BY <1>4 DEF Cleanup, SaveIndex, Unknown
  <2> QED
    BY <1>2, <2>1 DEF Said
<1>5. CASE ScanExpiry(s)
  <2>1. index' \in {mem'[s], index}
    BY <1>5 DEF ScanExpiry, SaveIndex
  <2>2. mem[s][b] \in Entry
    BY DEF TypeOK
  <2>3. mem'[s][b] = IF mem[s][b].status = "pending"
                     THEN [mem[s][b] EXCEPT !.status = Expired(b)] ELSE mem[s][b]
    BY <1>5 DEF ScanExpiry, TypeOK
  <2>4. mem'[s][b].status \in {mem[s][b].status, Expired(b)}
    BY <2>2, <2>3 DEF Entry
  <2>5. Expired(b) = x => x = "reclaimable" /\ age[b] >= 2
    BY DEF Expired
  <2> QED
    BY <1>2, <2>1, <2>4, <2>5 DEF Said
<1>6. ASSUME NEW c \in Batch,
             Reject(s, c) \/ StartApply(s, c) \/ \E ps \in (SUBSET Path) \ {{}} : CreateBatch(s, c, ps)
      PROVE  Goal
  <2>1. index' \in {mem'[s], index}
    BY <1>6 DEF Reject, StartApply, CreateBatch, SaveIndex
  <2>2. mem'[s][b].status \in {mem[s][b].status, "rejected", "pending"}
    <3>1. CASE Reject(s, c)
      BY <3>1 DEF Reject, TypeOK, Entry
    <3>2. CASE StartApply(s, c)
      BY <3>2 DEF StartApply
    <3>3. CASE \E ps \in (SUBSET Path) \ {{}} : CreateBatch(s, c, ps)
      BY <3>3 DEF CreateBatch, TypeOK, Pending
    <3> QED
      BY <1>6, <3>1, <3>2, <3>3
  <2> QED
    BY <1>2, <2>1, <2>2 DEF Said
<1>7. CASE ApplyStep(s)
  <2>1. index' \in {mem'[s], index} /\ job[s].batch \in Batch
        /\ \A c \in Batch : c # job[s].batch => mem'[s][c] = mem[s][c]
    BY <1>7, Applying
  <2>2. ASSUME FinishApply(s), b = job[s].batch PROVE mem'[s][b].status = Outcome(job[s])
    BY <2>2 DEF FinishApply, TypeOK, Entry
  <2>3. ASSUME WriteAllText(s), b = job[s].batch PROVE mem'[s][b].status = mem[s][b].status
    BY <2>3 DEF WriteAllText, TypeOK, Entry
  <2>4. ASSUME ~WriteAllText(s), ~FinishApply(s) PROVE mem' = mem
    BY <1>7, <2>4 DEF ApplyStep, TakeItem, ApplyThrows, TryAcquire, ReadExisting, LockTimeout, Compare, WriteFails
  <2>5. Outcome(job[s]) # "reclaimable"
    BY DEF Outcome
  <2>6. mem'[s][b].status = mem[s][b].status
        \/ (FinishApply(s) /\ b = job[s].batch /\ mem'[s][b].status = Outcome(job[s]))
    BY <2>1, <2>2, <2>3, <2>4
  <2> QED
    BY <1>2, <2>1, <2>5, <2>6 DEF Said
<1> QED
  BY <1>3, <1>4, <1>5, <1>6, <1>7 DEF SessionStep

\* The world outside says nothing.
LEMMA Silent ==
  ASSUME UserStep \/ TimePasses \/ UNCHANGED vars
  PROVE  UNCHANGED <<base, stored, index, mem, job, wrote>>
BY DEF UserStep, UserEdits, TimePasses, vars

\* No batch grows younger.
LEMMA Aging ==
  ASSUME TypeOK, [Next]_vars
  PROVE  \A b \in Batch : age[b] >= 2 => age'[b] >= 2
<1>1. CASE TimePasses
  BY <1>1 DEF TimePasses, TypeOK
<1>2. ASSUME NEW s \in Session, ApplyStep(s) PROVE age' = age
  BY <1>2 DEF ApplyStep, TakeItem, ApplyThrows, TryAcquire, ReadExisting, LockTimeout, Compare,
              WriteAllText, WriteFails, FinishApply, ApplyFrame, FaultFrame
<1>3. ASSUME NEW s \in Session, SessionStep(s) PROVE age' = age
  BY <1>2, <1>3 DEF SessionStep, Open, ScanExpiry, Cleanup, Crash, Reject, StartApply, CreateBatch
<1>4. CASE UserStep \/ UNCHANGED vars
  BY <1>4 DEF UserStep, UserEdits, vars
<1> QED
  BY <1>1, <1>3, <1>4, Steps

LEMMA OldKept ==
  ASSUME TypeOK, ItemsAtHand, ReclaimableIsOld, [Next]_vars
  PROVE  ReclaimableIsOld'
<1>1. ASSUME NEW s \in Session, SessionStep(s) PROVE ReclaimableIsOld'
  BY <1>1, StatusFrom, Aging DEF ReclaimableIsOld
<1>2. CASE UserStep \/ TimePasses \/ UNCHANGED vars
  BY <1>2, Silent, Aging DEF ReclaimableIsOld, Said
<1> QED
  BY <1>1, <1>2, Steps

LEMMA ApprovedKept ==
  ASSUME TypeOK, KnownAreCreated, ItemsAtHand, ApprovedMeansWritten, [Next]_vars
  PROVE  ApprovedMeansWritten'
<1>1. CASE UserStep \/ TimePasses \/ UNCHANGED vars
  BY <1>1, Silent DEF ApprovedMeansWritten, Said, Items
<1>2. ASSUME NEW s \in Session, SessionStep(s), UNCHANGED base, stored' \subseteq stored, wrote \subseteq wrote'
      PROVE  ApprovedMeansWritten'
  <2> SUFFICES ASSUME NEW b \in stored', Said("approved", b)', NEW p \in Items(b)
               PROVE  <<b, p>> \in wrote'
    BY <1>2 DEF ApprovedMeansWritten, Items
  <2>0. b \in Batch /\ b \in stored
    BY <1>2 DEF TypeOK
  <2>1. CASE Said("approved", b)
    BY <1>2, <2>0, <2>1 DEF ApprovedMeansWritten
  <2>2. CASE FinishApply(s) /\ job[s].batch = b /\ Outcome(job[s]) = "approved"
    <3>1. job[s].applied = Items(b)
      BY <2>2 DEF Outcome
    <3>2. job[s].step = "item"
      BY <2>2 DEF FinishApply
    <3> QED
      BY <1>2, <2>0, <2>2, <3>1, <3>2 DEF ItemsAtHand
  <2> QED
    BY <1>2, <2>0, <2>1, <2>2, StatusFrom
<1>3. ASSUME NEW s \in Session, ApplyStep(s) PROVE ApprovedMeansWritten'
  BY <1>2, <1>3, Applying DEF SessionStep
<1>4. ASSUME NEW s \in Session,
             \/ Open(s) \/ ScanExpiry(s) \/ Cleanup(s) \/ Crash(s)
             \/ \E b \in Batch : StartApply(s, b) \/ Reject(s, b)
      PROVE  ApprovedMeansWritten'
  <2>1. UNCHANGED <<base, wrote>> /\ stored' \subseteq stored
    BY <1>4 DEF Open, ScanExpiry, Cleanup, Crash, StartApply, Reject
  <2>2. SessionStep(s)
    BY <1>4 DEF SessionStep
  <2> QED
    BY <1>2, <2>1, <2>2
<1>5. ASSUME NEW s \in Session, NEW b \in Batch, NEW ps \in (SUBSET Path) \ {{}}, CreateBatch(s, b, ps)
      PROVE  ApprovedMeansWritten'
  <2>1. stored' = stored \cup {b} /\ UNCHANGED <<job, wrote>> /\ job[s] = Idle
    BY <1>5 DEF CreateBatch, Command
  <2>2. SessionStep(s)
    BY <1>5 DEF SessionStep
  <2>3. ~Said("approved", b)
    BY <1>5, Creating DEF Said
  <2>4. ~FinishApply(s)
    BY <2>1 DEF FinishApply, Idle
  <2>5. \A c \in Batch : Said("approved", c)' => Said("approved", c)
    BY <2>2, <2>4, StatusFrom
  <2>6. \A c \in Batch : c # b => Items(c)' = Items(c)
    BY <1>5, Creating DEF Items
  <2> QED
    BY <2>1, <2>3, <2>5, <2>6 DEF ApprovedMeansWritten, TypeOK
<1> QED
  BY <1>1, <1>3, <1>4, <1>5, Steps DEF SessionStep

-----------------------------------------------------------------------------
\* The theorems.

\* The inductive invariant.
THEOREM Invariant == Spec => []IInv
<1>1. Init => IInv
  <2> SUFFICES ASSUME Init PROVE IInv
    OBVIOUS
  <2>1. TypeOK
    BY Names, Values, StagingAssumption DEF Init, TypeOK, LocksHeld, AtFile, Idle, Text
  <2>2. KnownAreCreated
    BY Names DEF Init, KnownAreCreated, Unknown, Idle
  <2>3. ItemsAtHand /\ MayBeReplaced
    BY DEF Init, ItemsAtHand, MayBeReplaced, Idle
  <2>4. ApprovedMeansWritten /\ ReclaimableIsOld
    BY DEF Init, ApprovedMeansWritten, ReclaimableIsOld, Said, Unknown
  <2> QED
    BY <2>1, <2>2, <2>3, <2>4 DEF IInv
<1>2. IInv /\ [Next]_vars => IInv'
  BY TypesKept, KnownKept, ItemsKept, ReplacingKept, ApprovedKept, OldKept DEF IInv
<1> QED
  BY <1>1, <1>2, PTL DEF Spec

\* TypeOK, and with it that a file has the lock of an Apply exactly while one is
\* between reading the file and having written it.
THEOREM Types == Spec => []TypeOK
<1>1. IInv => TypeOK
  BY DEF IInv
<1> QED
  BY <1>1, Invariant, PTL

\* A batch that is said to be approved, and whose content was not cleaned up, has
\* been written, all of it.
THEOREM Approved == Spec => []ApprovedMeansWritten
<1>1. IInv => ApprovedMeansWritten
  BY DEF IInv
<1> QED
  BY <1>1, Invariant, PTL

\* No approval replaces what a batch wrote unless it was made on top of it.
THEOREM OnTop == Spec => BuiltOnWhatItReplaces
<1>1. ASSUME IInv, [Next]_vars, NEW s \in Session, Writes(s) PROVE WriteAllText(s)
  <2>0. TypeOK /\ ItemsAtHand
    BY <1>1 DEF IInv
  <2>1. job'[s] # job[s] /\ job'[s].applied # {}
    BY <1>1 DEF Writes
  <2>2. SessionStep(s)
    <3>1. PICK t \in Session : SessionStep(t)
      BY <1>1, <2>1, Steps, Silent
    <3>2. t = s
      BY <2>0, <2>1, <3>1, OneAtATime
    <3> QED
      BY <3>1, <3>2
  <2>3. CASE ApplyStep(s) /\ ~WriteAllText(s)
    <3>1. CASE ApplyThrows(s) \/ FinishApply(s)
      <4>1. job'[s] = Idle
        BY <2>0, <3>1 DEF ApplyThrows, FinishApply, TypeOK
      <4> QED
        BY <2>1, <4>1 DEF Idle
    <3>2. CASE \E p \in Path : TakeItem(s, p)
      BY <1>1, <2>0, <3>2 DEF TakeItem, Writes, TypeOK, Job
    <3>3. CASE TryAcquire(s)
      BY <1>1, <2>0, <3>3 DEF TryAcquire, ReadExisting, Writes, TypeOK, Job
    <3>4. CASE LockTimeout(s) \/ Compare(s) \/ WriteFails(s)
      <4>1. ASSUME Conflict(s) PROVE job'[s].applied = job[s].applied
        BY <2>0, <4>1 DEF Conflict, TypeOK, Job
      <4>2. ASSUME job' = [job EXCEPT ![s].step = "write"] PROVE job'[s].applied = job[s].applied
        BY <2>0, <4>2 DEF TypeOK, Job
      <4> QED
        BY <1>1, <3>4, <4>1, <4>2 DEF LockTimeout, Compare, WriteFails, Writes
    <3> QED
      BY <2>3, <3>1, <3>2, <3>3, <3>4 DEF ApplyStep
  <2>4. CASE Crash(s) \/ \E b \in Batch : StartApply(s, b)
    <3>1. ASSUME Crash(s) PROVE job'[s].applied = {}
      BY <2>0, <3>1 DEF Crash, TypeOK, Idle
    <3>2. ASSUME NEW b \in Batch, StartApply(s, b) PROVE job'[s].applied = {}
      BY <2>0, <3>2 DEF StartApply, TypeOK, Idle
    <3> QED
      BY <2>1, <2>4, <3>1, <3>2
  <2>5. CASE UNCHANGED job
    BY <2>1, <2>5
  <2> QED
    BY <2>2, <2>3, <2>4, <2>5 DEF SessionStep, Open, ScanExpiry, Cleanup, Reject, CreateBatch
<1>2. IInv /\ [Next]_vars =>
        \A s \in Session : Writes(s) /\ files[job[s].path] \in Batch
            => files[job[s].path] = base[job[s].batch][job[s].path]
  BY <1>1 DEF IInv, MayBeReplaced, WriteAllText
<1> QED
  BY <1>2, Invariant, PTL DEF Spec, BuiltOnWhatItReplaces

\* The content of a batch is deleted only when twice its TTL has gone by.
THEOREM Reclaimed == Spec => ReclaimedOnlyOld
<1>1. IInv /\ [Next]_vars =>
        \A b \in stored \ stored' : age[b] >= 2 /\ index[b].status = "reclaimable"
  <2> SUFFICES ASSUME IInv, [Next]_vars, NEW b \in stored, b \notin stored'
               PROVE  age[b] >= 2 /\ index[b].status = "reclaimable"
    OBVIOUS
  <2>0. TypeOK /\ ItemsAtHand /\ ReclaimableIsOld /\ b \in Batch
    BY DEF IInv, TypeOK
  <2>1. PICK s \in Session : SessionStep(s)
    BY Steps, Silent
  <2>2. Cleanup(s)
    BY <2>0, <2>1, Applying DEF SessionStep, Open, ScanExpiry, Crash, Reject, StartApply, CreateBatch
  <2>3. index[b].status = "reclaimable"
    BY <2>2 DEF Cleanup
  <2> QED
    BY <2>0, <2>3 DEF ReclaimableIsOld, Said
<1> QED
  BY <1>1, Invariant, PTL DEF Spec, ReclaimedOnlyOld
=============================================================================
