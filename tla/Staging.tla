------------------------------- MODULE Staging -------------------------------
(***************************************************************************)
(* Staged changes (StagedFileStore, ApprovalController, LockedFileWriter). *)
(* An agent does not write the user's files: it stages a batch of changes, *)
(* with the content each file had at that time as baseline, and the user   *)
(* approves or rejects the batch later, perhaps in another session.        *)
(*                                                                         *)
(* Every session is a process with a store of its own: it reads index.json *)
(* once and writes the whole of it, from its own memory, at every change.  *)
(* The user edits the files at any time and takes no lock.                 *)
(***************************************************************************)
EXTENDS Naturals, FiniteSets

CONSTANTS
    Session, Batch, Path,
    UserText,            \* what the user may write into a file
    Absent, Empty,       \* a file that does not exist, one of length 0
    None,                \* no session, no batch, no path
    Initially,           \* the files as they are before anything is staged
    MaxItems,            \* bound: items of all the batches together
    MaxCommands,         \* bound: commands given in all the sessions
    MaxUpsets            \* bound: edits of the user, sessions that end, and file
                         \* operations that fail, together

\* The text a batch stages for a file is named by the batch.
Text == {Absent, Empty} \cup UserText \cup Batch

ASSUME StagingAssumption ==
    /\ Initially \subseteq [Path -> {Absent} \cup UserText]
    /\ MaxItems \in Nat /\ MaxCommands \in Nat /\ MaxUpsets \in Nat
    /\ Absent # Empty
    /\ UserText \cap Batch = {}
    /\ {Absent, Empty, None} \cap (UserText \cup Batch) = {}
    /\ None \notin Session \cup Path \cup {Absent, Empty}

VARIABLES
    files,    \* the files of the user
    base,     \* BaselineSha of each item, fixed when its batch is created
    age,      \* age of each batch in units of its TTL, 2 for anything older
    stored,   \* batches whose content files exist
    index,    \* index.json
    mem,      \* _batches of the store of each session
    open,     \* sessions whose store is loaded
    lock,     \* FileLock of each file
    job,      \* the Apply each session is in
    commands, upsets,
    wrote     \* history: <<batch, file>> for each content that was written

vars == <<files, base, age, stored, index, mem, open, lock, job, commands, upsets, wrote>>

Status == {"none", "pending", "approved", "partial", "rejected", "expired", "reclaimable"}
Entry == [status : Status, applied : SUBSET Path]
Unknown == [status |-> "none", applied |-> {}]
Pending == [status |-> "pending", applied |-> {}]

Step == {"idle", "item", "lock", "compare", "write"}
Job == [step : Step, batch : Batch \cup {None}, left : SUBSET Path, path : Path \cup {None},
        text : Text, applied : SUBSET Path, conflicts : SUBSET Path]
Idle == [step |-> "idle", batch |-> None, left |-> {}, path |-> None,
         text |-> Absent, applied |-> {}, conflicts |-> {}]

\* A command may be given in session s.
Command(s) ==
    /\ s \in open /\ job[s] = Idle
    /\ commands < MaxCommands
    /\ commands' = commands + 1

Items(b) == {p \in Path : base[b][p] # None}
Created == {b \in Batch : Items(b) # {}}

\* Something happens that the store cannot help.
Upset == upsets < MaxUpsets /\ upsets' = upsets + 1

\* SaveIndex: the whole index from the memory of one store; a write that fails
\* is forgotten.
SaveIndex(m) ==
    \/ index' = m /\ UNCHANGED upsets
    \/ Upset /\ UNCHANGED index

-----------------------------------------------------------------------------
\* The store.

\* Staging(): the store is made by the first command of the session.
Open(s) ==
    /\ s \notin open
    /\ open' = open \cup {s}
    /\ mem' = [mem EXCEPT ![s] = index]
    /\ UNCHANGED <<files, base, age, stored, index, lock, job, commands, upsets, wrote>>

CreateBatch(s, b, ps) ==
    /\ Command(s) /\ b \notin Created
    /\ Cardinality({item \in Batch \X Path : item[2] \in Items(item[1])}) + Cardinality(ps) <= MaxItems
    /\ base' = [base EXCEPT ![b] = [p \in Path |-> IF p \in ps THEN files[p] ELSE None]]
    /\ stored' = stored \cup {b}
    /\ mem' = [mem EXCEPT ![s][b] = Pending]
    /\ SaveIndex(mem'[s])
    /\ UNCHANGED <<files, age, open, lock, job, wrote>>

\* Mutant of Expired: the two limits are swapped.
ExpiredSwapped(b) ==
    IF age[b] >= 2 THEN "expired" ELSE IF age[b] >= 1 THEN "reclaimable" ELSE "pending"

\* The status a pending batch has at its age.
Expired(b) ==
    IF age[b] >= 2 THEN "reclaimable" ELSE IF age[b] >= 1 THEN "expired" ELSE "pending"

ScanExpiry(s) ==
    /\ Command(s)
    /\ \E b \in Batch : mem[s][b].status = "pending" /\ Expired(b) # "pending"
    /\ mem' = [mem EXCEPT ![s] =
                [b \in Batch |-> IF mem[s][b].status = "pending"
                                 THEN [mem[s][b] EXCEPT !.status = Expired(b)] ELSE mem[s][b]]]
    /\ SaveIndex(mem'[s])
    /\ UNCHANGED <<files, base, age, stored, open, lock, job, wrote>>

\* /cleanup: a store of its own, read from the index; the sessions keep theirs.
Cleanup(s) ==
    LET old == {b \in Batch : index[b].status = "reclaimable"} IN
    /\ Command(s) /\ old # {}
    /\ stored' = stored \ old
    /\ SaveIndex([b \in Batch |-> IF b \in old THEN Unknown ELSE index[b]])
    /\ UNCHANGED <<files, base, age, mem, open, lock, job, wrote>>

\* /reject: looked up in the index, marked in the memory if it is known there.
Reject(s, b) ==
    /\ Command(s)
    /\ index[b].status # "none" /\ mem[s][b].status # "none"
    /\ mem' = [mem EXCEPT ![s][b].status = "rejected"]
    /\ SaveIndex(mem'[s])
    /\ UNCHANGED <<files, base, age, stored, open, lock, job, wrote>>

-----------------------------------------------------------------------------
\* Apply: the items of a batch in turn, each under the lock of its file.
\* /approve all is one Apply after the other.

ApplyFrame == UNCHANGED <<base, age, stored, open, commands, upsets>>
FaultFrame == Upset /\ UNCHANGED <<base, age, stored, open, commands>>

StartApply(s, b) ==
    /\ Command(s) /\ mem[s][b].status = "pending"
    /\ job' = [job EXCEPT ![s] = [Idle EXCEPT !.step = "item", !.batch = b,
                                              !.left = Items(b) \ mem[s][b].applied]]
    /\ UNCHANGED <<files, base, age, stored, index, mem, open, lock, upsets, wrote>>

\* ReadItemContent, before the lock: no content file, no text.
TakeItem(s, p) ==
    /\ job[s].step = "item" /\ p \in job[s].left
    /\ job' = [job EXCEPT ![s].step = "lock", ![s].path = p, ![s].left = @ \ {p},
                          ![s].text = IF job[s].batch \in stored THEN job[s].batch ELSE Empty]
    /\ UNCHANGED <<files, index, mem, lock, wrote>> /\ ApplyFrame

\* The directory of an item cannot be made, or its file cannot be read: Apply
\* ends with an exception.
ApplyThrows(s) ==
    /\ job[s].step = "item" /\ job[s].left # {}
    /\ job' = [job EXCEPT ![s] = Idle]
    /\ UNCHANGED <<files, index, mem, lock, wrote>> /\ FaultFrame

Conflict(s) ==
    job' = [job EXCEPT ![s].step = "item", ![s].conflicts = @ \cup {job[s].path}]

\* The lock is taken and WriteIf reads the file: it asks allowOverwrite only about
\* a file that has something in it.
ReadExisting(s) ==
    /\ lock' = [lock EXCEPT ![job[s].path] = s]
    /\ job' = [job EXCEPT ![s].step =
                IF files[job[s].path] \in {Absent, Empty} THEN "write" ELSE "compare"]
    /\ UNCHANGED <<files, index, mem, wrote>> /\ ApplyFrame

\* Mutant of TryAcquire: the lock excludes nobody.
TryAcquireAny(s) == job[s].step = "lock" /\ ReadExisting(s)

TryAcquire(s) ==
    /\ job[s].step = "lock" /\ lock[job[s].path] = None
    /\ ReadExisting(s)

LockTimeout(s) ==
    /\ job[s].step = "lock" /\ lock[job[s].path] # None
    /\ Conflict(s)
    /\ UNCHANGED <<files, index, mem, lock, wrote>> /\ ApplyFrame

\* Mutant of Release: the lock of a file is not given back.
ReleaseNot(s) == UNCHANGED lock

Release(s) == lock' = [lock EXCEPT ![job[s].path] = None]

\* allowOverwrite reads the file again and compares it with the baseline.
Compare(s) ==
    /\ job[s].step = "compare"
    /\ IF files[job[s].path] = base[job[s].batch][job[s].path]
       THEN job' = [job EXCEPT ![s].step = "write"] /\ UNCHANGED lock
       ELSE Conflict(s) /\ Release(s)
    /\ UNCHANGED <<files, index, mem, wrote>> /\ ApplyFrame

\* AtomicFileWriter.WriteAllText: all of the text at once.
WriteAllText(s) ==
    LET p == job[s].path IN
    /\ job[s].step = "write"
    /\ files' = [files EXCEPT ![p] = job[s].text]
    /\ wrote' = wrote \cup {<<job[s].text, p>>}
    /\ mem' = [mem EXCEPT ![s][job[s].batch].applied = @ \cup {p}]
    /\ job' = [job EXCEPT ![s].step = "item", ![s].applied = @ \cup {p}]
    /\ Release(s)
    /\ UNCHANGED index /\ ApplyFrame

\* ... or none of it.
WriteFails(s) ==
    /\ job[s].step = "write"
    /\ Conflict(s) /\ Release(s)
    /\ UNCHANGED <<files, index, mem, wrote>> /\ FaultFrame

\* Mutant of Outcome: conflicts are not counted.
OutcomeHopeful(j) == IF j.applied # {} THEN "approved" ELSE "rejected"

\* FullyApplied counts the items of this call.
Outcome(j) ==
    IF j.conflicts = {} /\ j.applied = Items(j.batch) THEN "approved"
    ELSE IF j.applied # {} THEN "partial" ELSE "rejected"

FinishApply(s) ==
    /\ job[s].step = "item" /\ job[s].left = {}
    /\ mem' = [mem EXCEPT ![s][job[s].batch].status = Outcome(job[s])]
    /\ SaveIndex(mem'[s])
    /\ job' = [job EXCEPT ![s] = Idle]
    /\ UNCHANGED <<files, base, age, stored, open, lock, commands, wrote>>

ApplyStep(s) ==
    \/ \E p \in Path : TakeItem(s, p)
    \/ ApplyThrows(s)
    \/ TryAcquire(s) \/ LockTimeout(s)
    \/ Compare(s)
    \/ WriteAllText(s) \/ WriteFails(s)
    \/ FinishApply(s)

-----------------------------------------------------------------------------
\* The world around.

UserEdits(p, t) ==
    /\ t # files[p]
    /\ Upset
    /\ files' = [files EXCEPT ![p] = t]
    /\ UNCHANGED <<base, age, stored, index, mem, open, lock, job, commands, wrote>>

\* One TTL goes by.
TimePasses ==
    /\ \E b \in Created : age[b] < 2
    /\ age' = [b \in Batch |-> IF b \in Created /\ age[b] < 2 THEN age[b] + 1 ELSE age[b]]
    /\ UNCHANGED <<files, base, stored, index, mem, open, lock, job, commands, upsets, wrote>>

\* A session ends or is killed: the system drops its locks.
Crash(s) ==
    /\ s \in open /\ Upset
    /\ open' = open \ {s}
    /\ mem' = [mem EXCEPT ![s] = [b \in Batch |-> Unknown]]
    /\ job' = [job EXCEPT ![s] = Idle]
    /\ lock' = [p \in Path |-> IF lock[p] = s THEN None ELSE lock[p]]
    /\ UNCHANGED <<files, base, age, stored, index, commands, wrote>>

Init ==
    /\ files \in Initially
    /\ base = [b \in Batch |-> [p \in Path |-> None]]
    /\ age = [b \in Batch |-> 0]
    /\ stored = {}
    /\ index = [b \in Batch |-> Unknown]
    /\ mem = [s \in Session |-> index]
    /\ open = {}
    /\ lock = [p \in Path |-> None]
    /\ job = [s \in Session |-> Idle]
    /\ commands = 0 /\ upsets = 0
    /\ wrote = {}

Next ==
    \/ \E s \in Session :
        \/ Open(s) \/ ScanExpiry(s) \/ Cleanup(s) \/ ApplyStep(s) \/ Crash(s)
        \/ \E b \in Batch :
            \/ \E ps \in (SUBSET Path) \ {{}} : CreateBatch(s, b, ps)
            \/ Reject(s, b) \/ StartApply(s, b)
    \/ \E p \in Path, t \in {Absent, Empty} \cup UserText : UserEdits(p, t)
    \/ TimePasses

Spec == Init /\ [][Next]_vars

-----------------------------------------------------------------------------
\* Properties.

AtFile(j) == j.step \in {"compare", "write"}

LocksHeld == \A p \in Path, s \in Session : lock[p] = s <=> AtFile(job[s]) /\ job[s].path = p

\* The types; and a FileLock is held exactly while an Apply is at its file.
TypeOK ==
    /\ files \in [Path -> Text]
    /\ base \in [Batch -> [Path -> Text \cup {None}]]
    /\ age \in [Batch -> 0..2]
    /\ stored \subseteq Batch
    /\ index \in [Batch -> Entry]
    /\ mem \in [Session -> [Batch -> Entry]]
    /\ open \subseteq Session
    /\ lock \in [Path -> Session \cup {None}]
    /\ job \in [Session -> Job]
    /\ commands \in 0..MaxCommands /\ upsets \in 0..MaxUpsets
    /\ wrote \subseteq Text \X Path
    /\ LocksHeld

\* ApprovalController: when batch A has been applied the baseline of B is out of
\* date and B does not silently replace it.  An approval, in whatever session,
\* never replaces what a batch wrote unless it was made on top of it: neither
\* another batch's text nor, after a crash or a second approval, its own.
Writes(s) == ~(job'[s].applied \subseteq job[s].applied)

BuiltOnWhatItReplaces ==
    [][\A s \in Session :
        Writes(s) /\ files[job[s].path] \in Batch
            => files[job[s].path] = base[job[s].batch][job[s].path]]_vars

\* In memory or on disk batch b has status x.
Said(x, b) == index[b].status = x \/ \E s \in Session : mem[s][b].status = x

\* Approved is said, in memory and on disk, of a batch only when each of its
\* contents has been written; the one way around it is a batch whose content
\* was cleaned up while another session still had it as pending.
ApprovedMeansWritten ==
    \A b \in stored :
        Said("approved", b) => \A p \in Items(b) : <<b, p>> \in wrote

\* Contents are not lost in silence: they are deleted by /cleanup alone, and
\* only when twice the TTL has gone by.
ReclaimedOnlyOld ==
    [][\A b \in stored \ stored' : age[b] >= 2 /\ index[b].status = "reclaimable"]_vars

-----------------------------------------------------------------------------
\* The inductive invariant behind these properties (StagingProofs).

\* Only batches that were created are known to a store, to the index or to an Apply.
KnownAreCreated ==
    \A b \in Batch \ Created :
        /\ index[b].status = "none" /\ b \notin stored
        /\ \A s \in Session : mem[s][b].status = "none" /\ job[s].batch # b

\* An Apply is at an item of its batch, with the text that was stored for it; what
\* it counts as applied has been written.
ItemsAtHand ==
    \A s \in Session :
        /\ job[s].step # "idle" =>
            /\ job[s].batch \in Batch
            /\ job[s].batch \in stored => \A p \in job[s].applied : <<job[s].batch, p>> \in wrote
        /\ job[s].step \in {"lock", "compare", "write"} =>
            /\ job[s].path \in Path
            /\ job[s].batch \in stored => job[s].text = job[s].batch

\* What may be overwritten is the baseline, or no batch wrote it.
MayBeReplaced ==
    \A s \in Session :
        job[s].step = "write" /\ files[job[s].path] \in Batch
            => files[job[s].path] = base[job[s].batch][job[s].path]

\* No batch is given up before twice its TTL has gone by.
ReclaimableIsOld == \A b \in Batch : Said("reclaimable", b) => age[b] >= 2

IInv ==
    /\ TypeOK
    /\ KnownAreCreated
    /\ ItemsAtHand
    /\ MayBeReplaced
    /\ ApprovedMeansWritten
    /\ ReclaimableIsOld
=============================================================================
