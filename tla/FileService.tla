----------------------------- MODULE FileService -----------------------------
(***************************************************************************)
(* LocalFileService and FileBackupStore: the writes and restores of files. *)
(*                                                                         *)
(* An author reads a file, edits it and asks for the new text to be        *)
(* written; what it saw goes with the request.  Calls for one file take    *)
(* turns (a gate per path); the user and other programs change files       *)
(* without asking.  A write checks the request against the file, merges    *)
(* the two edits if the file has changed since, compares once more, backs  *)
(* the file up, prunes the old backups and moves the new text over it.     *)
(*                                                                         *)
(* A text is its lines (and so is its hash); Binary stands for contents    *)
(* that are not UTF-8.  Paths lie within the root of the workspace.  The   *)
(* files, the index and the blobs are on disk: they outlive the process.   *)
(***************************************************************************)
EXTENDS LineMerge, FiniteSets

CONSTANTS
    Client,     \* tasks that call the service
    Path,
    Line,
    None, Absent, Binary,
    Scenarios   \* what may be done: see ScenarioType

Text == Seq(Line) \cup {Binary}
Ways == {"conditional", "remembered", "unconditional"}

\* The options of the service, and the bounds: the files in use, the texts an
\* author or the user writes, the calls of an author, how often the user or a
\* fault comes in.
ScenarioType(s) ==
    /\ s.paths \subseteq Path
    /\ s.disk \in [Path -> Text \cup {Absent}]
    /\ \A c \in Client : s.edits[c] \subseteq Seq(Line) /\ s.calls[c] \in Nat
    /\ s.user \subseteq Text \cup {Absent}
    /\ s.ways \subseteq Ways
    /\ s.keep \in Nat \ {0}
    /\ {s.restores, s.requireBackup, s.allowMerge} \subseteq BOOLEAN
    /\ {s.maxLines, s.upsets, s.faults} \subseteq Nat

ASSUME NamesAssumption == None \notin Client /\ None # Absent /\ {None, Absent} \cap Text = {}
ASSUME ScenariosAssumption == \A s \in Scenarios : ScenarioType(s)

VARIABLES
    scn,     \* the scenario
    disk,    \* the files
    index,   \* backup-index.jsonl: the records
    blobs,   \* the contents in backups/
    gate,    \* _locks: who is inside ApplyAsync or Restore for a path
    at,      \* where the call of a client stands
    req,     \* FileEditRequest, or the record to restore
    text,    \* what a write is about to put in the file
    based,   \* currentSha: the contents this was decided on
    list,    \* Prune: the index it has read; None before
    clock,   \* DateTime.UtcNow: moves on from one backup to the next
    made, upsets, faults,   \* calls, changes of the user, faults so far
    raced,   \* history: the user changed the file after the second look
    stale,   \* history: a prune has written back an index that was outdated
    revived  \* history: the records that such a prune has brought back

disks == <<disk, index, blobs>>
bounds == <<made, upsets, faults>>
vars == <<scn, disks, gate, at, req, text, based, list, clock, bounds, raced, stale, revived>>

-----------------------------------------------------------------------------
\* Helpers.

NoRequest == [op |-> "none"]

Inside == {"check", "verify", "backup", "prune", "drop", "put", "move"}

\* The call goes on to the step s.
GoOn(c, s) ==
    /\ at' = [at EXCEPT ![c] = s]
    /\ UNCHANGED <<gate, req, raced>>

\* Mutant of Leave: the call that is refused keeps the gate.
LeaveShut(c) ==
    /\ at' = [at EXCEPT ![c] = "idle"]
    /\ gate' = gate
    /\ req' = [req EXCEPT ![c] = NoRequest]
    /\ text' = [text EXCEPT ![c] = None]
    /\ based' = [based EXCEPT ![c] = None]
    /\ list' = [list EXCEPT ![c] = None]
    /\ raced' = [raced EXCEPT ![c] = FALSE]

\* The call is over, by a result or by an exception: the gate is released.
Leave(c) ==
    /\ at' = [at EXCEPT ![c] = "idle"]
    /\ gate' = [gate EXCEPT ![req[c].path] = None]
    /\ req' = [req EXCEPT ![c] = NoRequest]
    /\ text' = [text EXCEPT ![c] = None]
    /\ based' = [based EXCEPT ![c] = None]
    /\ list' = [list EXCEPT ![c] = None]
    /\ raced' = [raced EXCEPT ![c] = FALSE]

Fault == faults < scn.faults /\ faults' = faults + 1 /\ UNCHANGED <<made, upsets>>

-----------------------------------------------------------------------------
\* A call begins.

\* An author looks at a file and asks for an edit: with what it saw and its
\* hash, with the hash alone, or without a condition.  Of a file that was not
\* there nothing can be said: the request is unconditional.
Begin(c) ==
    /\ at[c] = "idle" /\ made[c] < scn.calls[c]
    /\ \E p \in scn.paths, way \in scn.ways, new \in scn.edits[c] :
        LET expected == IF way = "unconditional" THEN Absent ELSE disk[p]
            base == IF way = "conditional" /\ expected \notin {Absent, Binary}
                    THEN expected ELSE None
        IN  req' = [req EXCEPT ![c] = [op |-> "apply", path |-> p, new |-> new,
                                       expected |-> expected, base |-> base]]
    /\ at' = [at EXCEPT ![c] = "waiting"]
    /\ made' = [made EXCEPT ![c] = @ + 1]
    /\ UNCHANGED <<scn, disks, gate, text, based, list, upsets, faults, raced, stale, revived, clock>>

\* A record of ListBackups is to be restored.
BeginRestore(c) ==
    /\ at[c] = "idle" /\ made[c] < scn.calls[c] /\ scn.restores
    /\ \E r \in index :
        req' = [req EXCEPT ![c] = [op |-> "restore", path |-> r.path, new |-> r.text,
                                   expected |-> Absent, base |-> None]]
    /\ at' = [at EXCEPT ![c] = "waiting"]
    /\ made' = [made EXCEPT ![c] = @ + 1]
    /\ UNCHANGED <<scn, disks, gate, text, based, list, upsets, faults, raced, stale, revived, clock>>

\* Mutant of Enter: the calls for one file do not take turns.
EnterAnyway(c) ==
    /\ at[c] = "waiting"
    /\ gate' = [gate EXCEPT ![req[c].path] = c]
    /\ at' = [at EXCEPT ![c] = IF req[c].op = "apply" THEN "check" ELSE "backup"]
    /\ UNCHANGED <<scn, disks, req, text, based, list, bounds, raced, stale, revived, clock>>

Enter(c) ==
    /\ at[c] = "waiting"
    /\ gate[req[c].path] = None
    /\ gate' = [gate EXCEPT ![req[c].path] = c]
    /\ at' = [at EXCEPT ![c] = IF req[c].op = "apply" THEN "check" ELSE "backup"]
    /\ UNCHANGED <<scn, disks, req, text, based, list, bounds, raced, stale, revived, clock>>

-----------------------------------------------------------------------------
\* ApplyCore: what is to be written.

\* Mutant of Base: what is on disk is taken for what the author started from.
BaseOnDisk(r) == disk[r.path]

\* The text the author started from: its own, or from the backups.
Base(r) ==
    IF r.base # None THEN r.base
    ELSE IF r.expected \in blobs \ {Binary} THEN r.expected
    ELSE None

TooLong(t) == t # None /\ Len(t) > scn.maxLines

\* The new contents of the file, or None when the request is turned down.
Decisions(r) ==
    LET cur == disk[r.path] IN
    CASE cur = Binary -> {None}
      [] cur # Binary /\ r.expected \in {Absent, cur} -> {r.new}
      [] OTHER ->
            IF \/ cur = Absent \/ ~scn.allowMerge \/ Base(r) = None
               \/ TooLong(cur) \/ TooLong(r.new) \/ TooLong(Base(r))
            THEN {None}
            ELSE {IF m.clean THEN m.lines ELSE None : m \in Merges(Base(r), cur, r.new)}

Check(c) ==
    /\ at[c] = "check"
    /\ \E t \in Decisions(req[c]) :
        IF t = None THEN Leave(c)
        ELSE /\ GoOn(c, "verify")
             /\ text' = [text EXCEPT ![c] = t]
             /\ based' = [based EXCEPT ![c] = disk[req[c].path]]
             /\ UNCHANGED list
    /\ UNCHANGED <<scn, disks, bounds, stale, revived, clock>>

-----------------------------------------------------------------------------
\* WriteFile and Restore.

\* The file must still be what was decided on; a new file needs no backup.
Verify(c) ==
    /\ at[c] = "verify"
    /\ IF disk[req[c].path] # based[c] THEN Leave(c)
       ELSE /\ GoOn(c, IF based[c] = Absent THEN "move" ELSE "backup")
            /\ UNCHANGED <<text, based, list>>
    /\ UNCHANGED <<scn, disks, bounds, stale, revived, clock>>

AfterBackup(c) == IF req[c].op = "apply" THEN "prune" ELSE "put"
WithoutBackup(c) == IF req[c].op = "apply" THEN "move" ELSE "put"

\* There is no file any more: reading it throws, and a restore goes on.
BackupNothing(c) ==
    /\ at[c] = "backup"
    /\ disk[req[c].path] = Absent
    /\ IF req[c].op = "apply" THEN Leave(c)
       ELSE GoOn(c, "put") /\ UNCHANGED <<text, based, list>>
    /\ UNCHANGED <<scn, disks, bounds, stale, revived, clock>>

\* Mutant of Backup: a file that is gone is backed up too.
BackupGone(c) ==
    LET t == disk[req[c].path] IN
    /\ at[c] = "backup"
    /\ blobs' = blobs \cup {t}
    /\ index' = index \cup {[path |-> req[c].path, text |-> t, tick |-> clock]}
    /\ clock' = clock + 1
    /\ GoOn(c, AfterBackup(c))
    /\ UNCHANGED <<scn, disk, text, based, list, bounds, stale, revived>>

\* FileBackupStore.Ensure, under the lock of the store: the blob, if there is
\* none of this content, then the record.
Backup(c) ==
    LET t == disk[req[c].path] IN
    /\ at[c] = "backup" /\ t # Absent
    /\ blobs' = blobs \cup {t}
    /\ index' = index \cup {[path |-> req[c].path, text |-> t, tick |-> clock]}
    /\ clock' = clock + 1
    /\ GoOn(c, AfterBackup(c))
    /\ UNCHANGED <<scn, disk, text, based, list, bounds, stale, revived>>

\* Ensure fails before or after it has written the blob: the call is refused,
\* or goes on without a backup if none is required.
BackupFails(c) ==
    LET t == disk[req[c].path] IN
    /\ at[c] = "backup" /\ t # Absent
    /\ Fault
    /\ blobs' \in {blobs, blobs \cup {t}}
    /\ IF scn.requireBackup THEN Leave(c)
       ELSE GoOn(c, WithoutBackup(c)) /\ UNCHANGED <<text, based, list>>
    /\ UNCHANGED <<scn, disk, index, stale, revived, clock>>

\* FileBackupStore.Restore: the blob replaces the file, unless it is missing.
Put(c) ==
    /\ at[c] = "put"
    /\ IF req[c].new \in blobs
       THEN /\ disk' = [disk EXCEPT ![req[c].path] = req[c].new]
            /\ GoOn(c, "prune")
            /\ UNCHANGED <<text, based, list>>
       ELSE Leave(c) /\ UNCHANGED disk
    /\ UNCHANGED <<scn, index, blobs, bounds, stale, revived, clock>>

\* The file cannot be written: the restore says so.
PutFails(c) ==
    /\ at[c] = "put"
    /\ Fault
    /\ Leave(c)
    /\ UNCHANGED <<scn, disks, stale, revived, clock>>

-----------------------------------------------------------------------------
\* FileBackupStore.Prune.

\* The backups of the path p, and those taken after r.
Mine(rs, p) == {r \in rs : r.path = p}
Newer(rs, r) == {m \in Mine(rs, r.path) : m.tick > r.tick}

\* Mutant of Dropped: the newest records are dropped.
DroppedNewest(rs, p) ==
    {r.text : r \in {m \in Mine(rs, p) : Cardinality(Mine(rs, p) \ Newer(rs, m)) > scn.keep}}

\* The contents of all records of the path but the newest `keep`.
Dropped(rs, p) == {r.text : r \in {m \in Mine(rs, p) : Cardinality(Newer(rs, m)) >= scn.keep}}

\* A write that has read the index goes on to the move; a restore is complete.
Pruned(c, read) ==
    IF req[c].op = "apply"
    THEN GoOn(c, "move") /\ list' = [list EXCEPT ![c] = read] /\ UNCHANGED <<text, based>>
    ELSE Leave(c)

\* The index is read, without the lock.
Prune(c) ==
    /\ at[c] = "prune"
    /\ IF Dropped(index, req[c].path) = {} THEN Pruned(c, index)
       ELSE GoOn(c, "drop") /\ list' = [list EXCEPT ![c] = index] /\ UNCHANGED <<text, based>>
    /\ UNCHANGED <<scn, disks, bounds, stale, revived, clock>>

\* The index cannot be read: nothing is pruned.
PruneUnread(c) ==
    /\ at[c] = "prune"
    /\ Fault
    /\ Pruned(c, {})
    /\ UNCHANGED <<scn, disks, stale, revived, clock>>

\* Mutant of Reclaimed: a content of this path is taken to be of no other.
ReclaimedAll(kept, gone) == gone

\* The contents that no record that is left refers to.
Reclaimed(kept, gone) == gone \ {r.text : r \in kept}

\* What a prune drops, and what it leaves of the index as it was read: all but the
\* records of this path that have a dropped content.
Gone(c) == Dropped(list[c], req[c].path)
Kept(c) == {r \in list[c] : r.path # req[c].path \/ r.text \notin Gone(c)}

\* The contents to be deleted: the index that is written back does not refer to them.
Deleted(c) == blobs \cap Reclaimed(Kept(c), Gone(c))

\* Under the lock the index is written back, and the contents are deleted, but for
\* those of `stay`.
WriteBack(c, stay) ==
    /\ index' = Kept(c)
    /\ blobs' = blobs \ (Deleted(c) \ stay)
    /\ stale' = (stale \/ index # list[c])
    /\ revived' = Kept(c) \ (index \ revived)
    /\ UNCHANGED <<scn, disk, clock>>

\* Contents that cannot be deleted (IOException) stay.
Drop(c) ==
    /\ at[c] = "drop"
    /\ \/ WriteBack(c, {}) /\ UNCHANGED bounds
       \/ Fault /\ \E stay \in (SUBSET Deleted(c)) \ {{}} : WriteBack(c, stay)
    /\ Pruned(c, list[c])

\* The deletion of a content is denied (UnauthorizedAccessException): it stays, and
\* the rest with it; the exception ends the call.
DropDenied(c) ==
    /\ at[c] = "drop"
    /\ Fault
    /\ \E stay \in (SUBSET Deleted(c)) \ {{}} : WriteBack(c, stay)
    /\ Leave(c)

\* The index cannot be written: the exception ends the call.
DropFails(c) ==
    /\ at[c] = "drop"
    /\ Fault
    /\ Leave(c)
    /\ UNCHANGED <<scn, disks, stale, revived, clock>>

\* The new text replaces the file.
Move(c) ==
    /\ at[c] = "move"
    /\ disk' = [disk EXCEPT ![req[c].path] = text[c]]
    /\ Leave(c)
    /\ UNCHANGED <<scn, index, blobs, bounds, stale, revived, clock>>

\* The temporary file cannot be written or moved: the exception ends the call.
MoveFails(c) ==
    /\ at[c] = "move"
    /\ Fault
    /\ Leave(c)
    /\ UNCHANGED <<scn, disks, stale, revived, clock>>

-----------------------------------------------------------------------------
\* The rest of the world.

\* The user, or another program, changes or deletes a file.
UserChanges ==
    /\ upsets < scn.upsets
    /\ \E p \in scn.paths, t \in scn.user :
        /\ t # disk[p]
        /\ disk' = [disk EXCEPT ![p] = t]
        /\ raced' = [c \in Client |->
                        raced[c] \/ (at[c] \in {"backup", "prune", "drop", "move"} /\ req[c].path = p)]
    /\ upsets' = upsets + 1
    /\ UNCHANGED <<scn, index, blobs, gate, at, req, text, based, list, made, faults, stale, revived, clock>>

\* The process ends and is started again: its calls are lost.
Crash ==
    /\ Fault
    /\ gate' = [p \in Path |-> None]
    /\ at' = [c \in Client |-> "idle"]
    /\ req' = [c \in Client |-> NoRequest]
    /\ text' = [c \in Client |-> None]
    /\ based' = [c \in Client |-> None]
    /\ list' = [c \in Client |-> None]
    /\ raced' = [c \in Client |-> FALSE]
    /\ UNCHANGED <<scn, disks, stale, revived, clock>>

-----------------------------------------------------------------------------
Init ==
    /\ scn \in Scenarios
    /\ disk = scn.disk
    /\ index = {}
    /\ clock = 0
    /\ blobs = {}
    /\ gate = [p \in Path |-> None]
    /\ at = [c \in Client |-> "idle"]
    /\ req = [c \in Client |-> NoRequest]
    /\ text = [c \in Client |-> None]
    /\ based = [c \in Client |-> None]
    /\ list = [c \in Client |-> None]
    /\ made = [c \in Client |-> 0]
    /\ upsets = 0
    /\ faults = 0
    /\ raced = [c \in Client |-> FALSE]
    /\ stale = FALSE
    /\ revived = {}

\* A step of a call of c that has begun.
Step(c) ==
    \/ Enter(c) \/ Check(c) \/ Verify(c)
    \/ BackupNothing(c) \/ Backup(c) \/ BackupFails(c)
    \/ Put(c) \/ PutFails(c)
    \/ Prune(c) \/ PruneUnread(c) \/ Drop(c) \/ DropDenied(c) \/ DropFails(c)
    \/ Move(c) \/ MoveFails(c)

Next ==
    \/ \E c \in Client : Begin(c) \/ BeginRestore(c) \/ Step(c)
    \/ UserChanges
    \/ Crash

\* The gate is a semaphore whose waiters get their turn, and what runs inside is
\* synchronous code.
Fairness == \A c \in Client : WF_vars(Step(c))

Spec == Init /\ [][Next]_vars
FairSpec == Spec /\ Fairness

-----------------------------------------------------------------------------
\* Properties.

Request ==
    [op: {"apply", "restore"}, path: Path, new: Text, expected: Text \cup {Absent},
     base: Seq(Line) \cup {None}]
Record == [path: Path, text: Text, tick: Nat]

\* Type correctness: the service puts nothing but texts in a file, and backs up
\* no file that does not exist.
TypeOK ==
    /\ scn \in Scenarios
    /\ disk \in [Path -> Text \cup {Absent}]
    /\ index \subseteq Record
    /\ blobs \subseteq Text
    /\ gate \in [Path -> Client \cup {None}]
    /\ at \in [Client -> Inside \cup {"idle", "waiting"}]
    /\ req \in [Client -> Request \cup {NoRequest}]
    /\ text \in [Client -> Seq(Line) \cup {None}]
    /\ based \in [Client -> Text \cup {Absent, None}]
    /\ list \in [Client -> (SUBSET Record) \cup {None}]
    /\ clock \in Nat
    /\ made \in [Client -> Nat] /\ upsets \in Nat /\ faults \in Nat
    /\ raced \in [Client -> BOOLEAN] /\ stale \in BOOLEAN /\ revived \subseteq index

\* The file that a write replaces is the one its text was made from, whatever
\* the other calls, their restores and a restart do: only who does not ask, after
\* the second look, can still be overwritten.
CheckedIsReplaced ==
    \A c \in Client :
        /\ at[c] \in {"backup", "prune", "drop", "move"}
        /\ req[c].op = "apply"
        /\ ~raced[c]
        => disk[req[c].path] = based[c]

\* Every record of the index can be restored, after any failure or restart, but one
\* that had been removed when a prune of another file wrote back the index it had
\* read before.  With one file in use there is no such record.
RecordsHaveBlobs ==
    /\ \A r \in index \ revived : r.text \in blobs
    /\ revived # {} => \E p, q \in scn.paths : p # q

\* The backups among rs of what the write of c replaces.
Taken(rs, c) == {r \in Mine(rs, req[c].path) : r.text = based[c]}

\* When a write replaces a file that it has backed up, the replaced contents can
\* be restored: its own prune has not taken them away, nor has that of another file
\* that knew of them.  One that had read the index before can lose the record, and
\* an older backup of the file that is equal goes with all its equals.
BackupAtHand ==
    \A c \in Client :
        /\ at[c] = "move" /\ list[c] # None
        /\ ~raced[c] /\ ~stale
        /\ Cardinality(Taken(list[c], c)) = 1
        => Taken(index, c) # {} /\ based[c] \in blobs

\* The lines a side has put in, in order (the one list of them).
Added(base, side) ==
    {FlattenSeq([k \in 1..Len(frame) - 1 |-> Gap(frame, side, "one", k).lines]) :
        frame \in Frames(base, side)}

\* s can be had from t by leaving out elements.
IsWithin(s, t) ==
    \E f \in [DOMAIN s -> DOMAIN t] :
        /\ \A i, j \in DOMAIN s : i < j => f[i] < f[j]
        /\ \A i \in DOMAIN s : s[i] = t[f[i]]

\* No lost update: when a write that knows what its author saw lands, the file
\* holds the lines the author has put in, and those others have since.
BothEditsSurvive ==
    [][\A c \in Client :
        at[c] = "move" /\ at'[c] = "idle" /\ disk' # disk /\ ~raced[c] /\ req[c].expected # Absent =>
            \A edited \in {req[c].new, disk[req[c].path]} :
            \A put \in Added(req[c].expected, edited) : IsWithin(put, disk'[req[c].path])]_vars

\* A call returns, whatever fails inside it.
Returns == \A c \in Client : at[c] # "idle" ~> at[c] = "idle"

-----------------------------------------------------------------------------
\* The inductive invariant behind these properties (FileServiceProofs).

Shape ==
    /\ scn \in Scenarios
    /\ DOMAIN disk = Path
    /\ gate \in [Path -> Client \cup {None}]
    /\ at \in [Client -> Inside \cup {"idle", "waiting"}]
    /\ DOMAIN req = Client /\ DOMAIN based = Client /\ DOMAIN list = Client
    /\ raced \in [Client -> BOOLEAN] /\ stale \in BOOLEAN
    /\ clock \in Nat

\* Who is inside has the gate of its file.
Turns ==
    \A c \in Client :
        /\ at[c] # "idle" => req[c].path \in scn.paths
        /\ at[c] \in Inside => gate[req[c].path] = c

\* Where a write or a restore can stand, and who has read the index.
Courses ==
    \A c \in Client :
        /\ at[c] \in {"check", "verify", "move"} => req[c].op = "apply"
        /\ at[c] = "put" => req[c].op # "apply"
        /\ at[c] \notin {"drop", "move"} => list[c] = None

\* Records of files in use, taken before now.
Known(rs) ==
    /\ IsFiniteSet(rs)
    /\ \A r \in rs : r.path \in scn.paths /\ r.tick \in Nat /\ r.tick < clock

Lists ==
    /\ Known(index)
    /\ \A c \in Client : at[c] = "drop" => Known(list[c])

\* With one file in use, no prune works on an outdated index.
OneFile ==
    (\A p, q \in scn.paths : p = q) =>
        \A c \in Client : at[c] = "drop" => list[c] = index

\* Only an outdated prune brings records back.
Revivals == revived # {} => stale

\* The backup that a write has just taken is the newest of its file.
HasNewest(rs, c) == \E r \in Taken(rs, c) : \A m \in Mine(rs, req[c].path) : m.tick <= r.tick

JustTaken ==
    \A c \in Client :
        ~raced[c] /\ ~stale /\ req[c].op = "apply" =>
            /\ at[c] = "prune" => HasNewest(index, c)
            /\ at[c] = "drop" => HasNewest(list[c], c)

\* Where a write has decided what to put in the file.
Past == {"verify", "backup", "prune", "drop", "move"}

\* What the author of a write asks for is text, and so is what is decided on; the
\* lines it has started from, when it sends them, are those that it expects.
Written ==
    \A c \in Client : req[c].op = "apply" =>
        /\ req[c].new \in Seq(Line)
        /\ req[c].base \in {None, req[c].expected}
        /\ at[c] \in Past => text[c] \in Seq(Line)

\* A prune has read records.
Indexes == \A c \in Client : at[c] = "drop" => list[c] \subseteq Record

\* What the author has put in, and what others had by the time of the first look,
\* is in what was decided on.
Decided ==
    \A c \in Client : req[c].op = "apply" /\ at[c] \in Past /\ req[c].expected # Absent =>
        \A edited \in {req[c].new, based[c]} :
        \A put \in Added(req[c].expected, edited) : IsWithin(put, text[c])

IInv ==
    /\ Shape
    /\ Turns
    /\ Courses
    /\ Lists
    /\ OneFile
    /\ JustTaken
    /\ CheckedIsReplaced
    /\ RecordsHaveBlobs
    /\ BackupAtHand
    /\ Revivals
=============================================================================
