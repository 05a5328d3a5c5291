# Verification of click-agent

TLA+ specifications, TLC model checks and TLAPS proofs for the part of
click-agent in which several things happen at once and something may be lost:
the execution of task plans (`TaskPlanExecutor`), their resumption after a pause
(`PlanResumeService`), the orchestration of plans in a shared workspace
(`TaskOrchestrator`), staged changes that await an approval (`StagedFileStore`,
`ApprovalController`), edits of files with merge and backups
(`LocalFileService`, `FileBackupStore`, `ThreeWayLineMerge`) and the failover of
search providers (`SearchFailoverService`). Paths below are relative to the repository's sources;
`PROJECT.json` names the lines behind every definition.

## 1. The system

click-agent is a C#/.NET agent of some 74 000 lines without its tests. A message
of the user is classified and, when it holds a task of several steps, cut into a
*plan*: nodes with levels, declared dependencies, parameters and questions. The
plan is executed, with local executors and calls of a language model; it pauses
when it needs the user, and the next message resumes it. Most of the code turns
texts into other texts; the parts below keep state of their own.

| component | state | operations | how it interacts |
|---|---|---|---|
| plan executor (`agent/registry/TaskPlanExecutor.cs`) | node states, wait ledger (`run.Waits`), injected dependencies, the list of deferred nodes, the state of the run | `ExecuteAsync` and its parts: level loop, preparation, shards, retries, drains, termination | calls the node runner, the prompt service, the checkpoint store, a callback for cancel instructions |
| plan resumption (`agent/intent/PlanResumeService.cs`, `agent/IndustrialAgentV2.Plan.cs`) | one checkpoint file per session: plan, run, outputs, the node that awaits an answer | `Capture`, `TryLoad`, `ApplyReply`, and the turns around them | before a turn and after it; calls the executor with a rebuilt run |
| task orchestrator (`agent/intent/TaskOrchestrator.cs`) | snapshots of the workspace, step budgets, violations, outputs kept for dependants | `RunAsync`, `RunNodeAsync`, `EnforceScope` | is the node runner of an executor; nodes of a shard share the workspace |
| staged changes (`agent/staging`, `agent/execution`) | `index.json`, content files, the memory of each store, file locks | `CreateBatch`, `ScanExpiry`, `Cleanup`, `MarkStatus`, `Apply` | several sessions share the directory; the user edits the files |
| file service (`agent.files`) | the files, an index of backups and their contents, a gate per path | `ApplyAsync`, `Restore`, `Ensure`, `Prune`, the three-way merge | several authors edit a file; the user and other programs change it without asking |
| search failover (`agent/search`) | the order of slots, failures and circuit of each provider, the slot file | `SearchAsync`, `PromoteNextAvailable`, `LoadSlotState`, `PersistSlotStateSafe` | searches run side by side (`BatchSearchAsync`) |
| plan building (`agent/intent/TaskPlanBuilder.cs`, `EvidenceGate`, `RuntimeDependencyScanner`, `ClarificationBatch`) | none | pure functions from texts to plans | gives the executor its plans |
| plan runner (`agent/intent/PlanRunner.cs`) | results of nodes run ahead of the plan | `StartLocalFirst`, `RunAsync` | between a turn and the executor |
| recovery system (`agent.recovery`) | a stack of rollback points, an error history | `CreateRollbackPoint`, `RollbackToAsync` | constructed at start-up, called by nothing |
| model queue (`agent.modelqueue`) | channels, balances, failures | choice and change of a channel, retries | every call of a model |
| sub-agents, sessions, skills | a bounded pool; JSON files; a life cycle of skills | acquire/release; load/save; transitions | the agent's turns |

What is hard in these parts: tasks of a shard that share dictionaries and a run
object, waits that one task opens and another closes, early ends in the middle
of a shard, state read before an `await` and used after it, processes that die
between the file and the index, two sessions over one index, two authors of one
file, several searches over one slot order. The 40 entries under `hazards` in `PROJECT.json` give each
with its line, and the property that would catch it, or why none does.

What makes each part correct, in a sentence:

* executor - every node is run at most once, on inputs that exist, in an order
  the plan allows; whatever waits is booked, woken or ended; the saved states
  never claim what did not happen;
* resumption - the second turn goes on exactly where the first one stopped;
* orchestrator - "completed" means that the node has worked, and in its scope;
* staging - nothing of the user's, or of another batch, is replaced unawares, and
  "approved" means written;
* file service - no edit is lost: what a write replaces is what it was made from,
  both edits survive a merge, and what is replaced can be restored;
* search - a provider that fails is avoided, one that works is used, none is lost.

## 2. Plan of the development

The order of work, by importance; each composition rests on what is above it.

1. `PlanScheduler` - the executor; `MCPlanScheduler` with families of plans.
2. `PlanContract` and `PlanRefinement` - what the executor promises, and the
   refinement mapping.
3. `PlanResume` - turns and crashes over the executor.
4. `ListLemmas`, `PlanSchedulerProofs`, `PlanOutcomeProofs` - the inductive
   invariants, the safety properties, the refinement, for every plan.
5. `MCPlanClaims`, `MCResumeClaims` - statements of comments and tests that the
   code refutes.
6. `Orchestrator` - composed with the executor.
7. `Staging` - sessions, users and crashes over staged batches.
8. `SearchFailover` - concurrent searches over the slots.
9. `LineMerge` and `FileService` - edits of files, their merge and backups.
10. `PlanResumeProofs`, `OrchestratorProofs`, `StagingProofs`,
    `FileServiceProofs`, `SearchFailoverProofs` - the other properties, for all
    values of the constants.

All of it is done. What remains of the repository is listed with its reasons in
section 6; the candidates for more are the levels and scopes computed by
`TaskPlanBuilder` (pure functions of texts) and, should the program begin to call
them, the rollback stack and the pool of sub-agents.

## 3. The modules

### PlanScheduler

One execution of one plan. A *node* is its position in the list `order` (level,
then order of the plan), so `SkipRemaining` is a statement about numbers. The
variables are the fields and locals of `ExecuteAsync`: `st` is `run.NodeStates`,
`waitOn`/`waitOpen` are the records of `run.Waits` and whether they have an
`EndedUs`, `deps` is `RuntimeDeps`, `deferred` is the local list in its order,
`pc`/`lvl`/`todo`/`ready`/`drainq`/`final` say where the method stands, `task`,
`attempt`, `reinj` and `stop` are the tasks of the shard that is awaited, `ckpt`
is what `SaveCheckpoint` wrote last.

A step goes from one `await` to the next. Before a shard is started and after
it is joined the method is alone, so preparation and draining proceed node by
node. In between, each task of the shard is an actor:
`StartNode`/`BlockNode`, `RunnerSettles`, `RunnerRetries`, `BackoffEnds`,
`RunnerFails`, `RunnerCancelled`, `NeedReady`/`NeedInject`/`NeedRepeated`,
`NeedWait`. `Task.WhenAll` is `AllReturned`. The body of a task between two
awaits is one step. Tasks start one by one, so that a runner that does not
suspend before it returns is covered as well. Two tasks may be at such steps at the
same time on two threads; the dictionary of the states has no lock. For most steps
that makes no difference, because a task writes its own entry. The exception is the
walk of `SkipRemaining` (`TaskPlanExecutor.cs:677-690`), which tests and writes the
entries of other nodes one by one, against the comment at line 312 ("不碰其他节点").
It is one step here: a sibling that starts or ends in the middle of it is not seen.

What is a free choice: what the runner returns, when a node needs another one
(`plan.needs`), whether questions are answered, whether the time limit of a wait
is over, whether a cancel instruction came. What a plan may look like is
`PlanType` and `WellFormed`, which say what `TaskPlanBuilder` and
`RuntimeDependencyScanner.FindProducer` guarantee. The length of times, the texts
of reasons, preferences, telemetry and the prompts are left out.

### PlanContract, PlanRefinement

The promise made to the callers: work begins only when what it reads from is
done, done work is not begun again, nothing is being worked on when the call has
returned. Under the mapping `Running -> busy`, `Completed -> done`, else `open`,
`PlanScheduler` implements it. Release of a node that failed or waits is the only
way back, so "a node runs twice" and "returns while a task runs" are both
excluded.

### PlanResume

Turns of a session. `MessageStartsPlan`, `MessageVoidsCheckpoint` and
`MessageResumes` are `TryResumePausedPlanAsync` up to the call of the executor:
the checkpoint is loaded, the reply applied or the checkpoint cleared, and the
run rebuilt as in lines 96-117 of `ExecuteAsync` (`Seeded` in `PlanScheduler`). `Execute` is a step
of `PlanScheduler` with its effect on the outputs held by the turn.
`EndFreshTurn` and `EndResumedTurn` are what follows the call. `Crash` ends a
turn anywhere; only the store survives. The checkpoint is moved into place, so
writing it is one step. `effects`, `answered` and `dropped` are history.

### Orchestrator

`PlanScheduler` with the runner taken apart. `BeginCall` takes the snapshot and
starts the attempt, `Write` is any change a node makes to any file of the
workspace, the `Attempt...` actions are the second snapshot with `EnforceScope`
and the escalation loop, `Result` hands the outcome to the executor. Files are
stamped with the number of their last write (the code compares length and time,
which change with every write the model makes). The upstream dictionary is the
set of the nodes whose output it holds. A snapshot is whole: the partial one that an
I/O error under way leaves (`TaskOrchestrator.cs:426-432`) is left out.

`RunAsync` may be given a `seedRun`, the run of an earlier turn: `OrchInit` is `Init`
of the executor or `Resumed`, which takes over the states (`Seeded`), the wait records
and the injected dependencies of any run in `Seeds` that an execution of the plan can
have left (`LeftBehind`). Either way `upstream` begins empty, as in line 208, and the
workspace as it is (`Workspaces`). `earlier` is history: the nodes that completed
before this run. No output of theirs is at hand, so the properties about outputs and
artifacts of this run are not about them, and `ResumedInputsHeld`, which is, fails
(section 7).

### Staging

A session is a process with a store of its own. `mem[s]` is its `_batches`,
`index` is `index.json`, which `SaveIndex` overwrites as a whole. `Apply` is one
action per statement that another process can get in between: reading the
content (`TakeItem`), the lock (`TryAcquire`, `LockTimeout`), the first look at
the file (`ReadExisting`), the comparison (`Compare`), the write
(`WriteAllText`, `WriteFails`), the end (`FinishApply`). A text is named by the
batch that staged it; equal texts stand for equal hashes. The new temporary file
of `AtomicFileWriter` is not seen by others, so a write is one step. The
directory's locks are advisory and dropped by the system when a process dies
(`Crash`), as the comments in `FileLock.cs` say. `/cleanup` and the test of
`/reject` build a store from the index, and are modelled by reading `index`.
`CreateBatch` is called by tests only at present; it is modelled as the source of
batches.

### LineMerge, FileService

`LineMerge` is `ThreeWayLineMerge`: the anchors of a longest common subsequence
by its table (`CommonLength`, `Anchors`), the hunks of each side between them
(`Gap`, `Hunks`), their clusters, and the text put together from them (`Joined`).
Which of two hunks of one stretch comes first is left open by the code's sort, so
`Sorted` is every order it may leave, and `Merges` a set of results. The clusters,
which the code builds in a loop, are named by their first hunk: `Heads` gives each
hunk the position of the one at which its cluster begins. A text is the sequence
of its lines, and so is its hash.

`FileService` takes `ApplyAsync`, `Restore`, `Ensure` and `Prune` apart at the
points where someone else can come in. `at[c]` is where the call of a client
stands: `check` (look at the file, decide, merge), `verify` (the second look),
`backup`, `prune` (the index is read without the lock), `drop` (it is written
back under it, blobs are deleted; an `IOException` at a blob leaves it, an
`UnauthorizedAccessException` ends the call: `Drop`, `DropDenied`), `put` (a restore), `move` (the new text
replaces the file). `gate` is the semaphore of a path. The user changes files
without a gate. `Fault` bounds the failures: a backup that fails before or after
its blob is written, an index that cannot be read or written, blobs that cannot
be deleted, a file that cannot be replaced, the end of the process. What may
happen in a behaviour (files, options, texts, calls) is a *scenario*, a constant;
the proofs are for any scenarios. `raced` and `stale` are history: the user has
changed the file after the second look; a prune has written back an index that
was outdated. So is `revived`: the records that such a prune has brought back after
another one had removed them.

### SearchFailover

Each search is an actor that goes along its copy of the slots. A call that fails
is recorded in two steps (read and write of `ConsecutiveFailures`, which no lock
protects), the circuit is tested again in another one without the lock
(`StaysClosed`, `Trips`), and the promotion is one step under the lock (`Promote`),
which does not test the failed provider again: between the two another search can
close its circuit or bring it back to the first slot, or its cooldown can end. `Copy`/`BeginWrite`/`EndWrite` save the order: the file is
cut short while it is written, and a second writer at that time fails.
`Restart` loads what is there (`LoadSlotState`: the order in the file, then every
provider it does not name, by priority; `Default` if there is none that can be
read). A circuit is `closed` (no `OpenedAt`), `open`
(within the cooldown) or `cooled` (past it). `stranded` (open primaries that no backup
could replace), `due` and `booted` are history.

### The proof modules

`PlanSchedulerProofs` and `PlanOutcomeProofs` are about `PlanScheduler`, the second
about its refinement of `PlanContract` too; `PlanResumeProofs`,
`OrchestratorProofs`, `StagingProofs`, `FileServiceProofs` and
`SearchFailoverProofs` extend the module they are named after. `ListLemmas` holds
what they need of lists, of recursive functions and of induction. There are eight
modules with proofs. The inductive invariants (`IInv`, `OutcomeInv`, `ResumeInv`,
`OrchInv`) are defined at the end of the modules they are about.

## 4. The runs

| run | instance | question | states |
|---|---|---|---|
| `executor` | every plan of three nodes: all levellings, dependencies on one node or all of the level below, every choice of one producer per text, the last node sensitive or not, at most one unclear node, the second refuted by the formal gate or not, one retry, two tasks at a time; and plans whose nodes find out while they run that they need one another or themselves, one or two tasks at a time; cancel instructions, prompts | the safety of the executor in every interleaving, the inductive invariant of the proofs, the refinement of `PlanContract`, termination | 171 611 |
| `resume` | plans of two nodes, any producers, a sensitive and any unclear nodes, one node without output; three messages, one crash; no cancel callback, as in production | what two turns of one plan owe each other | 209 277 |
| `orchestrator` | two nodes with a file each as scope, one local, one remote, side by side or in sequence, with a producer or not, refuted or not, retried or not; fresh or resumed from one of four earlier runs; the workspace empty or not; three writes; budgets 20 -> 32, two escalations | what `EnforceScope` is worth when nodes share a workspace | 654 847 |
| `staging` | two sessions, two files, a batch of two files or two of one, four commands, one edit, crash or failure | approvals that race, crash, conflict and expire | 432 906 |
| `files` | two authors that edit texts of up to three lines as they like; two authors that save and restore in all ways, with the user and a fault in between; two files with one store of backups | lost updates, lost backups, calls that do not return | 174 857 |
| `search` | three providers, one of which needs a key; two searches at a time, three in all; threshold 2; one restart | concurrent failures and promotions | 863 422 |
| `serial_throws`, `midrun_cycle`, `resume_repeats`, `scope_blames_innocent`, `staged_batch_lost`, `failing_stays_closed` | as small as shows it | one statement each of a comment, doc or test that the code refutes (section 7) | |

### Properties

Executor (`executor`): `IInv`, which contains the type invariant `TypeOK`;
`InputsProduced` (a node that runs has its declared and its injected producers
completed); `TasksJoined` (nothing runs after the return); `WaitLedger` (a record
is open exactly while its node waits); `DeferredExact` (the waiting nodes are
those of `deferred` or of the shard being joined, each once);
`DeclaredWaitsAcyclic` (no nodes wait for each other, as long as all needs are
declared; `WaitsAcyclic` without that condition is refuted); `DependenciesVisited`;
`FinishedCleanly` (a finished plan without a failure has no node left waiting or
pending); `SensitiveNeverRuns`; `PauseHasCause`; `CheckpointNeverAhead`,
`CheckpointComplete`; the action properties `CompletedForever` and
`FailureStopsStarts`; the refinement `ImplementsContract`; the liveness property
`Terminates`.

Resumption (`resume`): `EffectsOnce` (over all the turns of a plan no node
completes twice, as long as each resumed turn replaced or cleared its
checkpoint; `NeverRunTwice` is the statement without that condition, refuted),
`OutputsHeld`, `NotAskedTwice`, and `DeferredExact` again, now from the states
a resumption begins with.

Orchestrator (`orchestrator`): `OutOfScopeCaught` (what a completed node wrote
outside of its scope in the call that completed it has been overwritten or
undone), `GreenPlanIsReal` (in a plan with all nodes completed each that did so in
this run has touched its scope, unless another node has put a file there that it deleted again, or that it
made in an attempt that was retried), `BlameEndsPlan` (a violation that stays on record is
one of a node that did not complete, and the plan ends with its shard),
`UpstreamHeld` (a node at work holds the output of each node it depends on that
completed in this run), `PlanEnds`.

Staging (`staging`): `BuiltOnWhatItReplaces` (a batch replaces the text of a
batch only if it was staged on top of it), `ApprovedMeansWritten`,
`ReclaimedOnlyOld`; its `TypeOK` also says that a lock is held exactly while an
`Apply` is at its file.

Files (`files`): `CheckedIsReplaced` (the file a write replaces is the one its text
was made from; only who comes after the second look and has not asked is
overwritten), `BothEditsSurvive` (what lands holds the lines the author has put in
and those others have since, in their order), `RecordsHaveBlobs` (each record can
be restored, after any failure, except those that a prune with an outdated index
brought back, of which there are none while one file is in use), `BackupAtHand` (what
a write replaces can be restored, unless an equal older backup took its record away;
nothing is said once a prune, of this file or of another, has written back an
outdated index, which can lose the record), `Returns`.

Search (`search`): `OpenPrimaryIsReplaced` (while the circuit of the primary is open
a search is on its way to replace it, or there was no backup to put in its place),
`UnavailableIsHonest` (a search that
says nothing is available has tried each provider that was usable all the
time); its `TypeOK` also says that no provider loses its slot or has two.

### Bounds

* Three nodes give levels of width one to three, a chain of two waits, a shard
  of two with a third node left over, and a producer below, beside and above its
  consumer. Two nodes are enough where needs found at run time, turns or files
  multiply the states: mutual needs, self needs and a producer on either side
  occur. One retry makes both the retried and the exhausted failure occur.
* In the plans with needs found at run time at most one text names a producer
  and two nodes have needs: longer chains repeat the same steps.
* `MaxMessages = 3`: a plan that is started, resumed and resumed again.
  `MaxCrashes = 1`: before, in or after a resumed turn.
* `MaxWrites = 4` with two files, where 1 is the stamp of what was there at the
  start: three writes, so that a node can write in its scope and in the other's, and
  undo it. `Seeds`: a node under way, waiting, skipped by a cancellation, and skipped
  after a failure; `LeftBehind` picks those that fit the plan.
* Budgets 20 and 32 (`MaxNodeBudget`) reach the cap after one escalation, so a
  doubling without the cap would be seen.
* `MaxItems = 2`, `MaxCommands = 4`: two batches of one file each or one of two;
  create, create, approve, approve, or create, approve, die and approve again, or
  create, scan, clean up and one more. `MaxUpsets = 1`: one fault in each
  behaviour, of any kind at any point. With `MaxCommands = 5` (1.4 million states)
  the same properties hold.
* `MaxSearches = 3` with threshold 2: a circuit opens and a third search sees
  the new order; two of them test and promote in any order.
* `files`: three lines and three letters give two insertions at one place, an
  insertion next to a change, a deletion against a change and texts over
  `maxLines`; `keep` 1 or 2 makes a prune drop a record after two or three
  backups; one change of the user and one fault, at any point.
* Ages of a batch are counted in TTLs up to 2, after which nothing changes;
  counts of failures up to the threshold, likewise.

`staging` and `search` use symmetry: sessions, batches and searches are
interchangeable there, no constant tells them apart, and neither run checks
liveness. They and `files` stop when the bounds are used up, so deadlock is not checked in
them; in the other runs a returned call stutters explicitly, and any other stop
would be reported.

### Fairness

`executor` and `orchestrator` assume `WF(Next)`: the program goes on as long as
it can. Every await in the code ends: the runner returns, throws or is cancelled,
delays are bounded, and the thread pool runs what is ready. No fairness between
the tasks of a shard is assumed, and none is needed: every step of a task takes
it nearer to its end, and `Task.WhenAll` waits for all of them. In `Orchestrator`
a node writes at most `MaxWrites` files; a node that writes for ever would not
return to the executor either.

`files` assumes `WF(Step(c))` for each client: what runs inside a gate is synchronous
code that nothing stops, and `SemaphoreSlim` gives its waiters their turn. With
finitely many calls weak fairness of `Enter` is enough. Nothing is assumed of the
authors, the user and the faults. The other runs check safety alone.

### Mutants

Each property has a mutant: an operator next to the definition it changes
(`SkipRemainingAll`, `CreatesDirectCycle`, `SeededAfresh`, `FirstConfigured`, `NewOutOfScope`,
`TryAcquireAny`, `LoadSavedOnly`, `LeaveShut`, `DroppedNewest`, ...), a bug one could write in that place.
With it in place the property fails under the configuration of its run.

## 5. What is proved

By TLAPS, for all values of the constants (any number of nodes and plans,
messages and crashes, files and scopes, sessions and batches, clients and texts,
searches and providers) and for every schedule:

| module | theorem | statement |
|---|---|---|
| `PlanSchedulerProofs` | `Invariant` | `Spec => []IInv` |
| | `TypeCorrect`, `RealInputs`, `Ledger`, `Deferrals`, `Joined`, `Paused`, `SafeCheckpoint` | `TypeOK`, `InputsProduced`, `WaitLedger`, `DeferredExact`, `TasksJoined`, `PauseHasCause`, `CheckpointNeverAhead` |
| | `NeverRepeated` | `CompletedForever` |
| `PlanOutcomeProofs` | `Outcomes` | `Spec => [](IInv /\ OutcomeInv)` |
| | `Approved`, `Saved`, `Clean`, `Ordered`, `Stopped` | `SensitiveNeverRuns`, `CheckpointComplete`, `FinishedCleanly`, `DependenciesVisited`, `FailureStopsStarts` |
| | `Acyclic` | `DeclaredWaitsAcyclic` |
| | `Refinement` | `Spec => ImplementsContract` |
| `PlanResumeProofs` | `Resumed` | `ResumeSpec => []ResumeInv` |
| | `ResumeTypes`, `ResumedDeferrals`, `Effects`, `Outputs`, `Answers` | `ResumeTypeOK`, `DeferredExact`, `EffectsOnce`, `OutputsHeld`, `NotAskedTwice` |
| `OrchestratorProofs` | `Composition`, `Contracted` | `Init /\ OrchSpec => Spec`, `Init /\ OrchSpec => ImplementsContract` |
| | `Orchestrated` | `OrchSpec => [](IInv /\ OrchInv)` |
| | `OrchTypes`, `ScopeEnforced`, `GreenIsReal`, `BlameIsFinal`, `OutputsAtHand` | `OrchTypeOK`, `OutOfScopeCaught`, `GreenPlanIsReal`, `BlameEndsPlan`, `UpstreamHeld` |
| `StagingProofs` | `Invariant` | `Spec => []IInv` |
| | `Types`, `Approved`, `OnTop`, `Reclaimed` | `TypeOK`, `ApprovedMeansWritten`, `BuiltOnWhatItReplaces`, `ReclaimedOnlyOld` |
| `FileServiceProofs` | `Invariant` | `Spec => []IInv` |
| | `Types`, `Replaced`, `Restorable`, `AtHand` | `TypeOK`, `CheckedIsReplaced`, `RecordsHaveBlobs`, `BackupAtHand` |
| | `NoLostUpdate` | `BothEditsSurvive` |
| `SearchFailoverProofs` | `Invariant` | `Spec => []IInv` |
| | `Slots`, `Replaced`, `Honest` | `TypeOK`, `OpenPrimaryIsReplaced`, `UnavailableIsHonest` |

The assumptions are those the modules name: there is a node, plans have the type
`PlanType` and are `WellFormed`, options are Boolean; bounds are natural numbers
and, where the argument needs it, positive; the values that stand for "no file" or
"no text" are not texts; scenarios have their type. TLC evaluates them in every run.

*Executor.* None of the safety properties is inductive as it stands.
`InputsProduced` speaks of nodes that run; to know that a producer has completed
when its consumer starts one must know it of the nodes that are *committed*
(ready, new, running, backing off), hence `InputStates`. That it remains so needs
`CompletedForever` for the producer, which `SkipRemaining` and `ResolveDeferred`
could break if a deferred or queued node were completed: hence `QueuedStates` and
`DeferredStates`. That `deferred` and `drainq` agree with the states through a
drain that removes and appends entries needs that both are free of repetitions
(`IsInjective`) and that tasks and lists are disjoint; the lemmas about lists are
in `ListLemmas`. A node that is woken was waiting for its declared producer or
that producer has completed meanwhile: `WaitStates`. `PauseStates` says that a
pause is final. `WaitLedger` is cut in two: that what waits has an open record
(`WaitsRecorded`) is part of `IInv`; that an open record waits (`RecordsWait`) is
proved from it apart, because it does not hold of a resumed run, which begins with
records left open. The proof has one lemma per action and one step per conjunct
that the action can disturb.

*Outcomes.* `OutcomeInv` adds what is known of verdicts (`stop` has a cause, and a
failure is on record as one until the shard is joined: `VerdictStates`), of
sensitive nodes (they get no further than the head of their level:
`SensitiveStates`), of the checkpoint (`SavedStates`), of the levels that have been
left (`VisitedStates`) and of the end (`FinishStates`).

*Waits.* That no chain of wait records comes back is no invariant a step can be
seen to keep, for a chain is a recursive function of all the records.
`WaitsGrounded` says it without chains: some node of every set of nodes waits for
none of the set. A new record n -> p keeps it: were there a set that loses its only
such node, that node is n, everything p waits for stays in the set, and
`CreatesWaitCycle`, which walks the chain from p for as many steps as there are
nodes, had found n or had not come to an end.

*Refinement.* A step that does not change the set of running or completed nodes is
a stutter of the contract, `StartNode` begins work, `NeedInject` goes on with it, a
verdict completes or releases it, and `TasksJoined` makes each return a `Return`.

*Turns.* `ResumeInv` contains `IInv` as it is: a run rebuilt from any checkpoint
(`Seeded`) satisfies it, so what is proved of the executor from `IInv` holds in each turn.
`EffectsOnce` follows from what a checkpoint claims (`StoreStates`: all that has
had its effects, unless a turn left the older one behind) and from the fact that
`Execute` completes only nodes that had not completed (`CompletedForever`);
`Identities` says that plans of different messages are not taken for each other.

*Orchestrator.* Each of its steps is a step or a stutter of `PlanScheduler`, so a fresh
run is a behaviour of it (`Composition`) and the theorems of the executor hold. A
resumed run does not begin like one; but a run rebuilt from any earlier one satisfies
`IInv` (`ResumedIInv`), and so does all that follows (`Orchestrated`). `OrchInv` relates the
call of a node to its task (`CallStates`), the outputs at hand to the completed
nodes (`OutputsKept`), a verdict to the files as they were at the second snapshot
(`ScopesJudged`, `StampStates`), the record of violations to the state of the plan
(`BlameStates`), and says where the first write into a scope can have come from
(`CalledOnce`, `ArtifactsSeen`).

*Staging.* `KnownAreCreated` bounds what a store can have read, `ItemsAtHand` says
that the content of an unfinished batch exists, `MayBeReplaced` that an
`Apply` past its comparison holds the lock and found what it was staged on,
`ReclaimableIsOld` that a status which lets a batch be reclaimed has its age.

*Files.* `Turns` and `Courses` say who is inside and how far; `Lists` that records are
finite in number and older than the clock; `OneFile` that with one file in use no
prune can be outdated, so that nothing is brought back; `Revivals` that only an
outdated prune does that. A record that a prune writes back and that was in the index
keeps its blob, because the prune deletes only what nothing it writes back refers to:
`RecordsHaveBlobs`, for any number of files. `JustTaken` says that the backup of a write is the newest of its
file when it is pruned, from which it follows that the prune keeps it.

*Merge.* `NoLostUpdate` needs what a merge keeps, for texts of any length
(`MergeKeeps`): if it is without a conflict, the lines that a side has put in are
in the result, in their order. The steps are

1. the anchors increase in both texts (`AnchorsIncrease`), so the gaps between
   them, and with them the hunks of a side, follow one another;
2. sorted hunks of one side keep that order whatever the sort does with those of
   the same stretch, so the lines a side has put in are within its lines in all
   the hunks, `LinesOf` of all positions (`AddedWithin`);
3. the hunks of a cluster are next to each other (`HeadsRun`, `ClusterRun`), so the
   lines of a side in all the hunks are those of the clusters, one cluster after
   the other;
4. in a cluster a side has the lines that are chosen or none, for only one side is
   there or both put the same (`ClusterLines`), and what is chosen is at the end of
   the part of the result that belongs to the cluster (`PartEnds`);
5. so the lines of a side are within the parts joined together (`RunsSurvive`,
   `SideSurvives`), and "within" is transitive (`WithinTransitive`).

A write without a merge keeps the author's lines because they are part of the text
(`AddedInside`), and others have put in nothing if the file still is what the
author had seen: a text compared with itself has anchors at every line
(`AnchorsSame`, `AddedSame`). A second induction on top of `IInv` then carries this
from the first look at the file to the write: `Written`, `Indexes` and `TypeOK`
(together `Contents`) say that what is worked on is text, `Decided` that what was
decided on keeps both edits of what the first look saw. `CheckedIsReplaced` says
that the file still is that when it is replaced, unless the user changed it after
the second look.

*Search.* `OrdersInjective` says of each order in the file or on its way there what
`TypeOK` says of the slots, so that a restart loads a good one; `Courses` that what
is called is a provider. `OpenPrimaryIsReplaced` is inductive with them: a circuit opens
when a search has recorded a failure, and that search goes on to the test; a promotion
leaves a primary whose circuit is not open, or none could be found and the primary is
`stranded`; a search that leaves the test or the promotion has done one or the other.
`DueToCome` says that what
was usable all the time and has not been called is still to come in the copy the
search goes along, which at its end is empty: `Honest`.

*Recursive functions.* Where the code loops over data the model has a recursive
function, and the proofs need its equation and induction. The induction theorems of
the library are about predicates, which the provers cannot apply. `ListLemmas` has
them for sets and functions instead: `SetInduction` (a set that holds 0 and with
each number the next one holds all), `Recursion` (a function given by its first
value and its steps exists, and is the one) and `RankedRecursion` (the same, for a
function whose value at a place depends on places of lower rank, as in the anchors'
walk through two texts). A property to be proved by induction is made a set, the
steps of a definition a function.

Only model-checked:

* liveness (`Terminates`, `PlanEnds`, `Returns`), which is out of the prover's reach.

Every invariant and every other action property of the passing runs is stated by a
theorem. What TLC adds to these is that the states they speak of occur: every
action is taken in some run, and every property fails when its mutant is put in.

## 6. What is not modelled, and why

`PROJECT.json` lists every component. In short:

* whatever turns text into text (classification, the cutting of a message into a
  plan, prompts, recall, rendering), calls of native libraries and services, and
  hosting have little state that a model checker could tell apart. `WellFormed`
  states what the plan builder guarantees to the executor;
* the rollback stack (`agent.recovery`) and the pool of sub-agents are
  constructed and never called by the program;
* skills, sessions and the model queue have one writer and one step per call; what
  there is to them is numbers and formats;
* the results that `PlanRunner` caches ahead of the plan: their defects are among
  the hazards, and follow from a reading of the code without interleavings;
* the Python scripts of the repository (`eval`, research probes and reports) are
  measurements of language models run by hand, each a straight line from prompts
  to a table. They are not part of the program, keep no state and share
  nothing with it.

Inside of the modelled parts: the walk of `SkipRemaining` is one step, and a snapshot
of the workspace is whole (both in section 3); times are reduced to "over or not"; the damaged-file
branches of `TryLoad` are not distinguished from "no checkpoint"; collections that
the code shares between tasks without a lock (`_violations`, `_telemetry`, and the
enumeration of `upstream` for local nodes in `TaskOrchestrator`; the health records
of the search providers but for the failure count) are taken as atomic; the result
cache of the search is left out; an answer to a request for credentials either
configures the provider or declines it, and a service without a prompt service
behaves like one whose user declines. In the file service line endings are left
out, the snapshot and the text of a file are read in one look, and an index with
a torn last line (the code takes the records up to it) is not distinguished from
one that cannot be read. The service is offered through the plugin registry;
`docs/plans/RF0003-file-plugin-service.md`, section 5, puts off its use by the
product, so clients are any callers of its interface.

## 7. Where the code and its comments part

Six runs end in a violation; `findings` in `PROJECT.json` quotes the statements.

1. `serial_throws` - with `MaxParallelism = 1` and a level all of whose nodes
   wait, `ready[0]` is read from an empty list (`TaskPlanExecutor.cs:246-248`).
2. `midrun_cycle` - a need found at run time is booked without the cycle test
   (`TaskPlanExecutor.cs:416-428`): two nodes wait for each other. The last drain
   fails them, but as "not produced", and only at the end of the plan.
3. `resume_repeats` - a resumed run that ends neither finished nor with a
   question leaves the old checkpoint; the next message runs the completed nodes
   again (`IndustrialAgentV2.Plan.cs:111-114`).
4. `scope_blames_innocent` - two nodes of a shard with disjoint scopes: the files
   of one count as changes of the other (`TaskOrchestrator.cs:294`).
5. `staged_batch_lost` - a store writes the whole index from what it read when it
   was made (`StagedFileStore.cs:198-231`): a batch staged in another session
   meanwhile is forgotten.
6. `failing_stays_closed` - `OpenedAt ??=` keeps the time of the first opening
   (`ProviderHealth.cs:54`): a provider that fails its trial after the cooldown
   is never opened again and never loses its slot.

Further statements are defined in the MC modules that TLC refutes as well, without a
run of their own. To see one, name it as the INVARIANT or PROPERTY of the
configuration given.

| definition | configuration, with | what happens |
|---|---|---|
| `FinishedRanAll` (`MCPlanClaims`) | `serial_throws.cfg` | with `MaxParallelism = 1` only `ready[0]` is run; the plan is Finished with Pending nodes |
| `NoDanglingWait` (`MCPlanClaims`) | `serial_throws.cfg`, `Plans <- StaticPlans` | `FailPlan` during preparation or a drain does not close the other deferred nodes |
| `CancelSkipsTheRest` (`MCPlanClaims`) | `serial_throws.cfg`, `Plans <- StaticPlans`, `Polls = TRUE` | the first node of the level stays Pending |
| `CheckpointFinal` (`MCPlanClaims`) | `serial_throws.cfg`, `Plans <- StaticPlans` | a level with one ready node that fails returns without a checkpoint |
| `DeclaredDependenciesCompleted` (`MCPlanClaims`) | `serial_throws.cfg`, `Plans <- StaticPlans` | a level is entered when a dependency awaits a clarification |
| `QuestionKept` (`MCResumeClaims`) | `resume_repeats.cfg` | a second open question is lost when the resumed run is Finished |
| `CancelledNotResumed`, `CancelNeverThrows` (`MCResumeClaims`) | `resume_repeats.cfg`, `CancelNeverThrows` with `Polls = TRUE` | a cancelled resumed run is resumed again; a cancel instruction at a level completed before reads `batch[0]` of an empty list |
| `LedgerCloses` (`MCResumeClaims`) | `resume_repeats.cfg` | the record of a node resumed before its drain is never closed |
| `ResumedInputsHeld` (`MCOrchestrator`) | `orchestrator.cfg` | `RunAsync` takes the states of a `seedRun` and none of its outputs (`TaskOrchestrator.cs:208`): a node of a resumed plan works without the output of the node it depends on, which line 102 promises to its runner and `TaskPlanExecutor.cs:104` takes to be there |
| `NothingOutsideStays` (`MCOrchestrator`) | `orchestrator.cfg` | a retry begins with a new snapshot, which hides what the failed attempt wrote outside: with two nodes side by side the plan is green for work that was done out of scope |
| `OnlyOnBaseline` (`MCStaging`) | `staging.cfg` | a file deleted or emptied by the user is written over without a comparison |
| `OnlyOpenIsDemoted` (`MCSearchFailover`) | `search.cfg` | a search finds the circuit of the primary open and, before it has the lock, another one closes it: the provider that has recovered is demoted |
| `AnswerTakesEffect`, `OrderIsSaved` (`MCSearchFailover`) | `search.cfg` | a provider configured at run time has no slot; an older order may be saved last |
| `BackupWheneverWritten` (`MCFileService`) | `files.cfg` | the contents that are replaced equal an older backup of the file: the prune that drops the old record drops the new one and the blob with it |
| `OnlyUnreferencedDeleted` (`MCFileService`) | `files.cfg` | two prunes at the same time: the later one writes an index it read before the other's backup or drop |

Seen while reading and not modelled: `500 * (1 << attempt)` overflows for very
large retry counts (`TaskPlanExecutor.cs:355`); of two verdicts of a shard the
last one to be written decides the state of the run, and nothing says which it
should be (`TaskPlanExecutor.cs:271`); results of nodes run ahead are
cached by id, so that a retry returns the old failure (`PlanRunner.cs:231`);
`order[req.SubTask.Order]` mixes two orders (`TaskPlanExecutor.cs:139`);
`NodeScopeFile.Overlaps` takes `src/a*` and `src/ab.txt` for disjoint
(`NodeScopeFile.cs:164`); expired batches never become reclaimable
(`StagedFileStore.cs:124`); a failed rollback puts its target on top of later
points (`RecoverySystem.cs:206`); the comment of the class `ThreeWayLineMerge` calls
insertions at the border of a change and adjacent changes conflicts, its
`Overlaps` merges them. (Modelled: a request of a client that saw no file is
unconditional, and overwrites one created since.)

## 8. Running

`tlc -config executor.cfg MCPlanRefinement` and so on (the module of each run is in
`PROJECT.json`); `tlapm PlanSchedulerProofs.tla`, and likewise for the other seven
modules of section 5 (`ListLemmas` included). The longest model check takes about two
minutes, the proofs a few minutes.
