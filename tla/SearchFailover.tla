---------------------------- MODULE SearchFailover ----------------------------
(***************************************************************************)
(* SearchFailoverService: search providers in an order of slots, slot 1    *)
(* being the primary.  A search tries the providers in the order it found; *)
(* a provider that keeps failing has its circuit opened for a while and,   *)
(* if it is the primary, changes places with a backup.                     *)
(*                                                                         *)
(* Searches run side by side (BatchSearchAsync).  The slots are read and   *)
(* changed under a lock; the health of the providers is not, and the order *)
(* is saved outside of the lock.                                           *)
(***************************************************************************)
EXTENDS Naturals, Sequences, FiniteSets, SequencesExt

CONSTANTS
    Provider,      \* the registered providers
    ByPriority,    \* Provider in the order of DefaultPriority
    Keyed,         \* providers that need a key or an endpoint from the user
    Search,        \* searches that may be under way at a time
    Threshold,     \* Options.FailureThreshold
    MaxSearches,   \* bound: searches begun
    MaxRestarts,   \* bound: restarts of the program
    None           \* no provider

ASSUME SearchAssumption ==
    /\ ByPriority \in Seq(Provider) /\ ToSet(ByPriority) = Provider /\ IsInjective(ByPriority)
    /\ Keyed \subseteq Provider
    /\ Threshold \in Nat \ {0}
    /\ MaxSearches \in Nat /\ MaxRestarts \in Nat
    /\ None \notin Provider

VARIABLES
    slots,       \* _slotOrder
    fails,       \* ConsecutiveFailures, as far as the threshold
    circuit,     \* OpenedAt: null, within the cooldown, or past it
    configured,  \* providers that have what they need
    declined,    \* _credentialDeclined
    task,        \* the search of each id
    disk,        \* search_slots.json
    searches, restarts,
    booted,      \* history: what was configured when the program started
    stranded,    \* history: open primaries no backup could replace
    due          \* history: providers usable since the search took its order

health == <<fails, circuit>>
vars == <<slots, fails, circuit, configured, declined, task, disk, searches, restarts,
          booted, stranded, due>>

Torn == <<None>>   \* a file that was cut short
Missing == <<>>

Step == {"idle", "ask", "asking", "walk", "call", "record", "check", "promote", "save", "write",
         "writing"}
Idle == [step |-> "idle", todo |-> <<>>, cur |-> None, seen |-> 0, order |-> <<>>, found |-> FALSE]

At(s, step) == task[s].step = step
Goes(s, step) == task' = [task EXCEPT ![s].step = step]
Usable(p) == p \in configured /\ circuit[p] # "open"

-----------------------------------------------------------------------------
\* SearchAsync.

\* The result was not in the cache.
Begin(s) ==
    /\ At(s, "idle") /\ searches < MaxSearches
    /\ searches' = searches + 1
    /\ Goes(s, "ask")
    /\ UNCHANGED <<slots, health, configured, declined, disk, restarts>>

\* EnsureProvidersConfigured: the user is asked for what is missing, once.
Ask(s, p) ==
    /\ At(s, "ask") /\ p \in Keyed \ (configured \cup declined)
    /\ task' = [task EXCEPT ![s].step = "asking", ![s].cur = p]
    /\ UNCHANGED <<slots, health, configured, declined, disk, searches, restarts>>

Answered(s) ==
    /\ At(s, "asking")
    /\ \/ configured' = configured \cup {task[s].cur} /\ UNCHANGED declined
       \/ declined' = declined \cup {task[s].cur} /\ UNCHANGED configured
    /\ Goes(s, "ask")
    /\ UNCHANGED <<slots, health, disk, searches, restarts>>

TakeOrder(s) ==
    /\ At(s, "ask") /\ Keyed \subseteq configured \cup declined
    /\ task' = [task EXCEPT ![s].step = "walk", ![s].todo = slots, ![s].cur = None]
    /\ UNCHANGED <<slots, health, configured, declined, disk, searches, restarts>>

\* Mutant of Rest: the search follows the slots as they are by now.
RestOfLive(s) ==
    LET left == Len(task[s].todo) - 1 IN
    SubSeq(slots, Len(slots) - left + 1, Len(slots))

\* What is left of the order the search took.
Rest(s) == Tail(task[s].todo)

\* A provider without a key or with an open circuit is passed over.
Walk(s) ==
    /\ At(s, "walk") /\ task[s].todo # <<>>
    /\ LET p == Head(task[s].todo) IN
       task' = [task EXCEPT ![s].step = IF Usable(p) THEN "call" ELSE "walk",
                            ![s].cur = p, ![s].todo = Rest(s)]
    /\ UNCHANGED <<slots, health, configured, declined, disk, searches, restarts>>

\* "Search Unavailable": no provider is left.
GiveUp(s) ==
    /\ At(s, "walk") /\ task[s].todo = <<>>
    /\ task' = [task EXCEPT ![s] = Idle]
    /\ UNCHANGED <<slots, health, configured, declined, disk, searches, restarts>>

\* The provider answers: RecordSuccess.
CallSucceeds(s) ==
    /\ At(s, "call")
    /\ fails' = [fails EXCEPT ![task[s].cur] = 0]
    /\ circuit' = [circuit EXCEPT ![task[s].cur] = "closed"]
    /\ task' = [task EXCEPT ![s].step = "save", ![s].found = TRUE]
    /\ UNCHANGED <<slots, configured, declined, disk, searches, restarts>>

\* It fails or takes too long.  RecordFailure reads the count ...
CallFails(s) ==
    /\ At(s, "call")
    /\ task' = [task EXCEPT ![s].step = "record", ![s].seen = fails[task[s].cur]]
    /\ UNCHANGED <<slots, health, configured, declined, disk, searches, restarts>>

\* ... and writes it back; another search may have written it in between.
RecordFailure(s) ==
    LET p == task[s].cur
        count == IF task[s].seen < Threshold THEN task[s].seen + 1 ELSE Threshold IN
    /\ At(s, "record")
    /\ fails' = [fails EXCEPT ![p] = count]
    /\ circuit' = IF count >= Threshold /\ circuit[p] = "closed"
                  THEN [circuit EXCEPT ![p] = "open"] ELSE circuit
    /\ Goes(s, "check")
    /\ UNCHANGED <<slots, configured, declined, disk, searches, restarts>>

\* The caller has cancelled: not a failure of the provider.
Cancelled(s) ==
    /\ task[s].step \in {"asking", "call"}
    /\ task' = [task EXCEPT ![s] = Idle]
    /\ UNCHANGED <<slots, health, configured, declined, disk, searches, restarts>>

\* IsCircuitOpen is read again, by now perhaps as another search left it.
StaysClosed(s) ==
    /\ At(s, "check") /\ circuit[task[s].cur] # "open"
    /\ Goes(s, "walk")
    /\ UNCHANGED <<slots, health, configured, declined, disk, searches, restarts>>

\* An open circuit asks for a promotion, which has yet to take the lock: meanwhile
\* another search may close the circuit, or promote a backup itself.
Trips(s) ==
    /\ At(s, "check") /\ circuit[task[s].cur] = "open"
    /\ Goes(s, "promote")
    /\ UNCHANGED <<slots, health, configured, declined, disk, searches, restarts>>

IsPrimary(p) == slots # <<>> /\ Head(slots) = p

\* Mutant of FirstUsable: the circuit of a backup is not looked at.
FirstConfigured ==
    LET able == {i \in 2..Len(slots) : slots[i] \in configured} IN
    IF able = {} THEN 0 ELSE CHOOSE i \in able : \A j \in able : i <= j

\* The first backup that can be used, 0 if there is none.
FirstUsable ==
    LET able == {i \in 2..Len(slots) : Usable(slots[i])} IN
    IF able = {} THEN 0 ELSE CHOOSE i \in able : \A j \in able : i <= j

\* The backup in slot i becomes the primary, the primary goes to the end.
Reordered(i) == <<slots[i]>> \o Tail(RemoveAt(slots, i)) \o <<Head(slots)>>

\* PromoteNextAvailable, under the lock.  The circuit that asked for it is not
\* looked at again.
Promote(s) ==
    /\ At(s, "promote")
    /\ slots' = IF IsPrimary(task[s].cur) /\ FirstUsable > 0 THEN Reordered(FirstUsable) ELSE slots
    /\ Goes(s, "save")
    /\ UNCHANGED <<health, configured, declined, disk, searches, restarts>>

\* PersistSlotStateSafe: the order is copied under the lock ...
Copy(s) ==
    /\ At(s, "save")
    /\ task' = [task EXCEPT ![s].step = "write", ![s].order = slots]
    /\ UNCHANGED <<slots, health, configured, declined, disk, searches, restarts>>

Saved(s) == IF task[s].found THEN Idle ELSE [task[s] EXCEPT !.step = "walk", !.order = <<>>]

\* ... and written outside of it, unless the file is being written already.
BeginWrite(s) ==
    /\ At(s, "write")
    /\ IF \E t \in Search : At(t, "writing")
       THEN task' = [task EXCEPT ![s] = Saved(s)] /\ UNCHANGED disk
       ELSE Goes(s, "writing") /\ disk' = Torn
    /\ UNCHANGED <<slots, health, configured, declined, searches, restarts>>

EndWrite(s) ==
    /\ At(s, "writing")
    /\ disk' = task[s].order
    /\ task' = [task EXCEPT ![s] = Saved(s)]
    /\ UNCHANGED <<slots, health, configured, declined, searches, restarts>>

SearchStep(s) ==
    \/ \E p \in Provider : Ask(s, p)
    \/ Answered(s) \/ TakeOrder(s) \/ Walk(s) \/ GiveUp(s)
    \/ CallSucceeds(s) \/ CallFails(s) \/ RecordFailure(s) \/ Cancelled(s)
    \/ StaysClosed(s) \/ Trips(s) \/ Promote(s)
    \/ Copy(s) \/ BeginWrite(s) \/ EndWrite(s)

-----------------------------------------------------------------------------
\* CircuitCooldown has gone by: the circuit is half open.
Cooldown(p) ==
    /\ circuit[p] = "open"
    /\ circuit' = [circuit EXCEPT ![p] = "cooled"]
    /\ UNCHANGED <<slots, fails, configured, declined, task, disk, searches, restarts>>

\* The default order: the providers of c (what is configured) by priority.
Default(c) ==
    LET upto[i \in 0..Len(ByPriority)] ==
            IF i = 0 THEN <<>>
            ELSE IF ByPriority[i] \in c THEN Append(upto[i - 1], ByPriority[i])
            ELSE upto[i - 1]
    IN  upto[Len(ByPriority)]

\* Mutant of LoadSlotState: the providers the file does not name are left out.
LoadSavedOnly(c) == IF disk \in {Missing, Torn} THEN Default(c) ELSE disk

\* LoadSlotState: the order that was saved, and every other provider after it; the
\* default order if there is no file or it cannot be read.
LoadSlotState(c) ==
    IF disk \in {Missing, Torn} THEN Default(c)
    ELSE disk \o Default(Provider \ ToSet(disk))

\* The program is started again, with whatever keys it is given now; what the
\* user has answered was kept.
Restart ==
    /\ restarts < MaxRestarts
    /\ restarts' = restarts + 1
    /\ \E c \in SUBSET Provider :
        /\ configured \cup (Provider \ Keyed) \subseteq c
        /\ configured' = c
        /\ slots' = LoadSlotState(c)
    /\ fails' = [p \in Provider |-> 0]
    /\ circuit' = [p \in Provider |-> "closed"]
    /\ declined' = {}
    /\ task' = [s \in Search |-> Idle]
    /\ UNCHANGED <<disk, searches>>

\* A promotion finds its provider in the first slot and leaves it there.
LeftInPlace(s) ==
    /\ At(s, "promote") /\ task'[s].step = "save"
    /\ IsPrimary(task[s].cur) /\ slots' = slots

\* The history variables.
Observe ==
    /\ booted' = IF restarts' # restarts THEN configured' ELSE booted
    /\ stranded' = {p \in stranded \cup {task[s].cur : s \in {t \in Search : LeftInPlace(t)}} :
                        circuit'[p] = "open" /\ restarts' = restarts}
    /\ due' = [s \in Search |->
                IF task'[s].step # "idle" /\ At(s, "ask") /\ task'[s].step = "walk"
                THEN {p \in ToSet(slots) : Usable(p)}
                ELSE {p \in due[s] : Usable(p)' /\ task'[s].step # "idle"
                                       /\ ~(task'[s].step = "call" /\ task'[s].cur = p)}]

Init ==
    /\ configured \in {c \in SUBSET Provider : Provider \ Keyed \subseteq c}
    /\ slots = Default(configured)
    /\ fails = [p \in Provider |-> 0]
    /\ circuit = [p \in Provider |-> "closed"]
    /\ declined = {}
    /\ task = [s \in Search |-> Idle]
    /\ disk = Missing
    /\ searches = 0 /\ restarts = 0
    /\ booted = configured
    /\ stranded = {}
    /\ due = [s \in Search |-> {}]

Next ==
    /\ \/ \E s \in Search : Begin(s) \/ SearchStep(s)
       \/ \E p \in Provider : Cooldown(p)
       \/ Restart
    /\ Observe

Spec == Init /\ [][Next]_vars

-----------------------------------------------------------------------------
\* Properties.

\* The types; no provider has two slots, and none that was configured when the
\* program started is without one.
TypeOK ==
    /\ slots \in Seq(Provider) /\ IsInjective(slots)
    /\ booted \subseteq ToSet(slots)
    /\ fails \in [Provider -> 0..Threshold]
    /\ circuit \in [Provider -> {"closed", "open", "cooled"}]
    /\ configured \subseteq Provider /\ declined \subseteq Keyed
    /\ task \in [Search -> [step: Step, todo: Seq(Provider), cur: Provider \cup {None},
                            seen: 0..Threshold, order: Seq(Provider), found: BOOLEAN]]
    /\ disk = Torn \/ disk \in Seq(Provider)
    /\ searches \in 0..MaxSearches /\ restarts \in 0..MaxRestarts

\* Rule 3: a primary whose circuit is open is replaced.  However the failures and
\* promotions of several searches fall, either the search that will replace it is
\* on its way, or there was no backup to take its place.
OpenPrimaryIsReplaced ==
    slots # <<>> /\ circuit[Head(slots)] = "open" =>
        \/ Head(slots) \in stranded
        \/ \E s \in Search : task[s].step \in {"check", "promote"} /\ task[s].cur = Head(slots)

\* Rule 2: a search tries the providers in turn.  When it reports that search is
\* unavailable it has tried every provider that could be used all the time it
\* went along the slots, whatever other searches did to their order.
UnavailableIsHonest ==
    [][\A s \in Search : At(s, "walk") /\ task[s].todo = <<>> /\ task'[s] = Idle
          /\ restarts' = restarts => due[s] = {}]_vars

-----------------------------------------------------------------------------
\* The inductive invariant behind these properties (SearchFailoverProofs).

\* No order that is on disk, or on its way there, has a provider twice.
OrdersInjective ==
    /\ disk # Torn => IsInjective(disk)
    /\ \A s \in Search : IsInjective(task[s].order)

\* A search that asks, calls or has failed has a provider.
Courses ==
    \A s \in Search :
        /\ At(s, "asking") => task[s].cur \in Keyed
        /\ task[s].step \in {"call", "record", "check", "promote"} => task[s].cur \in Provider

\* What was usable all the time and has not been called is still to come.
DueToCome ==
    \A s \in Search :
        IF task[s].step \in {"idle", "ask", "asking"} THEN due[s] = {}
        ELSE due[s] \subseteq ToSet(task[s].todo)

IInv ==
    /\ TypeOK
    /\ OrdersInjective
    /\ Courses
    /\ OpenPrimaryIsReplaced
    /\ DueToCome
===============================================================================
