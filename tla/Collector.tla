------------------------------ MODULE Collector ------------------------------
(***************************************************************************)
(* The Archivematica collector (archivematica.py): a timer starts it again *)
(* and again; each time it asks the Storage Service for the completed AIPs,*)
(* publishes a signed receipt for each that has no baseline event, and     *)
(* runs the registration job on the published receipt.                     *)
(*                                                                         *)
(* The registration job is taken at its word: module AutoBaseline is where *)
(* it is modelled, and its registry behaves as SealedRegistry, so an entry *)
(* of the registry is here one value that is set once.                     *)
(***************************************************************************)
EXTENDS Integers, FiniteSets

CONSTANTS
    Packages,    \* AIPs the query selects; one event, one path each
    Versions,    \* what the Storage Service may say of a package when complete
    Collectors,  \* processes of the collector
    None,        \* no receipt, no entry, no process
    Staging,     \* the package or one of its replicas is not complete
    ByHand,      \* the path was registered by the "baseline" command
    MaxCrashes   \* bound on the deaths of a collector that are explored

ASSUME CollectorAssumption ==
    /\ Versions \cap {None, Staging, ByHand} = {}
    /\ None \notin Packages \cup Collectors
    /\ MaxCrashes \in Nat

VARIABLES
    record,   \* the Storage Service's record of each package
    sound,    \* the local file and every replica answer as the record says
    inbox,    \* the receipt file of each package's event
    entry,    \* the registry's entry for each package's path
    lock,     \* who holds archivematica.lock
    pc,       \* the next step of each process
    todo,     \* the packages it has still to visit
    current,  \* the package it is visiting
    raw,      \* the receipt it has built
    known,    \* already_registered, as its job has read it
    failed,   \* summary["failed"] is not zero
    crashes   \* how many processes have died

env == <<record, sound>>
store == <<inbox, entry>>
process == <<todo, current, raw, known, failed>>
vars == <<env, store, lock, pc, process, crashes>>

TypeOK ==
    /\ record \in [Packages -> Versions \cup {Staging}]
    /\ sound \in [Packages -> BOOLEAN]
    /\ inbox \in [Packages -> Versions \cup {None}]
    /\ entry \in [Packages -> Versions \cup {None, ByHand}]
    /\ lock \in Collectors \cup {None}
    /\ pc \in [Collectors ->
          {"off", "visit", "build", "publish", "load", "commit"}]
    /\ todo \in [Collectors -> SUBSET Packages]
    /\ current \in [Collectors -> Packages \cup {None}]
    /\ raw \in [Collectors -> Versions \cup {None}]
    /\ known \in [Collectors -> BOOLEAN]
    /\ failed \in [Collectors -> BOOLEAN]
    /\ crashes \in 0..MaxCrashes

Init ==
    /\ record = [p \in Packages |-> Staging]
    /\ sound = [p \in Packages |-> FALSE]
    /\ inbox = [p \in Packages |-> None]
    /\ entry = [p \in Packages |-> None]
    /\ lock = None
    /\ pc = [c \in Collectors |-> "off"]
    /\ todo = [c \in Collectors |-> {}]
    /\ current = [c \in Collectors |-> None]
    /\ raw = [c \in Collectors |-> None]
    /\ known = [c \in Collectors |-> FALSE]
    /\ failed = [c \in Collectors |-> FALSE]
    /\ crashes = 0

GoTo(c, from, to) == pc[c] = from /\ pc' = [pc EXCEPT ![c] = to]

\* baseline_event_exists: only a registration from a receipt has an event.
EventExists(p) == entry[p] \in Versions

-----------------------------------------------------------------------------
(* One execution of the collector.                                         *)

\* The query is made under the lock; without it the process exits at once.
StartCollecting(c) ==
    /\ GoTo(c, "off", "visit")
    /\ lock = None
    /\ lock' = c
    /\ todo' = [todo EXCEPT ![c] = Packages]
    /\ failed' = [failed EXCEPT ![c] = FALSE]
    /\ UNCHANGED <<env, store, current, raw, known, crashes>>

\* A registered event is skipped for good, whatever its check has found.
Visit(c, p) ==
    /\ GoTo(c, "visit", IF EventExists(p) THEN "visit" ELSE "build")
    /\ p \in todo[c]
    /\ todo' = [todo EXCEPT ![c] = @ \ {p}]
    /\ current' = [current EXCEPT ![c] = p]
    /\ UNCHANGED <<env, store, lock, raw, known, failed, crashes>>

\* Mutation: an error ends the whole execution.
PendingEndsAll(c, from) ==
    /\ GoTo(c, from, "visit")
    /\ failed' = [failed EXCEPT ![c] = TRUE]
    /\ todo' = [todo EXCEPT ![c] = {}]
    /\ UNCHANGED <<env, store, lock, current, raw, known, crashes>>

\* Mutation: the error is not counted.
PendingUncounted(c, from) ==
    /\ GoTo(c, from, "visit")
    /\ UNCHANGED <<env, store, lock, process, crashes>>

\* Any error of a package is counted and leaves the package to the next time.
Pending(c, from) ==
    /\ GoTo(c, from, "visit")
    /\ failed' = [failed EXCEPT ![c] = TRUE]
    /\ UNCHANGED <<env, store, lock, todo, current, raw, known, crashes>>

\* Mutation: a package that is still STAGING gets a receipt.
BuildReceiptAnyway(c) ==
    /\ GoTo(c, "build", "publish")
    /\ raw' = [raw EXCEPT ![c] = record[current[c]]]
    /\ UNCHANGED <<env, store, lock, todo, current, known, failed, crashes>>

\* package_receipt, from the record as it is now.
BuildReceipt(c) ==
    /\ GoTo(c, "build", "publish")
    /\ record[current[c]] # Staging
    /\ raw' = [raw EXCEPT ![c] = record[current[c]]]
    /\ UNCHANGED <<env, store, lock, todo, current, known, failed, crashes>>

NotComplete(c) ==
    /\ Pending(c, "build")
    /\ record[current[c]] = Staging

\* Mutation: os.replace in place of os.link.
PublishReplacing(c) ==
    /\ GoTo(c, "publish", "load")
    /\ inbox' = [inbox EXCEPT ![current[c]] = raw[c]]
    /\ UNCHANGED <<env, entry, lock, process, crashes>>

\* os.link succeeds only if there is no receipt of that event; one that says
\* the same will do.
Publish(c) ==
    /\ GoTo(c, "publish", "load")
    /\ inbox[current[c]] \in {None, raw[c]}
    /\ inbox' = [inbox EXCEPT ![current[c]] = raw[c]]
    /\ UNCHANGED <<env, entry, lock, process, crashes>>

\* receipt_event_conflict
PublishConflict(c) ==
    /\ Pending(c, "publish")
    /\ inbox[current[c]] \notin {None, raw[c]}

\* The job reads the published receipt and looks the event up.
JobLoads(c) ==
    /\ GoTo(c, "load", "commit")
    /\ known' = [known EXCEPT ![c] = EventExists(current[c])]
    /\ UNCHANGED <<env, store, lock, todo, current, raw, failed, crashes>>

\* The registry accepts the job: a path without entry, or an event it knew of
\* whose entry says what the receipt says.
EntryAllows(c) ==
    \/ known[c] /\ entry[current[c]] = inbox[current[c]]
    \/ entry[current[c]] = None

\* File and replicas agree with the receipt, and the transaction or the
\* comparison succeeds.  The check that follows may still find something else
\* wrong in the AIP store: the registration stands, the package counts as
\* failed.
JobSucceeds(c) ==
    /\ GoTo(c, "commit", "visit")
    /\ sound[current[c]] /\ EntryAllows(c)
    /\ entry' = [entry EXCEPT ![current[c]] = IF @ = None THEN inbox[current[c]] ELSE @]
    /\ \E nonconforming \in BOOLEAN :
          failed' = [failed EXCEPT ![c] = @ \/ nonconforming]
    /\ UNCHANGED <<env, inbox, lock, todo, current, raw, known, crashes>>

\* A file or a replica does not answer as the receipt says, or the path has an
\* entry the job did not know of (baseline_already_exists).
JobFails(c) ==
    /\ Pending(c, "commit")
    /\ ~sound[current[c]] \/ ~EntryAllows(c)

\* Exit status 2 if anything failed, else 0; the lock goes with the process.
Exit(c) ==
    /\ GoTo(c, "visit", "off")
    /\ todo[c] = {}
    /\ lock' = None
    /\ UNCHANGED <<env, store, process, crashes>>

Crash(c) ==
    /\ pc[c] # "off" /\ crashes < MaxCrashes
    /\ pc' = [pc EXCEPT ![c] = "off"]
    /\ lock' = None
    /\ crashes' = crashes + 1
    \* a process that dies reports no success
    /\ failed' = [failed EXCEPT ![c] = TRUE]
    /\ UNCHANGED <<env, store, todo, current, raw, known>>

Step(c) ==
    \/ StartCollecting(c)
    \/ \E p \in Packages : Visit(c, p)
    \/ BuildReceipt(c) \/ NotComplete(c)
    \/ Publish(c) \/ PublishConflict(c)
    \/ JobLoads(c) \/ JobSucceeds(c) \/ JobFails(c)
    \/ Exit(c)

-----------------------------------------------------------------------------
(* Around the collector.                                                   *)

\* Ingestion, replication, re-replication and moves in the Storage Service:
\* dates, keys and locations may change after the package was complete.
RecordChanges(p) ==
    /\ \E v \in Versions \cup {Staging} :
          v # record[p] /\ record' = [record EXCEPT ![p] = v]
    /\ UNCHANGED <<sound, store, lock, pc, process, crashes>>

\* Replicas and file systems come and go.
SoundnessChanges(p) ==
    /\ sound' = [sound EXCEPT ![p] = ~@]
    /\ UNCHANGED <<record, store, lock, pc, process, crashes>>

\* systemctl start baseline-auto@: an operator runs the job on a receipt of
\* the inbox, beside the collector.
OperatorRegisters(p) ==
    /\ inbox[p] # None /\ entry[p] = None /\ sound[p]
    /\ entry' = [entry EXCEPT ![p] = inbox[p]]
    /\ UNCHANGED <<env, inbox, lock, pc, process, crashes>>

\* The "baseline" command finds the file first.
BaselineCommand(p) ==
    /\ entry[p] = None
    /\ entry' = [entry EXCEPT ![p] = ByHand]
    /\ UNCHANGED <<env, inbox, lock, pc, process, crashes>>

Next ==
    \/ \E c \in Collectors : Step(c) \/ Crash(c)
    \/ \E p \in Packages :
        RecordChanges(p) \/ SoundnessChanges(p) \/ OperatorRegisters(p)
            \/ BaselineCommand(p)

\* The timer starts the collector a minute after it last ended, and a process
\* that is not killed goes on; nothing else is sure to happen.
Fairness == WF_vars(\E c \in Collectors : Step(c))

Spec == Init /\ [][Next]_vars /\ Fairness

-----------------------------------------------------------------------------
\* Every registration from a receipt is the one of the inbox, and that receipt
\* is what the record said at some time: it is neither rewritten afterwards nor
\* replaced by a later one (publish_receipt; README:109-112).
RegisteredFromInbox ==
    \A p \in Packages : EventExists(p) => entry[p] = inbox[p]

\* Exit status 0: every package of the query has its event registered, whatever
\* operators, crashes and changes of the record did in between.
CleanExitMeansRegistered ==
    [][\A c \in Collectors :
        (Exit(c) /\ ~failed[c]) => \A p \in Packages : EventExists(p)]_vars

\* A package that is at last complete and sound, with no receipt that says
\* otherwise and no entry by hand, is registered in the end, whatever becomes
\* of the other packages (README:83-84, one error does not end an execution).
EventuallyRegistered ==
    \A p \in Packages :
        <>[](record[p] # Staging /\ sound[p] /\ inbox[p] \in {None, record[p]}
               /\ entry[p] # ByHand) => <>EventExists(p)

\* README:104-107 "rele o estado atual no Storage Service ... nao deixa AIPs
\* permanentemente pendentes": the same without the condition on the inbox.
NeverPendingForEver ==
    \A p \in Packages :
        <>[](record[p] # Staging /\ sound[p] /\ entry[p] # ByHand) => <>EventExists(p)

=============================================================================
