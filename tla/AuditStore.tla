------------------------------ MODULE AuditStore ------------------------------
(***************************************************************************)
(* The SQLite database every job of the auditor shares (database.py).      *)
(*                                                                         *)
(* Each method of class Database opens a connection, runs one transaction  *)
(* and closes it: "connect" commits only when its body ends normally, so a *)
(* method that raises, or a process that dies inside one, leaves no trace. *)
(* A method is therefore one atomic step, written here as an operator that *)
(* the jobs' modules use as a conjunct of their own actions.               *)
(*                                                                         *)
(* A table is a set of rows, not a function of its key, so that PRIMARY    *)
(* KEY, UNIQUE and REFERENCES are invariants to be checked.  resource_id   *)
(* is the SHA-256 of the relative path: the path itself stands for it.     *)
(* Columns no decision reads (timestamps, bucket, source) are left out.    *)
(***************************************************************************)
EXTENDS Integers, FiniteSets

CONSTANTS
    Paths,      \* relative paths, as spelled in receipts and directory walks
    Checksums,  \* SHA-256 values
    Sizes,      \* sizes in bytes
    Events,     \* identifiers of completion events
    Aips,       \* identifiers of AIPs
    Replicas,   \* names of the configured replicas
    Keys,       \* object keys in the replicas
    RunIds      \* identifiers of executions: fresh UUIDs, never reused

ASSUME StoreAssumption == Replicas # {}

BaselineRow == [path : Paths, checksum : Checksums, size : Sizes]
EventRow == [event : Events, path : Paths, aip : Aips]
EvidenceRow == [event : Events, replica : Replicas, key : Keys,
                size : Sizes, verified : BOOLEAN]

\* "ABSENT": the run has no row yet.  A finished run never becomes RUNNING.
RunStatus == {"ABSENT", "RUNNING", "PASS", "WARNING", "FAIL"}

\* What a caller hands to add_automatic_baseline, its replica evidence aside.
Registration == [event : Events, aip : Aips, path : Paths,
                 checksum : Checksums, size : Sizes]

VARIABLES
    baselines,  \* table integrity_baselines
    events,     \* table baseline_events
    evidence,   \* table replica_verifications
    runs,       \* table audit_runs: status and scan_complete of every run
    byHand      \* observer: paths the "baseline" command has inserted

registry == <<baselines, events, evidence, byHand>>
storeVars == <<baselines, events, evidence, runs, byHand>>

\* Beside the tables: the next step of each execution.  The steps are those of the
\* module that describes it.
VARIABLE pc

GoTo(r, from, to) == pc[r] = from /\ pc' = [pc EXCEPT ![r] = to]

StoreTypeOK ==
    /\ baselines \subseteq BaselineRow
    /\ events \subseteq EventRow
    /\ evidence \subseteq EvidenceRow
    /\ runs \in [RunIds -> [status : RunStatus, complete : BOOLEAN]]
    /\ byHand \subseteq Paths

StoreInit ==
    /\ baselines = {}
    /\ events = {}
    /\ evidence = {}
    /\ runs = [r \in RunIds |-> [status |-> "ABSENT", complete |-> FALSE]]
    /\ byHand = {}

-----------------------------------------------------------------------------
(* Queries.                                                                *)

PathTaken(path) == \E b \in baselines : b.path = path

baseline_event_exists(event) == \E e \in events : e.event = event

\* The join of the two tables on the event, compared with the caller's values.
automatic_baseline_matches(q) ==
    \E e \in events, b \in baselines :
        /\ e.event = q.event /\ b.path = e.path
        /\ e.aip = q.aip /\ b.path = q.path
        /\ b.checksum = q.checksum /\ b.size = q.size

-----------------------------------------------------------------------------
(* Transactions on audit_runs.                                             *)

create_run(r) ==
    /\ runs[r].status = "ABSENT"
    /\ runs' = [runs EXCEPT ![r] = [status |-> "RUNNING", complete |-> FALSE]]
    /\ UNCHANGED registry

finish_run(r, status, complete) ==
    /\ runs' = [runs EXCEPT ![r] = [status |-> status, complete |-> complete]]
    /\ UNCHANGED registry

-----------------------------------------------------------------------------
(* Transactions on the registry.                                           *)

RowOf(q) == [path |-> q.path, checksum |-> q.checksum, size |-> q.size]
EventOf(q) == [event |-> q.event, path |-> q.path, aip |-> q.aip]

\* Mutation: INSERT OR REPLACE.
InsertOrReplace(row) ==
    baselines' = {b \in baselines : b.path # row.path} \cup {row}

\* INSERT OR IGNORE: a path that has a row keeps it, whatever the new values.
InsertOrIgnore(row) ==
    baselines' = IF PathTaken(row.path) THEN baselines ELSE baselines \cup {row}

\* The "baseline" command's insertion of one file.
add_baseline(row) ==
    /\ InsertOrIgnore(row)
    /\ byHand' = IF PathTaken(row.path) THEN byHand ELSE byHand \cup {row.path}
    /\ UNCHANGED <<events, evidence, runs>>

\* The event is already in the table: its INSERT raises IntegrityError and the
\* transaction, with the baseline inserted a moment before, is rolled back.
RegistrationRaises(q) ==
    /\ ~PathTaken(q.path)
    /\ baseline_event_exists(q.event)
    /\ UNCHANGED storeVars

\* The path has a baseline: the method returns False, nothing written.
RegistrationIgnored(q) ==
    /\ PathTaken(q.path)
    /\ UNCHANGED storeVars

\* Mutation: the evidence is left to a later transaction.
RegisterWithoutEvidence(q, rows) ==
    /\ ~PathTaken(q.path)
    /\ ~baseline_event_exists(q.event)
    /\ InsertOrIgnore(RowOf(q))
    /\ events' = events \cup {EventOf(q)}
    /\ UNCHANGED <<evidence, byHand, runs>>

\* Mutation: the event is not required to be new.
RegisterAnyEvent(q, rows) ==
    /\ ~PathTaken(q.path)
    /\ InsertOrIgnore(RowOf(q))
    /\ events' = events \cup {EventOf(q)}
    /\ evidence' = evidence \cup rows
    /\ UNCHANGED <<byHand, runs>>

\* Baseline, event and evidence in one transaction: the method returns True.
Register(q, rows) ==
    /\ ~PathTaken(q.path)
    /\ ~baseline_event_exists(q.event)
    /\ InsertOrIgnore(RowOf(q))
    /\ events' = events \cup {EventOf(q)}
    /\ evidence' = evidence \cup rows
    /\ UNCHANGED <<byHand, runs>>

=============================================================================
