---------------------------- MODULE IntegrityCheck ----------------------------
(***************************************************************************)
(* IntegrityAuditor.check (integrity.py): every file below the AIP root is *)
(* compared with its baseline and every baseline with a file.              *)
(*                                                                         *)
(* A check takes as long as hashing the whole store.  Meanwhile files come *)
(* and go, directories lose their permissions and other processes insert   *)
(* baselines.  A check first lists the files, then reads all baselines in  *)
(* one query, then hashes the files one after another.                     *)
(***************************************************************************)
EXTENDS TreeWalk

CheckStep == {"idle", "walk", "hash", "finish", "fail", "done", "dead"}

VARIABLES
    results,   \* table audit_results: the rows of each run
    rows,      \* the baselines, as read after the walk
    noted,     \* the results collected so far
    complete,  \* scan_complete
    atStart,   \* observer: the baselines when the check started
    everLost   \* observer: files that were gone while they had a baseline

locals == <<rows, noted, complete>>
vars == <<storeVars, walkVars, results, pc, locals, atStart, everLost>>

TypeOK ==
    /\ StoreTypeOK
    /\ WalkTypeOK
    /\ results \in [RunIds -> SUBSET Result]
    /\ pc \in [RunIds -> CheckStep]
    /\ rows \in [RunIds -> SUBSET BaselineRow]
    /\ noted \in [RunIds -> SUBSET Result]
    /\ complete \in [RunIds -> BOOLEAN]
    /\ atStart \in [RunIds -> SUBSET BaselineRow]
    /\ everLost \subseteq Files

Init ==
    /\ StoreInit
    /\ WalkInit
    /\ results = [r \in RunIds |-> {}]
    /\ pc = [r \in RunIds |-> "idle"]
    /\ rows = [r \in RunIds |-> {}]
    /\ noted = [r \in RunIds |-> {}]
    /\ complete = [r \in RunIds |-> TRUE]
    /\ atStart = [r \in RunIds |-> {}]
    /\ everLost = {}

-----------------------------------------------------------------------------
(* The walk and the query.                                                 *)

Start(r) ==
    /\ GoTo(r, "idle", "walk")
    /\ create_run(r)
    /\ BeginWalk(r)
    /\ atStart' = [atStart EXCEPT ![r] = baselines]
    /\ UNCHANGED <<results, locals, everLost>>

Walk(r) ==
    /\ pc[r] = "walk"
    /\ WalkStep(r)
    /\ UNCHANGED <<storeVars, results, pc, locals, atStart, everLost>>

\* Mutation: an aborted walk passes for complete.
CompleteAnyway(r) == TRUE

CompleteAfterWalk(r) == traversal[r] = {}

ReadBaselines(r) ==
    /\ GoTo(r, "walk", "hash")
    /\ pending[r] = {}
    /\ rows' = [rows EXCEPT ![r] = baselines]
    /\ noted' = [noted EXCEPT ![r] = traversal[r]]
    /\ complete' = [complete EXCEPT ![r] = CompleteAfterWalk(r)]
    /\ UNCHANGED <<storeVars, walkVars, results, atStart, everLost>>

-----------------------------------------------------------------------------
(* The files.                                                              *)

Examined(r) == {n.path : n \in noted[r]}

Matches(b, state) == b.checksum = state.checksum /\ b.size = state.size

\* Mutation: the sizes decide alone.
JudgementBySize(f, known, state) ==
    IF known = {} THEN {Note(f, "WARNING", "NO_BASELINE")}
    ELSE {IF state \in Content /\ \E b \in known : b.size = state.size
          THEN Note(f, "PASS", "") ELSE Note(f, "UNKNOWN", "FILE_READ_ERROR")}

\* Mutation: a file that cannot be read is reported as changed.
JudgementUnreadIsChanged(f, known, state) ==
    IF known = {} THEN {Note(f, "WARNING", "NO_BASELINE")}
    ELSE {IF state \in Content /\ \E b \in known : Matches(b, state)
          THEN Note(f, "PASS", "") ELSE Note(f, "FAIL", "CHECKSUM_MISMATCH")}

\* The results a file may get from its baseline rows and what hash_file sees.
Judgement(f, known, state) ==
    IF known = {} THEN {Note(f, "WARNING", "NO_BASELINE")}
    ELSE {Note(f, "UNKNOWN", "FILE_READ_ERROR")} \cup
         (IF state \notin Content THEN {}
          ELSE IF \E b \in known : Matches(b, state)
               THEN {Note(f, "PASS", "")}
               ELSE {Note(f, "FAIL", "CHECKSUM_MISMATCH")})

\* A read error, or a file modified while it is read, is possible on any file
\* that has a baseline; one without is not opened.
CheckFile(r, f) ==
    /\ pc[r] = "hash"
    /\ f \in listed[r] \ Examined(r)
    /\ \E n \in Judgement(f, {b \in rows[r] : b.path = f}, tree[f]) :
        /\ noted' = [noted EXCEPT ![r] = @ \cup {n}]
        /\ complete' = [complete EXCEPT ![r] = @ /\ n.code # "FILE_READ_ERROR"]
    /\ UNCHANGED <<storeVars, walkVars, results, pc, rows, atStart, everLost>>

\* Mutation: status and code change places.
MissingSwapped(r) ==
    {Note(b.path, "FILE_MISSING", "FAIL") :
        b \in {c \in rows[r] : c.path \notin listed[r]}}

\* Baselines whose path the walk has not found.
Missing(r) ==
    {Note(b.path, "FAIL", "FILE_MISSING") :
        b \in {c \in rows[r] : c.path \notin listed[r]}}

\* save_results: all the rows of the run in one transaction.
SaveResults(r) ==
    /\ GoTo(r, "hash", "finish")
    /\ listed[r] \subseteq Examined(r)
    /\ noted' = [noted EXCEPT ![r] = @ \cup Missing(r)]
    /\ results' = [results EXCEPT ![r] = noted'[r]]
    /\ UNCHANGED <<storeVars, walkVars, rows, complete, atStart, everLost>>

\* Mutation: an inconclusive result does not count as a failure.
VerdictFailOnly(notes, whole) ==
    IF \E n \in notes : n.status = "FAIL" THEN "FAIL"
    ELSE IF \E n \in notes : n.status = "WARNING" THEN "WARNING" ELSE "PASS"

Verdict(notes, whole) ==
    IF ~whole \/ \E n \in notes : n.status \in {"FAIL", "UNKNOWN"} THEN "FAIL"
    ELSE IF \E n \in notes : n.status = "WARNING" THEN "WARNING" ELSE "PASS"

FinishCheck(r) ==
    /\ GoTo(r, "finish", "done")
    /\ finish_run(r, Verdict(noted[r], complete[r]), complete[r])
    /\ UNCHANGED <<walkVars, results, locals, atStart, everLost>>

\* The root does not resolve, or a query or transaction raises.
CheckRaises(r) ==
    /\ pc[r] \in {"walk", "hash", "finish"}
    /\ pc' = [pc EXCEPT ![r] = "fail"]
    /\ UNCHANGED <<storeVars, walkVars, results, locals, atStart, everLost>>

FailCheck(r) ==
    /\ GoTo(r, "fail", "done")
    /\ finish_run(r, "FAIL", FALSE)
    /\ UNCHANGED <<walkVars, results, locals, atStart, everLost>>

Crash(r) ==
    /\ pc[r] \notin {"idle", "done", "dead"}
    /\ pc' = [pc EXCEPT ![r] = "dead"]
    /\ UNCHANGED <<storeVars, walkVars, results, locals, atStart, everLost>>

Check(r) ==
    \/ Start(r) \/ Walk(r) \/ ReadBaselines(r)
    \/ \E f \in Files : CheckFile(r, f)
    \/ SaveResults(r) \/ FinishCheck(r) \/ CheckRaises(r) \/ FailCheck(r)

-----------------------------------------------------------------------------
(* Around the checks.                                                      *)

Registered(f, table) == \E b \in table : b.path = f

FileChanges(f, state) ==
    /\ ChangeFile(f, state)
    /\ everLost' = IF state \notin Content /\ Registered(f, baselines)
                   THEN everLost \cup {f} ELSE everLost
    /\ UNCHANGED <<storeVars, results, pc, locals, atStart>>

PermissionsChange(d) ==
    /\ ChangePermissions(d)
    /\ UNCHANGED <<storeVars, results, pc, locals, atStart, everLost>>

\* A registration, by hand or from a receipt; only its row in
\* integrity_baselines matters to a check.  The writer hashed the file earlier.
BaselineAppears(p, c) ==
    /\ ~PathTaken(p)
    /\ add_baseline([path |-> p, checksum |-> c.checksum, size |-> c.size])
    /\ everLost' = everLost \cup {f \in {p} \cap Files : tree[f] \notin Content}
    /\ UNCHANGED <<walkVars, results, pc, locals, atStart>>

Next ==
    \/ \E r \in RunIds : Check(r) \/ Crash(r)
    \/ \E f \in Files, s \in FileState : FileChanges(f, s)
    \/ \E d \in Dirs : PermissionsChange(d)
    \/ \E p \in Paths, c \in Content : BaselineAppears(p, c)

Spec == Init /\ [][Next]_vars

-----------------------------------------------------------------------------
(* What a verdict means.                                                   *)

\* A run that ends in PASS has seen, while it ran, every file that had a
\* baseline when it started hold the content of that baseline, however the
\* files and the registry moved under it (integrity.py:117-175).
PassMeansVerified ==
    \A r \in RunIds : runs[r].status = "PASS" =>
        \A b \in atStart[r] :
            <<b.path, [checksum |-> b.checksum, size |-> b.size]>> \in during[r]

\* No false alarm.  A file reported changed did hold other content while the
\* check ran than the baseline the check compared it with; one reported missing
\* was gone while it had a baseline, except in the cases the check cannot tell
\* from that: a baseline under a spelling the walk does not use, a directory that
\* could not be listed, a walk that broke off, a baseline inserted after the
\* check had started.
AlarmIsReal ==
    \A r \in RunIds : \A n \in results[r] :
        /\ n.code = "CHECKSUM_MISMATCH" =>
              \E b \in rows[r], c \in Content :
                 /\ b.path = n.path /\ <<n.path, c>> \in during[r]
                 /\ c # [checksum |-> b.checksum, size |-> b.size]
        /\ n.code = "FILE_MISSING" =>
              \/ n.path \in everLost
              \/ n.path \notin Files
              \/ n.path \in Files /\ DirOf[n.path] \in hidden[r]
              \/ WalkBroken(r)
              \/ ~Registered(n.path, atStart[r])

\* A run that says its scan was complete has forgotten nothing: it has a result
\* for every baseline of its start and, provided every directory could be listed
\* all along, for every file that was there all along.  Nor has it counted
\* anything twice: a path has one result, but for a symbolic link in the place of
\* a file that has a baseline, both skipped and missing.
CompleteMeansCovered ==
    \A r \in RunIds :
        /\ runs[r].complete =>
            /\ \A b \in atStart[r] : \E n \in results[r] : n.path = b.path
            /\ hidden[r] = {} => \A f \in Files :
                  ThereAllAlong(r, f) => \E n \in results[r] : n.path = f
        /\ \A m, n \in results[r] : m.path = n.path /\ m # n =>
              {m.code, n.code} = {"SYMLINK_SKIPPED", "FILE_MISSING"}

\* What an execution has stored, as its readers see it.
Account(r) == [status |-> runs[r].status, complete |-> runs[r].complete, rows |-> results[r]]

Book == [r \in RunIds |-> Account(r)]

Ledger == INSTANCE RunLedger WITH Runs <- RunIds, ledger <- Book

\* A check stores its row and its results as RunLedger promises the exporter,
\* wherever it raises or is killed between its transactions.
RunIsAccounted == Ledger!Spec

=============================================================================
