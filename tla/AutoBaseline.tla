----------------------------- MODULE AutoBaseline -----------------------------
(***************************************************************************)
(* AutoBaselineJob.run (auto_baseline.py): registration of the baseline of *)
(* one AIP from a signed Archivematica receipt.                            *)
(*                                                                         *)
(* Any number of jobs run at once, one per run identifier: the path unit   *)
(* of systemd, an operator and the Archivematica collector each start      *)
(* processes that share the database and nothing else.  A job is atomic    *)
(* between two accesses to something shared, so a step is one of: the      *)
(* receipt and the lookup of its event; the hash of the local file; one    *)
(* HEAD request; one transaction.  A process may die between any two.      *)
(***************************************************************************)
EXTENDS ReplicaCheck

CONSTANTS
    Files,     \* files below the AIP root, each under its canonical path
    FileAt,    \* the file a path leads to ("./a" leads to the file "a")
    Absent,    \* no regular file there: missing, a directory, a symlink
    Receipts,  \* the receipt files a job may be given, parsed
    Trusted    \* those with a valid signature and valid fields

ASSUME PathAssumption ==
    /\ Files \subseteq Paths
    /\ FileAt \in [Paths -> Files]
    /\ \A f \in Files : FileAt[f] = f

ASSUME ReceiptAssumption ==
    /\ Receipts \subseteq [event : Events, aip : Aips, path : Paths,
                           checksum : Checksums, size : Sizes,
                           keys : [Replicas -> Keys]]
    /\ Trusted \subseteq Receipts

\* What hash_file returns.
Content == [checksum : Checksums, size : Sizes]

ASSUME AbsentAssumption == Absent \notin Content

JobStep == {"idle", "load", "hash", "verify", "commit", "check", "fail",
            "done", "dead"}

VARIABLES
    disk,      \* the content of each file now, or Absent
    onceHeld,  \* observer: pairs of a file and a content it has had
    receipt,   \* the receipt each job was given
    known,     \* already_registered, as read before the file was hashed
    gathered,  \* replica_evidence collected so far
    created    \* the job's transaction inserted the baseline

files == <<disk, onceHeld>>
locals == <<receipt, known, gathered, created>>
vars == <<storeVars, files, pc, locals>>

TypeOK ==
    /\ StoreTypeOK
    /\ disk \in [Files -> Content \cup {Absent}]
    /\ onceHeld \subseteq Files \X Content
    /\ pc \in [RunIds -> JobStep]
    /\ receipt \in [RunIds -> Receipts]
    /\ known \in [RunIds -> BOOLEAN]
    /\ gathered \in [RunIds -> SUBSET EvidenceRow]
    /\ created \in [RunIds -> BOOLEAN]

\* "receipt" is the argument of the job.
Init ==
    /\ StoreInit
    /\ disk \in [Files -> Content \cup {Absent}]
    /\ onceHeld = {p \in Files \X Content : disk[p[1]] = p[2]}
    /\ pc = [r \in RunIds |-> "idle"]
    /\ receipt \in [RunIds -> Receipts]
    /\ known = [r \in RunIds |-> FALSE]
    /\ gathered = [r \in RunIds |-> {}]
    /\ created = [r \in RunIds |-> FALSE]

-----------------------------------------------------------------------------
(* The job, step by step.  Every exception the job handles leads to "fail",*)
(* where one more transaction marks the run.                               *)

Start(r) ==
    /\ GoTo(r, "idle", "load")
    /\ create_run(r)
    /\ UNCHANGED <<files, locals>>

Load(r) ==
    /\ GoTo(r, "load", "hash")
    /\ receipt[r] \in Trusted
    /\ known' = [known EXCEPT ![r] = baseline_event_exists(receipt[r].event)]
    /\ UNCHANGED <<storeVars, files, receipt, gathered, created>>

\* No signing key, an unreadable, unsigned or malformed receipt, or one that is
\* too old or in the future: time passes at will, so any receipt may be refused.
RejectReceipt(r) ==
    /\ GoTo(r, "load", "fail")
    /\ UNCHANGED <<storeVars, files, locals>>

\* Mutation: the size is compared, the checksum is not.
DescribesBySize(q, f) == disk[f] # Absent /\ disk[f].size = q.size

\* The receipt tells the truth about the file the job has just hashed.
Describes(q, f) == disk[f] = [checksum |-> q.checksum, size |-> q.size]

HashFile(r) ==
    /\ GoTo(r, "hash", "verify")
    /\ Describes(receipt[r], FileAt[receipt[r].path])
    /\ UNCHANGED <<storeVars, files, locals>>

\* Wrong content, no regular file, a read error, a file modified while it was
\* read: a correct file may be refused as well.
RejectFile(r) ==
    /\ GoTo(r, "hash", "fail")
    /\ UNCHANGED <<storeVars, files, locals>>

Unverified(r) == {t \in Replicas : \A v \in gathered[r] : v.replica # t}

\* Mutation: the first replica that answers well is enough.
NextAfterHeadAny(r, t) == "commit"

NextAfterHead(r, t) == IF Unverified(r) = {t} THEN "commit" ELSE "verify"

\* One HEAD request; the replicas' order in the configuration is not modelled.
HeadReplica(r, t) ==
    /\ GoTo(r, "verify", NextAfterHead(r, t))
    /\ t \in Unverified(r)
    /\ \E a \in Answer :
        /\ Accepts(t, a, receipt[r].size, receipt[r].checksum)
        /\ gathered' = [gathered EXCEPT ![r] = @ \cup
              {EvidenceFor(receipt[r].event, t, receipt[r].keys[t], a)}]
    /\ UNCHANGED <<storeVars, files, receipt, known, created>>

\* An unusable replica configuration, or the first answer that is not accepted.
RejectReplica(r) ==
    /\ GoTo(r, "verify", "fail")
    /\ UNCHANGED <<storeVars, files, locals>>

\* The event was registered before this job looked: its rows must say the same.
ConfirmRepeat(r) ==
    /\ GoTo(r, "commit", "check")
    /\ known[r]
    /\ automatic_baseline_matches(receipt[r])
    /\ UNCHANGED <<storeVars, files, locals>>

\* receipt_event_conflict
RejectConflict(r) ==
    /\ GoTo(r, "commit", "fail")
    /\ known[r]
    /\ ~automatic_baseline_matches(receipt[r])
    /\ UNCHANGED <<storeVars, files, locals>>

Commit(r) ==
    /\ GoTo(r, "commit", "check")
    /\ ~known[r]
    /\ Register(receipt[r], gathered[r])
    /\ created' = [created EXCEPT ![r] = TRUE]
    /\ UNCHANGED <<files, receipt, known, gathered>>

\* Mutation: an insertion that was ignored passes for a registration.
AcceptTaken(r) ==
    /\ GoTo(r, "commit", "check")
    /\ ~known[r]
    /\ RegistrationIgnored(receipt[r])
    /\ UNCHANGED <<files, locals>>

\* baseline_already_exists
RejectTaken(r) ==
    /\ GoTo(r, "commit", "fail")
    /\ ~known[r]
    /\ RegistrationIgnored(receipt[r])
    /\ UNCHANGED <<files, locals>>

\* sqlite3.IntegrityError is not among the exceptions the job handles: the
\* process ends and its run stays RUNNING.
RaiseAtCommit(r) ==
    /\ GoTo(r, "commit", "dead")
    /\ ~known[r]
    /\ RegistrationRaises(receipt[r])
    /\ UNCHANGED <<files, locals>>

\* The integral check of the AIP root has run.  Its verdict depends on every
\* file and baseline there (module IntegrityCheck); here it is any verdict.
Finish(r) ==
    /\ GoTo(r, "check", "done")
    /\ \/ finish_run(r, "PASS", TRUE)
       \/ \E complete \in BOOLEAN : finish_run(r, "WARNING", complete)
    /\ UNCHANGED <<files, locals>>

\* The AIP root is gone, or the check could not read it.
CheckRaises(r) ==
    /\ GoTo(r, "check", "fail")
    /\ UNCHANGED <<storeVars, files, locals>>

Fail(r) ==
    /\ GoTo(r, "fail", "done")
    /\ finish_run(r, "FAIL", FALSE)
    /\ UNCHANGED <<files, locals>>

\* The process is killed, or a transaction raises (a locked database).
Crash(r) ==
    /\ pc[r] \notin {"idle", "done", "dead"}
    /\ pc' = [pc EXCEPT ![r] = "dead"]
    /\ UNCHANGED <<storeVars, files, locals>>

Job(r) ==
    \/ Start(r) \/ Load(r) \/ RejectReceipt(r)
    \/ HashFile(r) \/ RejectFile(r)
    \/ \E t \in Replicas : HeadReplica(r, t)
    \/ RejectReplica(r)
    \/ ConfirmRepeat(r) \/ RejectConflict(r)
    \/ Commit(r) \/ RejectTaken(r) \/ RaiseAtCommit(r)
    \/ Finish(r) \/ CheckRaises(r) \/ Fail(r)

-----------------------------------------------------------------------------
(* Around the jobs.                                                        *)

\* Anyone with access to the AIP store may replace or remove a file.
FileChanges(f) ==
    /\ \E c \in Content \cup {Absent} :
        /\ disk' = [disk EXCEPT ![f] = c]
        /\ onceHeld' = onceHeld \cup ({<<f, c>>} \cap (Files \X Content))
    /\ UNCHANGED <<storeVars, pc, locals>>

\* The "baseline" command (module ManualBaseline) registers what it hashed
\* some time ago, under the canonical path.
BaselineCommand(f) ==
    /\ \E c \in Content :
        /\ <<f, c>> \in onceHeld
        /\ add_baseline([path |-> f, checksum |-> c.checksum, size |-> c.size])
    /\ UNCHANGED <<files, pc, locals>>

Next ==
    \/ \E r \in RunIds : Job(r) \/ Crash(r)
    \/ \E f \in Files : FileChanges(f) \/ BaselineCommand(f)

Spec == Init /\ [][Next]_vars

-----------------------------------------------------------------------------
(* What the registry and the runs say about each other.                    *)

EventPaths == {e.path : e \in events}

RegisteredBy(q) == automatic_baseline_matches(q)

HeldOnce(q) ==
    <<FileAt[q.path], [checksum |-> q.checksum, size |-> q.size]>> \in onceHeld

\* Every baseline is accounted for: it was inserted by hand, or it belongs to
\* an event that has its evidence from every replica, never both; there is no
\* event without its baseline and no evidence without its event.  Jobs that
\* crash, race or fail half-way must not leave anything else behind
\* (add_automatic_baseline, one transaction over three tables).
RegistrationIsWhole ==
    /\ {b.path : b \in baselines} = byHand \cup EventPaths
    /\ byHand \cap EventPaths = {}
    /\ \A e \in events, t \in Replicas :
        \E v \in evidence : v.event = e.event /\ v.replica = t
    /\ \A v \in evidence : \E e \in events : e.event = v.event

\* Everything an automatic registration wrote, in all three tables, comes from
\* one trusted receipt, and the file it names did hold that content once: races
\* between jobs, and a file replaced after it was hashed, never mix two.
RegisteredAsReceived ==
    \A e \in events : \E q \in Trusted :
        /\ EventOf(q) = e
        /\ RowOf(q) \in baselines
        /\ HeldOnce(q)
        /\ \A v \in evidence : v.event = e.event => v.key = q.keys[v.replica]

\* The evidence kept for a replica describes the object as the baseline does,
\* and says "verified" wherever the configuration demands the checksum.
EvidenceAgrees ==
    \A v \in evidence, e \in events, b \in baselines :
        (v.event = e.event /\ b.path = e.path) =>
            /\ v.size = b.size
            /\ v.replica \in RequireChecksum => v.verified

\* A job that reports PASS or WARNING has its receipt's values in the registry,
\* whether it inserted them or found them, and a job that inserts them and then
\* fails or dies leaves them there.
OkRunIsRegistered ==
    \A r \in RunIds :
        (runs[r].status \in {"PASS", "WARNING"} \/ created[r]) =>
            RegisteredBy(receipt[r])

\* Of all the jobs given receipts of one event, concurrent or repeated, exactly
\* one believes it inserted the registration.
CreatedOnce ==
    \A e \in events :
        \E r \in RunIds :
            /\ created[r] /\ receipt[r].event = e.event
            /\ \A s \in RunIds :
                created[s] /\ receipt[s].event = e.event => s = r

\* The three tables, joined, behave as the sealed registry: no interleaving
\* overwrites, removes or completes an entry that is already there (README:31,
\* README:74; INSERT OR IGNORE in add_baseline and add_automatic_baseline).
CopiesOf(path) ==
    {[replica |-> v.replica, key |-> v.key, size |-> v.size,
      verified |-> v.verified] :
        v \in {w \in evidence :
            \E e \in events : e.path = path /\ e.event = w.event}}

OriginOf(path) ==
    {[event |-> e.event, aip |-> e.aip] : e \in {d \in events : d.path = path}}

Entries ==
    {[path |-> b.path, checksum |-> b.checksum, size |-> b.size,
      origin |-> OriginOf(b.path), copies |-> CopiesOf(b.path)] :
        b \in baselines}

Sealed == INSTANCE SealedRegistry WITH sealed <- Entries

RegistryIsSealed == Sealed!Spec

-----------------------------------------------------------------------------
(* Why the properties above hold.                                          *)

\* PRIMARY KEY and UNIQUE of the three tables (SCHEMA, database.py).
KeysAreUnique ==
    /\ \A b, c \in baselines : b.path = c.path => b = c
    /\ \A d, e \in events : d.event = e.event \/ d.path = e.path => d = e
    /\ \A v, w \in evidence :
        v.event = w.event /\ v.replica = w.replica => v = w

\* The evidence a job holds is of its own receipt, one row for a replica.
GatheredOf(r) ==
    \A v \in gathered[r] :
        /\ v.event = receipt[r].event
        /\ v.key = receipt[r].keys[v.replica]
        /\ v.size = receipt[r].size
        /\ v.replica \in RequireChecksum => v.verified
        /\ \A w \in gathered[r] : v.replica = w.replica => v = w

\* What a job has established when it reaches a step, and still holds there
\* whatever the other jobs did meanwhile.
JobKnows(r) ==
    /\ GatheredOf(r)
    /\ pc[r] \in {"hash", "verify", "commit"} => receipt[r] \in Trusted
    /\ pc[r] \in {"verify", "commit"} => HeldOnce(receipt[r])
    /\ pc[r] = "commit" => Unverified(r) = {}
    /\ pc[r] = "check" => RegisteredBy(receipt[r])
    /\ pc[r] = "idle" <=> runs[r].status = "ABSENT"

\* Every file's present content is among those it has had.
DiskIsObserved ==
    \A f \in Files : disk[f] # Absent => <<f, disk[f]>> \in onceHeld

\* The inductive invariant: each conjunct is preserved by every step given all
\* of them.  It says what the code relies on between its transactions.
IndInv ==
    /\ TypeOK
    /\ KeysAreUnique
    /\ RegistrationIsWhole
    /\ RegisteredAsReceived
    /\ EvidenceAgrees
    /\ OkRunIsRegistered
    /\ CreatedOnce
    /\ DiskIsObserved
    /\ \A r \in RunIds : JobKnows(r)

-----------------------------------------------------------------------------
(* What the documents say, and the jobs do not do.                         *)

\* README:74 "Recibos repetidos sao idempotentes": a job whose receipt is
\* already registered, value for value, is not refused because of it.
RepeatIsRecognised ==
    [][\A r \in RunIds : RegisteredBy(receipt[r]) => ~RejectTaken(r)]_vars

=============================================================================
