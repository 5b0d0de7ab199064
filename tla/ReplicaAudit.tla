----------------------------- MODULE ReplicaAudit -----------------------------
(***************************************************************************)
(* ReplicaAuditor.check (replica_audit.py): every replica for which the    *)
(* registry holds evidence is asked again, one HEAD request each.          *)
(*                                                                         *)
(* An audit reads the configuration, then the evidence, then asks replica  *)
(* after replica.  Meanwhile objects come and go, receipts are registered  *)
(* and the configuration may name other buckets.                           *)
(***************************************************************************)
EXTENDS ReplicaCheck

CONSTANTS
    Buckets,  \* buckets a replica may be configured with
    Missing,  \* no object under a key
    Sizeless  \* replicas whose answers may lack a Content-Length

\* What an object shows of itself.
Object == [size : Sizes, checksum : Checksums \cup {NoChecksum}]

ASSUME MissingAssumption == Missing \notin Object

ASSUME SizelessAssumption == Sizeless \subseteq Replicas

Places == Replicas \X Keys

\* A registered replica, as registered_replicas returns it.
Asked == [event : Events, replica : Replicas, bucket : Buckets, key : Keys,
          size : Sizes, checksum : Checksums]

Result == [event : Events, replica : Replicas, status : {"PASS", "FAIL", "UNKNOWN"},
           code : {"", "REPLICA_MISSING", "REPLICA_SIZE_MISMATCH",
                   "REPLICA_CHECKSUM_MISMATCH", "REPLICA_CHECK_INCONCLUSIVE",
                   "REPLICA_CONFIG_MISMATCH"}]

VARIABLES
    object,    \* what is under a key of a replica, in the bucket registered for it
    bucket,    \* the bucket the configuration names for each replica
    bucketAt,  \* column bucket of replica_verifications, by event and replica
    results,   \* table audit_results: the rows of each run
    targets,   \* the buckets of the configuration it has read
    asked,     \* the registered replicas it has read
    noted,     \* the results collected so far
    atStart,   \* observer: the registered replicas when it started
    during     \* observer: what each place has held since then

auditLocals == <<targets, asked, noted>>
world == <<object, bucket>>
observed == <<atStart, during>>
auditVars == <<storeVars, world, bucketAt, results, pc, auditLocals, observed>>

AuditTypeOK ==
    /\ StoreTypeOK
    /\ object \in [Places -> Object \cup {Missing}]
    /\ bucket \in [Replicas -> Buckets]
    /\ bucketAt \in [Events \X Replicas -> Buckets]
    /\ results \in [RunIds -> SUBSET Result]
    /\ pc \in [RunIds -> {"idle", "load", "read", "ask", "finish", "fail", "done", "dead"}]
    /\ targets \in [RunIds -> [Replicas -> Buckets]]
    /\ asked \in [RunIds -> SUBSET Asked]
    /\ noted \in [RunIds -> SUBSET Result]
    /\ atStart \in [RunIds -> SUBSET Asked]
    /\ during \in [RunIds -> SUBSET (Places \X (Object \cup {Missing}))]

AuditInit ==
    /\ StoreInit
    /\ object \in [Places -> Object \cup {Missing}]
    /\ bucket \in [Replicas -> Buckets]
    /\ bucketAt = [p \in Events \X Replicas |-> bucket[p[2]]]
    /\ results = [r \in RunIds |-> {}]
    /\ pc = [r \in RunIds |-> "idle"]
    /\ targets = [r \in RunIds |-> bucket]
    /\ asked = [r \in RunIds |-> {}]
    /\ noted = [r \in RunIds |-> {}]
    /\ atStart = [r \in RunIds |-> {}]
    /\ during = [r \in RunIds |-> {}]

\* registered_replicas: evidence joined with its event and its baseline.  The
\* size is the evidence's, the checksum the baseline's.
RegisteredReplicas ==
    {[event |-> j[1].event, replica |-> j[1].replica,
      bucket |-> bucketAt[<<j[1].event, j[1].replica>>], key |-> j[1].key,
      size |-> j[1].size, checksum |-> j[3].checksum] :
        j \in {i \in evidence \X events \X baselines :
                  i[1].event = i[2].event /\ i[2].path = i[3].path}}

-----------------------------------------------------------------------------
(* The audit.                                                              *)

StartAudit(r) ==
    /\ GoTo(r, "idle", "load")
    /\ create_run(r)
    /\ atStart' = [atStart EXCEPT ![r] = RegisteredReplicas]
    /\ during' = [during EXCEPT ![r] = {<<p, object[p]>> : p \in Places}]
    /\ UNCHANGED <<world, bucketAt, results, auditLocals>>

\* load_replica_targets: all replicas are configured, or it raises.
LoadTargets(r) ==
    /\ GoTo(r, "load", "read")
    /\ targets' = [targets EXCEPT ![r] = bucket]
    /\ UNCHANGED <<storeVars, world, bucketAt, results, asked, noted, observed>>

ReadRegistered(r) ==
    /\ GoTo(r, "read", "ask")
    /\ asked' = [asked EXCEPT ![r] = RegisteredReplicas]
    /\ UNCHANGED <<storeVars, world, bucketAt, results, targets, noted, observed>>

\* Mutation: status and code change places.
NoteSwapped(x, status, code) ==
    [event |-> x.event, replica |-> x.replica, status |-> code, code |-> status]

Note(x, status, code) ==
    [event |-> x.event, replica |-> x.replica, status |-> status, code |-> code]

Left(r) == {x \in asked[r] : \A n \in noted[r] :
                n.event # x.event \/ n.replica # x.replica}

\* A size or a checksum belongs to an object that was found only.
Failure(status) == [status |-> status, size |-> NoSize, checksum |-> NoChecksum]

\* head_object: what a replica may answer for an object, as it is now.
Replies(t, o) ==
    {Failure("failed")} \cup
    IF o = Missing THEN {Failure("missing")}
    ELSE {[status |-> "found", size |-> n, checksum |-> o.checksum] :
             n \in {o.size} \cup {m \in {NoSize} : t \in Sizeless}}

\* Mutation: a failed request says that the object is not there.
JudgementFailedIsMissing(x, a) ==
    CASE a.status # "found" -> Note(x, "FAIL", "REPLICA_MISSING")
      [] Accepts(x.replica, a, x.size, x.checksum) -> Note(x, "PASS", "")
      [] OTHER -> Note(x, "FAIL", "REPLICA_CHECKSUM_MISMATCH")

\* Mutation: sizes are not compared again.
JudgementByChecksum(x, a) ==
    IF a.status = "found" /\ ChecksumAccepted(x.replica, a, x.checksum)
    THEN Note(x, "PASS", "")
    ELSE Note(x, "UNKNOWN", "REPLICA_CHECK_INCONCLUSIVE")

\* verify_replicas, and _error_code of what it raises.  An absent checksum that
\* the configuration demands is inconclusive, as a failed request is; an absent
\* size is another size than the registered one.
Judgement(x, a) ==
    CASE Accepts(x.replica, a, x.size, x.checksum) -> Note(x, "PASS", "")
      [] a.status = "missing" -> Note(x, "FAIL", "REPLICA_MISSING")
      [] a.status = "found" /\ a.size # x.size ->
            Note(x, "FAIL", "REPLICA_SIZE_MISMATCH")
      [] a.status = "found" /\ a.size = x.size
             /\ a.checksum \notin {x.checksum, NoChecksum} ->
            Note(x, "FAIL", "REPLICA_CHECKSUM_MISMATCH")
      [] OTHER -> Note(x, "UNKNOWN", "REPLICA_CHECK_INCONCLUSIVE")

AskReplica(r, x) ==
    /\ GoTo(r, "ask", "ask")
    /\ x \in Left(r)
    /\ targets[r][x.replica] = x.bucket
    /\ \E a \in Replies(x.replica, object[<<x.replica, x.key>>]) :
        noted' = [noted EXCEPT ![r] = @ \cup {Judgement(x, a)}]
    /\ UNCHANGED <<storeVars, world, bucketAt, results, targets, asked, observed>>

\* The configuration names another bucket than the evidence: nobody is asked.
ConfigMismatch(r, x) ==
    /\ GoTo(r, "ask", "ask")
    /\ x \in Left(r)
    /\ targets[r][x.replica] # x.bucket
    /\ noted' = [noted EXCEPT ![r] = @ \cup
          {Note(x, "UNKNOWN", "REPLICA_CONFIG_MISMATCH")}]
    /\ UNCHANGED <<storeVars, world, bucketAt, results, targets, asked, observed>>

\* Mutation: the first result that is not PASS ends the audit.
AllAskedOrOneBad(r) == Left(r) = {} \/ \E n \in noted[r] : n.status # "PASS"

AllAsked(r) == Left(r) = {}

SaveResults(r) ==
    /\ GoTo(r, "ask", "finish")
    /\ AllAsked(r)
    /\ results' = [results EXCEPT ![r] = noted[r]]
    /\ UNCHANGED <<storeVars, world, bucketAt, auditLocals, observed>>

Verdict(notes) == IF \A n \in notes : n.status = "PASS" THEN "PASS" ELSE "FAIL"

Conclusive(notes) == \A n \in notes : n.status # "UNKNOWN"

FinishAudit(r) ==
    /\ GoTo(r, "finish", "done")
    /\ finish_run(r, Verdict(noted[r]), Conclusive(noted[r]))
    /\ UNCHANGED <<world, bucketAt, results, auditLocals, observed>>

\* An invalid configuration, or a transaction that raises.
AuditRaises(r) ==
    /\ pc[r] \in {"load", "read", "ask", "finish"}
    /\ pc' = [pc EXCEPT ![r] = "fail"]
    /\ UNCHANGED <<storeVars, world, bucketAt, results, auditLocals, observed>>

FailAudit(r) ==
    /\ GoTo(r, "fail", "done")
    /\ finish_run(r, "FAIL", FALSE)
    /\ UNCHANGED <<world, bucketAt, results, auditLocals, observed>>

AuditCrash(r) ==
    /\ pc[r] \notin {"idle", "done", "dead"}
    /\ pc' = [pc EXCEPT ![r] = "dead"]
    /\ UNCHANGED <<storeVars, world, bucketAt, results, auditLocals, observed>>

Audit(r) ==
    \/ StartAudit(r) \/ LoadTargets(r) \/ ReadRegistered(r)
    \/ \E x \in asked[r] : AskReplica(r, x) \/ ConfigMismatch(r, x)
    \/ SaveResults(r) \/ FinishAudit(r) \/ AuditRaises(r) \/ FailAudit(r)

-----------------------------------------------------------------------------
(* Around the audits.                                                      *)

Begun(r) == during[r] # {}

ObjectChanges(p, o) ==
    /\ object[p] # o
    /\ object' = [object EXCEPT ![p] = o]
    /\ during' = [r \in RunIds |->
          IF Begun(r) THEN during[r] \cup {<<p, o>>} ELSE {}]
    /\ UNCHANGED <<storeVars, bucket, bucketAt, results, pc, auditLocals, atStart>>

Reconfigure(t, b) ==
    /\ bucket[t] # b
    /\ bucket' = [bucket EXCEPT ![t] = b]
    /\ UNCHANGED <<storeVars, object, bucketAt, results, pc, auditLocals, observed>>

\* A receipt is registered (AutoBaseline), in the buckets configured now, with
\* one row for each replica; the objects have had time to change since.
ReceiptRegistered(q, k) ==
    /\ Register(q, {[event |-> q.event, replica |-> t, key |-> k, size |-> q.size,
                     verified |-> t \in RequireChecksum] : t \in Replicas})
    /\ bucketAt' = [p \in Events \X Replicas |->
          IF p[1] = q.event THEN bucket[p[2]] ELSE bucketAt[p]]
    /\ UNCHANGED <<world, results, pc, auditLocals, observed>>

AuditNext ==
    \/ \E r \in RunIds : Audit(r) \/ AuditCrash(r)
    \/ \E p \in Places, o \in Object \cup {Missing} : ObjectChanges(p, o)
    \/ \E t \in Replicas, b \in Buckets : Reconfigure(t, b)
    \/ \E q \in Registration, k \in Keys : ReceiptRegistered(q, k)

AuditSpec == AuditInit /\ [][AuditNext]_auditVars

-----------------------------------------------------------------------------
HeldDuring(r, x, o) == <<<<x.replica, x.key>>, o>> \in during[r]

\* A run that ends in PASS has found, while it ran, every replica registered
\* when it started to hold an object of the registered size, with the
\* baseline's checksum or, where that is allowed, with none; and its
\* configuration named the registered bucket (README:142-144).
PassMeansHeld ==
    \A r \in RunIds : runs[r].status = "PASS" =>
        \A x \in atStart[r] :
            /\ targets[r][x.replica] = x.bucket
            /\ \E o \in Object : HeldDuring(r, x, o) /\ o.size = x.size
                  /\ \/ o.checksum = x.checksum
                     \/ o.checksum = NoChecksum /\ x.replica \notin RequireChecksum

\* Neither a failed request nor a changed configuration raises an alarm, and an
\* alarm says what was wrong: a result FAIL is about an object that, while the
\* audit ran, was missing, had another size than the registered one, or had the
\* registered size and carried another checksum.  The exception is a replica that
\* may answer without a Content-Length: there an object that is as it should be
\* is said to have another size (alerts ReplicaMissing, ReplicaChanged).
AlarmIsReal ==
    \A r \in RunIds : \A n \in results[r] : n.status = "FAIL" =>
        \E x \in asked[r] :
            /\ x.event = n.event /\ x.replica = n.replica
            /\ \/ n.code = "REPLICA_MISSING" /\ HeldDuring(r, x, Missing)
               \/ /\ n.code = "REPLICA_SIZE_MISMATCH"
                  /\ \E o \in Object : HeldDuring(r, x, o)
                        /\ (o.size # x.size \/ x.replica \in Sizeless)
               \/ /\ n.code = "REPLICA_CHECKSUM_MISMATCH"
                  /\ \E o \in Object : HeldDuring(r, x, o) /\ o.size = x.size
                        /\ o.checksum \notin {x.checksum, NoChecksum}

\* One replica's answer hides no other's (README:126-128): a run that saved its
\* results has exactly one for each replica registered when it started, and the
\* run's row says of them what they are.
EachHasItsResult ==
    \A r \in RunIds :
        /\ \A m, n \in results[r] :
              m.event = n.event /\ m.replica = n.replica => m = n
        /\ pc[r] = "finish" \/ runs[r].status = "PASS" \/ runs[r].complete =>
              \A x \in atStart[r] : \E n \in results[r] :
                  n.event = x.event /\ n.replica = x.replica
        /\ runs[r].complete => \A n \in results[r] : n.status # "UNKNOWN"
        /\ runs[r].status = "PASS" =>
              runs[r].complete /\ \A n \in results[r] : n.status = "PASS"

\* What an execution has stored, as its readers see it.
Account(r) == [status |-> runs[r].status, complete |-> runs[r].complete, rows |-> results[r]]

Book == [r \in RunIds |-> Account(r)]

Ledger == INSTANCE RunLedger WITH Runs <- RunIds, ledger <- Book

\* A replica audit stores its row and its results as RunLedger promises the exporter,
\* wherever it raises or is killed between its transactions.
RunIsAccounted == Ledger!Spec

===============================================================================
