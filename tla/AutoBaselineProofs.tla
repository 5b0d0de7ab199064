-------------------------- MODULE AutoBaselineProofs --------------------------
(***************************************************************************)
(* Proofs about AutoBaseline for every value of its constants: any number  *)
(* of jobs, replicas, receipts and files; that it implements               *)
(* SealedRegistry; and proofs about ReplicaAudit, which audits the         *)
(* evidence the jobs leave.                                                *)
(***************************************************************************)
EXTENDS AutoBaseline, ReplicaAudit, TLAPS

\* What the constants give every leaf that speaks of a receipt or a file.
LEMMA ReceiptFields ==
    ASSUME NEW q \in Receipts
    PROVE  /\ q.event \in Events /\ q.aip \in Aips /\ q.path \in Paths
           /\ q.checksum \in Checksums /\ q.size \in Sizes
           /\ q.keys \in [Replicas -> Keys]
           /\ FileAt[q.path] \in Files
           /\ RowOf(q) \in BaselineRow /\ EventOf(q) \in EventRow
           /\ [checksum |-> q.checksum, size |-> q.size] \in Content
  BY ReceiptAssumption, PathAssumption
     DEF RowOf, EventOf, BaselineRow, EventRow, Content

-----------------------------------------------------------------------------
(* Type correctness.                                                       *)

LEMMA InitTypeOK == Init => TypeOK
  <1>1. SUFFICES ASSUME Init PROVE TypeOK
    OBVIOUS
  <1>2. StoreTypeOK
    BY <1>1 DEF Init, StoreInit, StoreTypeOK, RunStatus
  <1>3. pc \in [RunIds -> JobStep]
    BY <1>1 DEF Init, JobStep
  <1>4. QED
    BY <1>1, <1>2, <1>3 DEF Init, TypeOK

\* Evidence made from an accepted answer is a row of the table.
LEMMA EvidenceType ==
    ASSUME NEW q \in Receipts, NEW t \in Replicas, NEW a \in Answer,
           Accepts(t, a, q.size, q.checksum)
    PROVE  EvidenceFor(q.event, t, q.keys[t], a) \in EvidenceRow
  BY ReceiptFields DEF Accepts, EvidenceFor, EvidenceRow, Answer

LEMMA JobTypeOK ==
    ASSUME TypeOK, NEW r \in RunIds, Job(r) \/ Crash(r)
    PROVE  TypeOK'
  <1> USE DEF TypeOK, StoreTypeOK
  <1>1. ASSUME storeVars' = storeVars, files' = files, locals' = locals,
               pc' \in [RunIds -> JobStep]
        PROVE  TypeOK'
    BY <1>1 DEF storeVars, registry, files, locals
  <1>2. ASSUME NEW s \in JobStep, NEW u \in JobStep, GoTo(r, u, s)
        PROVE  pc' \in [RunIds -> JobStep]
    BY <1>2 DEF GoTo
  <1>3. CASE Start(r)
    BY <1>2, <1>3 DEF Start, create_run, registry, files, locals, RunStatus, JobStep, GoTo
  <1>4. CASE Load(r)
    <2>1. baseline_event_exists(receipt[r].event) \in BOOLEAN
      BY DEF baseline_event_exists
    <2>2. known' \in [RunIds -> BOOLEAN]
      BY <1>4, <2>1 DEF Load
    <2>3. QED
      BY <1>4, <2>2 DEF Load, storeVars, registry, files, JobStep, GoTo
  <1>5. CASE RejectReceipt(r)
    BY <1>5 DEF RejectReceipt, storeVars, files, locals, JobStep, GoTo
  <1>6. CASE HashFile(r)
    BY <1>6 DEF HashFile, storeVars, files, locals, JobStep, GoTo
  <1>7. CASE RejectFile(r)
    BY <1>7 DEF RejectFile, storeVars, files, locals, JobStep, GoTo
  <1>8. ASSUME NEW t \in Replicas, HeadReplica(r, t)
        PROVE  TypeOK'
    <2>1. pc' \in [RunIds -> JobStep]
      BY <1>8 DEF HeadReplica, GoTo, NextAfterHead, JobStep
    <2>2. gathered' \in [RunIds -> SUBSET EvidenceRow]
      BY <1>8, EvidenceType DEF HeadReplica
    <2>3. QED
      BY <1>8, <2>1, <2>2 DEF HeadReplica, storeVars, files
  <1>9. CASE RejectReplica(r)
    BY <1>9 DEF RejectReplica, storeVars, files, locals, JobStep, GoTo
  <1>10. CASE ConfirmRepeat(r)
    BY <1>10 DEF ConfirmRepeat, storeVars, files, locals, JobStep, GoTo
  <1>11. CASE RejectConflict(r)
    BY <1>11 DEF RejectConflict, storeVars, files, locals, JobStep, GoTo
  <1>12. CASE Commit(r)
    <2>1. baselines' \subseteq BaselineRow /\ events' \subseteq EventRow
      BY <1>12, ReceiptFields DEF Commit, Register, InsertOrIgnore
    <2>2. evidence' \subseteq EvidenceRow
      BY <1>12 DEF Commit, Register
    <2>3. pc' \in [RunIds -> JobStep]
      BY <1>12 DEF Commit, JobStep, GoTo
    <2>4. QED
      BY <1>12, <2>1, <2>2, <2>3 DEF Commit, Register, files
  <1>13. CASE RejectTaken(r)
    BY <1>13 DEF RejectTaken, RegistrationIgnored, storeVars, files, locals, JobStep, GoTo
  <1>14. CASE RaiseAtCommit(r)
    BY <1>14 DEF RaiseAtCommit, RegistrationRaises, storeVars, files, locals, JobStep, GoTo
  <1>15. ASSUME NEW status \in RunStatus, NEW complete \in BOOLEAN,
                finish_run(r, status, complete)
         PROVE  StoreTypeOK'
    BY <1>15 DEF finish_run, registry
  <1>16. CASE Finish(r)
    <2>1. StoreTypeOK'
      BY <1>15, <1>16 DEF Finish, RunStatus
    <2>2. QED
      BY <1>16, <2>1 DEF Finish, files, locals, JobStep, GoTo
  <1>17. CASE CheckRaises(r)
    BY <1>17 DEF CheckRaises, storeVars, files, locals, JobStep, GoTo
  <1>18. CASE Fail(r)
    <2>1. StoreTypeOK'
      BY <1>15, <1>18 DEF Fail, RunStatus
    <2>2. QED
      BY <1>18, <2>1 DEF Fail, files, locals, JobStep, GoTo
  <1>19. CASE Crash(r)
    BY <1>1, <1>19 DEF Crash, JobStep
  <1>20. QED
    BY <1>3, <1>4, <1>5, <1>6, <1>7, <1>8, <1>9, <1>10, <1>11, <1>12, <1>13,
       <1>14, <1>16, <1>17, <1>18, <1>19 DEF Job

LEMMA AroundTypeOK ==
    ASSUME TypeOK, NEW f \in Files, FileChanges(f) \/ BaselineCommand(f)
    PROVE  TypeOK'
  <1> USE DEF TypeOK, StoreTypeOK
  <1>1. CASE FileChanges(f)
    BY <1>1 DEF FileChanges, storeVars, locals
  <1>2. CASE BaselineCommand(f)
    BY <1>2, PathAssumption
       DEF BaselineCommand, add_baseline, InsertOrIgnore, BaselineRow, Content,
           files, locals
  <1>3. QED
    BY <1>1, <1>2

LEMMA NextTypeOK == TypeOK /\ [Next]_vars => TypeOK'
  <1>1. SUFFICES ASSUME TypeOK, [Next]_vars PROVE TypeOK'
    OBVIOUS
  <1>2. CASE UNCHANGED vars
    BY <1>1, <1>2 DEF TypeOK, StoreTypeOK, vars, storeVars, files, locals
  <1>3. CASE Next
    BY <1>1, <1>3, JobTypeOK, AroundTypeOK DEF Next
  <1>4. QED
    BY <1>1, <1>2, <1>3

\* Every value in the tables and in the jobs keeps its type.
THEOREM TypeCorrect == Spec => []TypeOK
  BY InitTypeOK, NextTypeOK, PTL DEF Spec

-----------------------------------------------------------------------------
(* The registry.  Only two steps write it.                                 *)

RegistryInv ==
    /\ KeysAreUnique
    /\ RegistrationIsWhole
    /\ RegisteredAsReceived
    /\ EvidenceAgrees
    /\ CreatedOnce

\* A step that leaves the three tables alone keeps what they promise.
LEMMA RegistryKept ==
    ASSUME RegistryInv, registry' = registry, receipt' = receipt,
           created' = created, onceHeld \subseteq onceHeld'
    PROVE  RegistryInv'
  <1>1. KeysAreUnique' /\ RegistrationIsWhole' /\ EvidenceAgrees' /\ CreatedOnce'
    BY DEF RegistryInv, KeysAreUnique, RegistrationIsWhole, EventPaths,
           EvidenceAgrees, CreatedOnce, registry
  <1>2. RegisteredAsReceived'
    BY DEF RegistryInv, RegisteredAsReceived, HeldOnce, registry
  <1>3. QED
    BY <1>1, <1>2 DEF RegistryInv

\* What a registration relies on when its transaction starts.
LEMMA CommitFinds ==
    ASSUME IndInv, NEW r \in RunIds, Commit(r)
    PROVE  /\ receipt[r] \in Trusted /\ receipt[r] \in Receipts
           /\ HeldOnce(receipt[r])
           /\ Unverified(r) = {}
           /\ GatheredOf(r)
           /\ gathered[r] \subseteq EvidenceRow
           /\ \A b \in baselines : b.path # receipt[r].path
           /\ \A e \in events : e.event # receipt[r].event
           /\ \A e \in events : e.path # receipt[r].path
           /\ \A v \in evidence : v.event # receipt[r].event
           /\ receipt[r].path \notin byHand
  <1>1. /\ receipt[r] \in Trusted /\ receipt[r] \in Receipts
        /\ HeldOnce(receipt[r]) /\ Unverified(r) = {} /\ GatheredOf(r)
        /\ gathered[r] \subseteq EvidenceRow
    BY ReceiptAssumption DEF IndInv, JobKnows, TypeOK, Commit, GoTo
  <1>2. /\ \A b \in baselines : b.path # receipt[r].path
        /\ \A e \in events : e.event # receipt[r].event
    BY DEF Commit, Register, PathTaken, baseline_event_exists
  <1>3. receipt[r].path \notin {b.path : b \in baselines}
    BY <1>2
  <1>4. receipt[r].path \notin byHand /\ receipt[r].path \notin EventPaths
    BY <1>3 DEF IndInv, RegistrationIsWhole
  <1>5. \A e \in events : e.path # receipt[r].path
    BY <1>4 DEF EventPaths
  <1>6. \A v \in evidence : v.event # receipt[r].event
    BY <1>2 DEF IndInv, RegistrationIsWhole
  <1>7. QED
    BY <1>1, <1>2, <1>4, <1>5, <1>6

\* What it writes.
LEMMA CommitWrites ==
    ASSUME NEW r \in RunIds, Commit(r)
    PROVE  /\ baselines' = baselines \cup {RowOf(receipt[r])}
           /\ events' = events \cup {EventOf(receipt[r])}
           /\ evidence' = evidence \cup gathered[r]
           /\ byHand' = byHand /\ receipt' = receipt /\ onceHeld' = onceHeld
           /\ gathered' = gathered /\ runs' = runs
           /\ RowOf(receipt[r]).path = receipt[r].path
           /\ RowOf(receipt[r]).checksum = receipt[r].checksum
           /\ RowOf(receipt[r]).size = receipt[r].size
           /\ EventOf(receipt[r]).event = receipt[r].event
           /\ EventOf(receipt[r]).path = receipt[r].path
           /\ EventOf(receipt[r]).aip = receipt[r].aip
  BY DEF Commit, Register, InsertOrIgnore, PathTaken, RowOf, EventOf, files

LEMMA CommitRegistry ==
    ASSUME IndInv, NEW r \in RunIds, Commit(r)
    PROVE  RegistryInv'
  <1> DEFINE q == receipt[r]
  <1>1. KeysAreUnique'
    <2>1. \A b, c \in baselines' : b.path = c.path => b = c
      BY CommitFinds, CommitWrites DEF IndInv, KeysAreUnique
    <2>2. \A d, e \in events' : d.event = e.event \/ d.path = e.path => d = e
      BY CommitFinds, CommitWrites DEF IndInv, KeysAreUnique
    <2>3. \A v, w \in evidence' :
            v.event = w.event /\ v.replica = w.replica => v = w
      BY CommitFinds, CommitWrites DEF IndInv, KeysAreUnique, GatheredOf
    <2>4. QED
      BY <2>1, <2>2, <2>3 DEF KeysAreUnique
  <1>2. RegistrationIsWhole'
    <2>1. {b.path : b \in baselines'} = {b.path : b \in baselines} \cup {q.path}
      BY CommitWrites
    <2>2. EventPaths' = EventPaths \cup {q.path}
      BY CommitWrites DEF EventPaths
    <2>3. /\ {b.path : b \in baselines'} = byHand' \cup EventPaths'
          /\ byHand' \cap EventPaths' = {}
      BY <2>1, <2>2, CommitFinds, CommitWrites DEF IndInv, RegistrationIsWhole
    <2>4. ASSUME NEW e \in events', NEW t \in Replicas
          PROVE  \E v \in evidence' : v.event = e.event /\ v.replica = t
      <3>1. CASE e \in events
        BY <3>1, CommitWrites DEF IndInv, RegistrationIsWhole
      <3>2. CASE e = EventOf(q)
        <4>1. PICK v \in gathered[r] : v.replica = t
          BY CommitFinds DEF Unverified
        <4>2. v.event = q.event
          BY <4>1, CommitFinds DEF GatheredOf
        <4>3. QED
          BY <3>2, <4>1, <4>2, CommitWrites
      <3>3. QED
        BY <3>1, <3>2, CommitWrites
    <2>5. \A v \in evidence' : \E e \in events' : e.event = v.event
      BY CommitFinds, CommitWrites DEF IndInv, RegistrationIsWhole, GatheredOf
    <2>6. QED
      BY <2>3, <2>4, <2>5 DEF RegistrationIsWhole
  <1>3. RegisteredAsReceived'
    <2>1. ASSUME NEW e \in events, NEW q2 \in Trusted,
                 EventOf(q2) = e, RowOf(q2) \in baselines, HeldOnce(q2),
                 \A v \in evidence : v.event = e.event => v.key = q2.keys[v.replica]
          PROVE  /\ RowOf(q2) \in baselines' /\ HeldOnce(q2)'
                 /\ \A v \in evidence' :
                        v.event = e.event => v.key = q2.keys[v.replica]
      <3>1. RowOf(q2) \in baselines'
        BY <2>1, CommitWrites
      <3>2. HeldOnce(q2)'
        BY <2>1, CommitWrites DEF HeldOnce
      <3>3. \A v \in gathered[r] : v.event # e.event
        BY CommitFinds DEF GatheredOf
      <3>4. QED
        BY <2>1, <3>1, <3>2, <3>3, CommitWrites
    <2>2. /\ RowOf(q) \in baselines' /\ HeldOnce(q)'
          /\ \A v \in evidence' :
                v.event = EventOf(q).event => v.key = q.keys[v.replica]
      BY CommitFinds, CommitWrites DEF GatheredOf, HeldOnce
    <2>3. QED
      BY <2>1, <2>2, CommitFinds, CommitWrites DEF IndInv, RegisteredAsReceived
  <1>4. EvidenceAgrees'
    <2>1. SUFFICES ASSUME NEW v \in evidence', NEW e \in events',
                          NEW b \in baselines', v.event = e.event, b.path = e.path
                   PROVE  v.size = b.size /\ (v.replica \in RequireChecksum => v.verified)
      BY DEF EvidenceAgrees
    <2>2. CASE e \in events
      <3>1. v \in evidence /\ b \in baselines
        BY <2>1, <2>2, CommitFinds, CommitWrites DEF GatheredOf
      <3>2. QED
        BY <2>1, <2>2, <3>1 DEF IndInv, EvidenceAgrees
    <2>3. CASE e = EventOf(q)
      <3>1. v \in gathered[r] /\ b = RowOf(q)
        BY <2>1, <2>3, CommitFinds, CommitWrites
      <3>2. QED
        BY <3>1, CommitFinds, CommitWrites DEF GatheredOf
    <2>4. QED
      BY <2>2, <2>3, CommitWrites
  <1>5. CreatedOnce'
    <2>1. created' = [created EXCEPT ![r] = TRUE] /\ created \in [RunIds -> BOOLEAN]
      BY DEF Commit, IndInv, TypeOK
    <2>2. \A s \in RunIds : created[s] => receipt[s].event # q.event
      BY CommitFinds DEF IndInv, OkRunIsRegistered, RegisteredBy, automatic_baseline_matches
    <2>3. \A s \in RunIds : created'[s] <=> (created[s] \/ s = r)
      BY <2>1
    <2>4. ASSUME NEW e \in events
          PROVE  \E s \in RunIds :
                    /\ created'[s] /\ receipt[s].event = e.event
                    /\ \A u \in RunIds :
                        created'[u] /\ receipt[u].event = e.event => u = s
      BY <2>3, CommitFinds DEF IndInv, CreatedOnce
    <2>5. /\ created'[r] /\ receipt[r].event = EventOf(q).event
          /\ \A u \in RunIds :
                created'[u] /\ receipt[u].event = EventOf(q).event => u = r
      BY <2>2, <2>3, CommitWrites
    <2>6. QED
      BY <2>4, <2>5, CommitWrites DEF CreatedOnce
  <1>6. QED
    BY <1>1, <1>2, <1>3, <1>4, <1>5 DEF RegistryInv

\* The "baseline" command adds a row only where there is none, so the events
\* and their evidence keep meaning what they meant.
LEMMA HandWrites ==
    ASSUME IndInv, NEW f \in Files, BaselineCommand(f)
    PROVE  /\ UNCHANGED <<events, evidence, runs, pc, receipt, created,
                          gathered, onceHeld>>
           /\ \/ baselines' = baselines /\ byHand' = byHand
              \/ /\ \A b \in baselines : b.path # f
                 /\ \E row \in BaselineRow :
                     row.path = f /\ baselines' = baselines \cup {row}
                 /\ byHand' = byHand \cup {f}
  <1>1. PICK c \in Content :
            add_baseline([path |-> f, checksum |-> c.checksum, size |-> c.size])
    BY DEF BaselineCommand
  <1>2. [path |-> f, checksum |-> c.checksum, size |-> c.size] \in BaselineRow
    BY PathAssumption DEF Content, BaselineRow
  <1>3. QED
    BY <1>1, <1>2
       DEF BaselineCommand, add_baseline, InsertOrIgnore, PathTaken,
           files, locals

LEMMA HandRegistry ==
    ASSUME IndInv, NEW f \in Files, BaselineCommand(f)
    PROVE  RegistryInv'
  <1>1. CASE baselines' = baselines /\ byHand' = byHand
    BY <1>1, HandWrites, RegistryKept DEF IndInv, RegistryInv, registry
  <1>2. ASSUME \A b \in baselines : b.path # f,
               NEW row \in BaselineRow, row.path = f,
               baselines' = baselines \cup {row}, byHand' = byHand \cup {f}
        PROVE  RegistryInv'
    <2>1. f \notin EventPaths
      <3>1. f \notin {b.path : b \in baselines}
        BY <1>2
      <3>2. QED
        BY <3>1 DEF IndInv, RegistrationIsWhole
    <2>2. KeysAreUnique'
      BY <1>2, HandWrites DEF IndInv, KeysAreUnique
    <2>3. RegistrationIsWhole'
      <3>1. {b.path : b \in baselines'} = {b.path : b \in baselines} \cup {f}
        BY <1>2
      <3>2. EventPaths' = EventPaths
        BY HandWrites DEF EventPaths
      <3>3. QED
        BY <1>2, <2>1, <3>1, <3>2, HandWrites DEF IndInv, RegistrationIsWhole
    <2>4. RegisteredAsReceived'
      <3>1. \A q \in Trusted : HeldOnce(q) => HeldOnce(q)'
        BY HandWrites DEF HeldOnce
      <3>2. baselines \subseteq baselines'
        BY <1>2
      <3>3. QED
        BY <3>1, <3>2, HandWrites DEF IndInv, RegisteredAsReceived
    <2>5. EvidenceAgrees'
      BY <1>2, <2>1, HandWrites DEF IndInv, EvidenceAgrees, EventPaths
    <2>6. CreatedOnce'
      BY HandWrites DEF IndInv, CreatedOnce
    <2>7. QED
      BY <2>2, <2>3, <2>4, <2>5, <2>6 DEF RegistryInv
  <1>3. QED
    BY <1>1, <1>2, HandWrites

\* Every other step leaves the registry alone.
LEMMA QuietSteps ==
    ASSUME NEW r \in RunIds, Job(r) \/ Crash(r), ~Commit(r)
    PROVE  registry' = registry /\ created' = created /\ UNCHANGED <<receipt, files>>
  <1> USE DEF storeVars, registry, files, locals
  <1>1. CASE Start(r)
    BY <1>1 DEF Start, create_run
  <1>2. CASE Load(r) \/ RejectReceipt(r) \/ HashFile(r) \/ RejectFile(r)
    BY <1>2 DEF Load, RejectReceipt, HashFile, RejectFile
  <1>3. CASE \E t \in Replicas : HeadReplica(r, t)
    BY <1>3 DEF HeadReplica
  <1>4. CASE RejectReplica(r) \/ ConfirmRepeat(r) \/ RejectConflict(r)
             \/ CheckRaises(r) \/ Crash(r)
    BY <1>4 DEF RejectReplica, ConfirmRepeat, RejectConflict, CheckRaises, Crash
  <1>5. CASE RejectTaken(r) \/ RaiseAtCommit(r)
    BY <1>5 DEF RejectTaken, RegistrationIgnored, RaiseAtCommit, RegistrationRaises
  <1>6. CASE Finish(r) \/ Fail(r)
    BY <1>6 DEF Finish, Fail, finish_run
  <1>7. QED
    BY <1>1, <1>2, <1>3, <1>4, <1>5, <1>6 DEF Job

LEMMA RegistryStep == IndInv /\ [Next]_vars => RegistryInv'
  <1>1. SUFFICES ASSUME IndInv, [Next]_vars PROVE RegistryInv'
    OBVIOUS
  <1>2. RegistryInv
    BY <1>1 DEF IndInv, RegistryInv
  <1>3. CASE UNCHANGED vars
    BY <1>2, <1>3, RegistryKept DEF vars, storeVars, registry, files, locals
  <1>4. ASSUME NEW r \in RunIds, Job(r) \/ Crash(r) PROVE RegistryInv'
    <2>1. CASE Commit(r)
      BY <1>1, <2>1, CommitRegistry
    <2>2. CASE ~Commit(r)
      BY <1>2, <1>4, <2>2, QuietSteps, RegistryKept DEF files
    <2>3. QED
      BY <2>1, <2>2
  <1>5. ASSUME NEW f \in Files, FileChanges(f) PROVE RegistryInv'
    <2>1. /\ registry' = registry /\ receipt' = receipt /\ created' = created
          /\ onceHeld \subseteq onceHeld'
      BY <1>5 DEF FileChanges, storeVars, registry, locals
    <2>2. QED
      BY <1>2, <2>1, RegistryKept
  <1>6. ASSUME NEW f \in Files, BaselineCommand(f) PROVE RegistryInv'
    BY <1>1, <1>6, HandRegistry
  <1>7. QED
    BY <1>1, <1>3, <1>4, <1>5, <1>6 DEF Next

\* A registration, once there, is there for good.
LEMMA RegisteredStays ==
    ASSUME IndInv, [Next]_vars, NEW s \in RunIds, RegisteredBy(receipt[s])
    PROVE  RegisteredBy(receipt[s])'
  <1>1. baselines \subseteq baselines' /\ events \subseteq events' /\ receipt' = receipt
    <2>1. ASSUME NEW r \in RunIds, Job(r) \/ Crash(r)
          PROVE  baselines \subseteq baselines' /\ events \subseteq events'
                 /\ receipt' = receipt
      BY <2>1, CommitWrites, QuietSteps DEF registry
    <2>2. ASSUME NEW f \in Files, FileChanges(f)
          PROVE  baselines' = baselines /\ events' = events /\ receipt' = receipt
      BY <2>2 DEF FileChanges, storeVars, locals
    <2>3. ASSUME NEW f \in Files, BaselineCommand(f)
          PROVE  baselines \subseteq baselines' /\ events' = events
                 /\ receipt' = receipt
      BY <2>3, HandWrites
    <2>4. QED
      BY <2>1, <2>2, <2>3 DEF Next, vars, storeVars, locals
  <1>2. QED
    BY <1>1 DEF RegisteredBy, automatic_baseline_matches

-----------------------------------------------------------------------------
(* The jobs.                                                               *)

LEMMA InitIndInv == Init => IndInv
  <1>1. SUFFICES ASSUME Init PROVE IndInv
    OBVIOUS
  <1>2. TypeOK
    BY <1>1, InitTypeOK
  <1>3. KeysAreUnique /\ RegistrationIsWhole /\ RegisteredAsReceived
        /\ EvidenceAgrees /\ CreatedOnce
    BY <1>1 DEF Init, StoreInit, KeysAreUnique, RegistrationIsWhole, EventPaths,
                RegisteredAsReceived, EvidenceAgrees, CreatedOnce
  <1>4. OkRunIsRegistered
    BY <1>1 DEF Init, StoreInit, OkRunIsRegistered
  <1>5. DiskIsObserved
    <2>1. ASSUME NEW f \in Files, disk[f] # Absent
          PROVE  <<f, disk[f]>> \in onceHeld
      <3>1. <<f, disk[f]>> \in Files \X Content
        BY <1>1, <2>1 DEF Init
      <3>2. QED
        BY <1>1, <3>1 DEF Init
    <2>2. QED
      BY <2>1 DEF DiskIsObserved
  <1>6. ASSUME NEW r \in RunIds PROVE JobKnows(r)
    BY <1>1 DEF Init, StoreInit, JobKnows, GatheredOf
  <1>7. QED
    BY <1>2, <1>3, <1>4, <1>5, <1>6 DEF IndInv

LEMMA DiskStep == IndInv /\ [Next]_vars => DiskIsObserved'
  <1>1. SUFFICES ASSUME IndInv, [Next]_vars, NEW f \in Files, disk'[f] # Absent
                 PROVE  <<f, disk'[f]>> \in onceHeld'
    BY DEF DiskIsObserved
  <1>2. CASE UNCHANGED files
    BY <1>1, <1>2 DEF IndInv, DiskIsObserved, files
  <1>3. ASSUME NEW g \in Files, FileChanges(g)
        PROVE  <<f, disk'[f]>> \in onceHeld'
    <2>1. PICK c \in Content \cup {Absent} :
            /\ disk' = [disk EXCEPT ![g] = c]
            /\ onceHeld' = onceHeld \cup ({<<g, c>>} \cap (Files \X Content))
      BY <1>3 DEF FileChanges
    <2>2. CASE f = g
      BY <1>1, <2>1, <2>2 DEF IndInv, TypeOK
    <2>3. CASE f # g
      BY <1>1, <2>1, <2>3 DEF IndInv, TypeOK, DiskIsObserved
    <2>4. QED
      BY <2>2, <2>3
  <1>4. ASSUME NEW r \in RunIds, Job(r) \/ Crash(r)
        PROVE  UNCHANGED files
    BY <1>4, QuietSteps DEF Commit
  <1>5. ASSUME NEW g \in Files, BaselineCommand(g)
        PROVE  UNCHANGED files
    BY <1>5 DEF BaselineCommand
  <1>6. QED
    BY <1>1, <1>2, <1>3, <1>4, <1>5 DEF Next, vars

\* A job keeps what it knows while others move.
LEMMA KnowsStays ==
    ASSUME IndInv, [Next]_vars, NEW s \in RunIds, pc'[s] = pc[s],
           gathered'[s] = gathered[s], receipt' = receipt,
           runs'[s] = runs[s], onceHeld \subseteq onceHeld'
    PROVE  JobKnows(s)'
  <1>1. JobKnows(s)
    BY DEF IndInv
  <1>2. RegisteredBy(receipt[s]) => RegisteredBy(receipt[s])'
    BY RegisteredStays
  <1>3. GatheredOf(s)' /\ (Unverified(s) = {} => Unverified(s)' = {})
    BY <1>1 DEF JobKnows, GatheredOf, Unverified
  <1>4. HeldOnce(receipt[s]) => HeldOnce(receipt[s])'
    BY DEF HeldOnce
  <1>5. QED
    BY <1>1, <1>2, <1>3, <1>4 DEF JobKnows

\* Steps of one job are invisible in the control state of another.
LEMMA OthersStand ==
    ASSUME TypeOK, NEW r \in RunIds, Job(r) \/ Crash(r), NEW s \in RunIds, s # r
    PROVE  pc'[s] = pc[s] /\ gathered'[s] = gathered[s] /\ runs'[s] = runs[s]
  <1> USE DEF storeVars, locals, GoTo, TypeOK, StoreTypeOK
  <1>1. CASE Start(r)
    BY <1>1 DEF Start, create_run
  <1>2. CASE Load(r) \/ RejectReceipt(r) \/ HashFile(r) \/ RejectFile(r)
    BY <1>2 DEF Load, RejectReceipt, HashFile, RejectFile
  <1>3. CASE \E t \in Replicas : HeadReplica(r, t)
    BY <1>3 DEF HeadReplica
  <1>4. CASE RejectReplica(r) \/ ConfirmRepeat(r) \/ RejectConflict(r)
             \/ CheckRaises(r) \/ Crash(r)
    BY <1>4 DEF RejectReplica, ConfirmRepeat, RejectConflict, CheckRaises, Crash
  <1>5. CASE Commit(r) \/ RejectTaken(r) \/ RaiseAtCommit(r)
    BY <1>5 DEF Commit, Register, RejectTaken, RegistrationIgnored,
                RaiseAtCommit, RegistrationRaises
  <1>6. CASE Finish(r) \/ Fail(r)
    BY <1>6 DEF Finish, Fail, finish_run
  <1>7. QED
    BY <1>1, <1>2, <1>3, <1>4, <1>5, <1>6 DEF Job

\* The steps of a job leave it knowing what its next step relies on.
LEMMA KnowsStep ==
    ASSUME IndInv, [Next]_vars, NEW r \in RunIds, Job(r) \/ Crash(r)
    PROVE  JobKnows(r)'
  <1> USE DEF GoTo
  <1>1. /\ JobKnows(r) /\ TypeOK
    BY DEF IndInv
  <1>2. receipt' = receipt /\ onceHeld' = onceHeld
    BY QuietSteps, CommitWrites DEF files
  <1>3. HeldOnce(receipt[r])' <=> HeldOnce(receipt[r])
    BY <1>2 DEF HeldOnce
  <1>4. RegisteredBy(receipt[r]) => RegisteredBy(receipt[r])'
    BY RegisteredStays
  <1>5. ASSUME gathered' = gathered
        PROVE  GatheredOf(r)' /\ (Unverified(r)' = Unverified(r))
    BY <1>1, <1>2, <1>5 DEF JobKnows, GatheredOf, Unverified
  <1>6. CASE Start(r)
    BY <1>1, <1>2, <1>5, <1>6 DEF Start, create_run, JobKnows, TypeOK, StoreTypeOK, locals
  <1>7. CASE Load(r) \/ RejectReceipt(r) \/ RejectFile(r) \/ RejectReplica(r)
             \/ RejectConflict(r) \/ CheckRaises(r) \/ Crash(r)
    BY <1>1, <1>2, <1>5, <1>7
       DEF Load, RejectReceipt, RejectFile, RejectReplica, RejectConflict,
           CheckRaises, Crash, JobKnows, TypeOK, StoreTypeOK, storeVars, locals
  <1>8. CASE HashFile(r)
    <2>1. HeldOnce(receipt[r])
      <3>1. /\ FileAt[receipt[r].path] \in Files
            /\ disk[FileAt[receipt[r].path]] \in Content
            /\ disk[FileAt[receipt[r].path]]
                 = [checksum |-> receipt[r].checksum, size |-> receipt[r].size]
        BY <1>1, <1>8, ReceiptFields DEF HashFile, Describes, TypeOK
      <3>2. QED
        BY <3>1, AbsentAssumption DEF IndInv, DiskIsObserved, HeldOnce
    <2>2. QED
      BY <1>1, <1>2, <1>3, <1>5, <1>8, <2>1
         DEF HashFile, JobKnows, TypeOK, storeVars, locals
  <1>9. ASSUME NEW t \in Replicas, HeadReplica(r, t)
        PROVE  JobKnows(r)'
    <2>1. PICK a \in Answer :
            /\ Accepts(t, a, receipt[r].size, receipt[r].checksum)
            /\ gathered' = [gathered EXCEPT ![r] = @ \cup
                  {EvidenceFor(receipt[r].event, t, receipt[r].keys[t], a)}]
      BY <1>9 DEF HeadReplica
    <2> DEFINE x == EvidenceFor(receipt[r].event, t, receipt[r].keys[t], a)
    <2>2. gathered'[r] = gathered[r] \cup {x}
      BY <1>1, <2>1 DEF TypeOK
    <2>3. /\ x.event = receipt[r].event /\ x.replica = t
          /\ x.key = receipt[r].keys[t] /\ x.size = receipt[r].size
          /\ t \in RequireChecksum => x.verified
      <3>1. /\ x.event = receipt[r].event /\ x.replica = t
            /\ x.key = receipt[r].keys[t] /\ x.size = receipt[r].size
        BY <2>1 DEF Accepts, EvidenceFor
      <3>2. t \in RequireChecksum => a.checksum # NoChecksum
        BY <1>1, <2>1, ReceiptFields, NoChecksumAssumption
           DEF Accepts, ChecksumAccepted, TypeOK
      <3>3. x.verified = (a.checksum # NoChecksum)
        BY DEF EvidenceFor
      <3>4. QED
        BY <3>1, <3>2, <3>3, Zenon
    <2> HIDE DEF x
    <2>4. GatheredOf(r)'
      <3>1. \A v \in gathered[r] : v.replica # t
        BY <1>9 DEF HeadReplica, Unverified
      <3>2. QED
        BY <1>1, <1>2, <2>2, <2>3, <3>1 DEF JobKnows, GatheredOf
    <2>5. Unverified(r)' = Unverified(r) \ {t}
      BY <2>2, <2>3 DEF Unverified
    <2>6. QED
      BY <1>1, <1>2, <1>3, <1>9, <2>4, <2>5
         DEF HeadReplica, NextAfterHead, JobKnows, TypeOK, StoreTypeOK, storeVars
  <1>10. CASE ConfirmRepeat(r)
    BY <1>1, <1>2, <1>4, <1>5, <1>10
       DEF ConfirmRepeat, RegisteredBy, JobKnows, TypeOK, storeVars, locals
  <1>11. CASE Commit(r)
    <2>1. RegisteredBy(receipt[r])'
      BY <1>1, <1>11, CommitWrites DEF RegisteredBy, automatic_baseline_matches
    <2>2. QED
      BY <1>1, <1>2, <1>5, <1>11, <2>1, CommitWrites DEF Commit, JobKnows, TypeOK
  <1>12. CASE RejectTaken(r) \/ RaiseAtCommit(r)
    BY <1>1, <1>2, <1>5, <1>12
       DEF RejectTaken, RegistrationIgnored, RaiseAtCommit, RegistrationRaises,
           JobKnows, TypeOK, storeVars, locals
  <1>13. CASE Finish(r) \/ Fail(r)
    BY <1>1, <1>2, <1>5, <1>13
       DEF Finish, Fail, finish_run, JobKnows, TypeOK, StoreTypeOK, locals
  <1>14. QED
    BY <1>6, <1>7, <1>8, <1>9, <1>10, <1>11, <1>12, <1>13 DEF Job

LEMMA JobsStep == IndInv /\ [Next]_vars => \A s \in RunIds : JobKnows(s)'
  <1>1. SUFFICES ASSUME IndInv, [Next]_vars, NEW s \in RunIds PROVE JobKnows(s)'
    OBVIOUS
  <1>2. ASSUME NEW r \in RunIds, Job(r) \/ Crash(r) PROVE JobKnows(s)'
    <2>1. CASE s = r
      BY <1>1, <1>2, <2>1, KnowsStep
    <2>2. CASE s # r
      <3>1. receipt' = receipt /\ onceHeld' = onceHeld
        BY <1>2, QuietSteps, CommitWrites DEF files
      <3>2. pc'[s] = pc[s] /\ gathered'[s] = gathered[s] /\ runs'[s] = runs[s]
        BY <1>1, <1>2, <2>2, OthersStand DEF IndInv
      <3>3. QED
        BY <1>1, <3>1, <3>2, KnowsStays
    <2>3. QED
      BY <2>1, <2>2
  <1>3. ASSUME NEW f \in Files, FileChanges(f) PROVE JobKnows(s)'
    <2>1. UNCHANGED <<pc, gathered, receipt, runs>> /\ onceHeld \subseteq onceHeld'
      BY <1>3 DEF FileChanges, storeVars, locals
    <2>2. QED
      BY <1>1, <2>1, KnowsStays
  <1>4. ASSUME NEW f \in Files, BaselineCommand(f) PROVE JobKnows(s)'
    BY <1>1, <1>4, HandWrites, KnowsStays
  <1>5. CASE UNCHANGED vars
    BY <1>1, <1>5, KnowsStays DEF vars, storeVars, files, locals
  <1>6. QED
    BY <1>1, <1>2, <1>3, <1>4, <1>5 DEF Next

\* A run is marked PASS or WARNING only by a job that has reached its check.
LEMMA OkRunStep == IndInv /\ [Next]_vars => OkRunIsRegistered'
  <1>1. SUFFICES ASSUME IndInv, [Next]_vars, NEW s \in RunIds,
                        runs'[s].status \in {"PASS", "WARNING"} \/ created'[s]
                 PROVE  RegisteredBy(receipt[s])'
    BY DEF OkRunIsRegistered
  <1>4. ASSUME runs'[s] = runs[s], created'[s] = created[s]
        PROVE  RegisteredBy(receipt[s])'
    <2>1. RegisteredBy(receipt[s])
      BY <1>1, <1>4 DEF IndInv, OkRunIsRegistered
    <2>2. QED
      BY <1>1, <2>1, RegisteredStays
  <1>5. ASSUME NEW r \in RunIds, Job(r) \/ Crash(r)
        PROVE  RegisteredBy(receipt[s])'
    <2>1. CASE s # r
      <3>1. runs'[s] = runs[s]
        BY <1>1, <1>5, <2>1, OthersStand DEF IndInv
      <3>2. created'[s] = created[s]
        BY <1>1, <1>5, <2>1, QuietSteps DEF Commit, IndInv, TypeOK
      <3>3. QED
        BY <1>4, <3>1, <3>2
    <2>2. CASE s = r /\ Commit(r)
      BY <2>2, CommitWrites DEF RegisteredBy, automatic_baseline_matches
    <2>3. CASE s = r /\ Finish(r)
      <3>1. RegisteredBy(receipt[s])
        BY <1>1, <2>3 DEF Finish, GoTo, IndInv, JobKnows
      <3>2. QED
        BY <1>1, <3>1, RegisteredStays
    <2>4. CASE s = r /\ ~Commit(r) /\ ~Finish(r)
      <3>1. created'[s] = created[s]
        BY <1>5, <2>4, QuietSteps
      <3>2. runs'[s] = runs[s] \/ runs'[s].status \in {"RUNNING", "FAIL"}
        BY <1>1, <1>5, <2>4
           DEF Job, Start, create_run, Load, RejectReceipt, HashFile, RejectFile,
               HeadReplica, RejectReplica, ConfirmRepeat, RejectConflict,
               RejectTaken, RegistrationIgnored, RaiseAtCommit,
               RegistrationRaises, CheckRaises, Fail, finish_run, Crash,
               storeVars, IndInv, TypeOK, StoreTypeOK
      <3>3. runs'[s] = runs[s] \/ created[s]
        BY <1>1, <3>1, <3>2
      <3>4. QED
        <4>1. CASE created[s]
          BY <1>1, <4>1, RegisteredStays DEF IndInv, OkRunIsRegistered
        <4>2. CASE runs'[s] = runs[s]
          BY <1>4, <3>1, <4>2
        <4>3. QED
          BY <3>3, <4>1, <4>2
    <2>5. QED
      BY <2>1, <2>2, <2>3, <2>4
  <1>6. ASSUME NEW f \in Files, FileChanges(f) \/ BaselineCommand(f)
        PROVE  runs' = runs /\ created' = created
    BY <1>6 DEF FileChanges, BaselineCommand, add_baseline, storeVars, locals
  <1>7. QED
    BY <1>1, <1>4, <1>5, <1>6 DEF Next, vars, storeVars, locals

-----------------------------------------------------------------------------
(* The theorems.                                                           *)

\* The invariant the jobs keep together: what each of them has established,
\* and what the three tables and the runs say of each other.
THEOREM Inductive == Spec => []IndInv
  <1>1. Init => IndInv
    BY InitIndInv
  <1>2. IndInv /\ [Next]_vars => IndInv'
    <2>1. IndInv => TypeOK
      BY DEF IndInv
    <2>2. QED
      BY <2>1, NextTypeOK, RegistryStep, DiskStep, JobsStep, OkRunStep
         DEF IndInv, RegistryInv
  <1>3. QED
    BY <1>1, <1>2, PTL DEF Spec

\* add_automatic_baseline is all or nothing, whatever crashes and races.
THEOREM Whole == Spec => []RegistrationIsWhole
  BY Inductive, PTL DEF IndInv

\* An automatic registration is one trusted receipt, confirmed on disk, never
\* a mixture of two.
THEOREM AsReceived == Spec => []RegisteredAsReceived
  BY Inductive, PTL DEF IndInv

\* The evidence of the replicas describes the object the baseline describes.
THEOREM Agreement == Spec => []EvidenceAgrees
  BY Inductive, PTL DEF IndInv

\* A run reported PASS or WARNING is backed by the registry.
THEOREM OkIsRegistered == Spec => []OkRunIsRegistered
  BY Inductive, PTL DEF IndInv

\* No event is registered twice.
THEOREM RegisteredOnce == Spec => []CreatedOnce
  BY Inductive, PTL DEF IndInv
-----------------------------------------------------------------------------
(***************************************************************************)
(* AutoBaseline implements SealedRegistry: the joined tables start empty   *)
(* and every step seals one entry or changes none.                         *)
(***************************************************************************)

CopyOf(v) == [replica |-> v.replica, key |-> v.key, size |-> v.size,
              verified |-> v.verified]

EntryOf(b) == [path |-> b.path, checksum |-> b.checksum, size |-> b.size,
               origin |-> OriginOf(b.path), copies |-> CopiesOf(b.path)]

LEMMA EntriesAreJoined == Entries = {EntryOf(b) : b \in baselines}
  BY DEF Entries, EntryOf

\* An entry changes only if its baseline, its event or its evidence does.
LEMMA EntriesKept ==
    ASSUME registry' = registry
    PROVE  Entries' = Entries
  BY DEF registry, Entries, OriginOf, CopiesOf

\* The entries there were keep their origin and their copies when the step
\* only adds an event of another path with evidence of that event.
LEMMA CommitKeepsEntries ==
    ASSUME IndInv, NEW r \in RunIds, Commit(r)
    PROVE  /\ \A b \in baselines : EntryOf(b)' = EntryOf(b)
           /\ Entries' = Entries \cup {EntryOf(RowOf(receipt[r]))'}
  <1>1. ASSUME NEW b \in baselines
        PROVE  OriginOf(b.path)' = OriginOf(b.path)
    <2>1. {d \in events' : d.path = b.path} = {d \in events : d.path = b.path}
      BY CommitFinds, CommitWrites
    <2>2. QED
      BY <2>1 DEF OriginOf
  <1>2. ASSUME NEW b \in baselines
        PROVE  CopiesOf(b.path)' = CopiesOf(b.path)
    <2>1. ASSUME NEW w \in evidence'
          PROVE  (\E e \in events' : e.path = b.path /\ e.event = w.event)
                   <=> (w \in evidence /\ \E e \in events : e.path = b.path /\ e.event = w.event)
      BY CommitFinds, CommitWrites DEF GatheredOf
    <2>2. {w \in evidence' : \E e \in events' : e.path = b.path /\ e.event = w.event}
            = {w \in evidence : \E e \in events : e.path = b.path /\ e.event = w.event}
      BY <2>1, CommitWrites
    <2>3. QED
      BY <2>2 DEF CopiesOf
  <1>3. \A b \in baselines : EntryOf(b)' = EntryOf(b)
    BY <1>1, <1>2 DEF EntryOf
  <1>4. Entries' = {EntryOf(b)' : b \in baselines'}
    BY DEF Entries, EntryOf
  <1>5. QED
    BY <1>3, <1>4, EntriesAreJoined, CommitWrites

\* What a registration adds is an entry with one copy in every replica.
LEMMA CommitSeals ==
    ASSUME IndInv, NEW r \in RunIds, Commit(r)
    PROVE  Sealed!Seal
  <1> DEFINE q == receipt[r]
             o == [event |-> q.event, aip |-> q.aip]
             n == [path |-> q.path, checksum |-> q.checksum, size |-> q.size,
                   origin |-> {o}, copies |-> {CopyOf(v) : v \in gathered[r]}]
  <1>1. OriginOf(q.path)' = {o}
    <2>1. {d \in events' : d.path = q.path} = {EventOf(q)}
      BY CommitFinds, CommitWrites
    <2>2. QED
      BY <2>1, CommitWrites DEF OriginOf
  <1>2. CopiesOf(q.path)' = {CopyOf(v) : v \in gathered[r]}
    <2>1. ASSUME NEW w \in evidence'
          PROVE  (\E e \in events' : e.path = q.path /\ e.event = w.event)
                   <=> w \in gathered[r]
      BY CommitFinds, CommitWrites DEF GatheredOf
    <2>2. {w \in evidence' : \E e \in events' : e.path = q.path /\ e.event = w.event}
            = gathered[r]
      BY <2>1, CommitWrites
    <2>3. QED
      BY <2>2, CommitWrites DEF CopiesOf, CopyOf
  <1>3. EntryOf(RowOf(q))' = n
    <2>1. EntryOf(RowOf(q))' =
            [path |-> q.path, checksum |-> q.checksum, size |-> q.size,
             origin |-> OriginOf(q.path)', copies |-> CopiesOf(q.path)']
      BY CommitWrites DEF EntryOf, RowOf
    <2>2. QED
      BY <1>1, <1>2, <2>1
  <1>4. Entries' = Entries \cup {n}
    BY <1>3, CommitKeepsEntries
  <1>5. n \in Sealed!Entry
    <2>1. \A v \in gathered[r] : CopyOf(v) \in Sealed!Copy
      BY CommitFinds DEF CopyOf, EvidenceRow, Sealed!Copy
    <2>2. {o} \in Sealed!Origin
      BY CommitFinds, ReceiptFields DEF Sealed!Origin
    <2>3. QED
      BY <2>1, <2>2, CommitFinds, ReceiptFields DEF Sealed!Entry
  <1>6. Sealed!Evidenced(n)
    <2>1. \A c \in n.copies : c.size = n.size
      BY CommitFinds DEF GatheredOf, CopyOf
    <2>2. ASSUME NEW t \in Replicas
          PROVE  \E c \in n.copies :
                    c.replica = t /\ \A d \in n.copies : d.replica = t => d = c
      <3>1. PICK v \in gathered[r] : v.replica = t
        BY CommitFinds DEF Unverified
      <3>2. \A w \in gathered[r] : w.replica = t => w = v
        BY <3>1, CommitFinds DEF GatheredOf
      <3>3. CopyOf(v).replica = t
        BY <3>1 DEF CopyOf
      <3>4. \A w \in gathered[r] : CopyOf(w).replica = t => CopyOf(w) = CopyOf(v)
        BY <3>2 DEF CopyOf
      <3>5. QED
        BY <3>3, <3>4
    <2>3. QED
      BY <2>1, <2>2 DEF Sealed!Evidenced
  <1>7. ASSUME NEW m \in Entries
        PROVE  /\ m.path # n.path
               /\ \A p \in m.origin, s \in n.origin : p.event # s.event
    <2>1. PICK b \in baselines : m = EntryOf(b)
      BY EntriesAreJoined
    <2>2. m.path = b.path /\ m.origin = OriginOf(b.path)
      BY <2>1 DEF EntryOf
    <2>3. QED
      BY <2>2, CommitFinds DEF OriginOf
  <1>8. QED
    BY <1>4, <1>5, <1>6, <1>7 DEF Sealed!Seal

\* What the "baseline" command adds is an entry without origin or copies.
LEMMA HandSeals ==
    ASSUME IndInv, NEW f \in Files, BaselineCommand(f)
    PROVE  Sealed!Seal \/ Entries' = Entries
  <1>1. CASE baselines' = baselines /\ byHand' = byHand
    BY <1>1, HandWrites, EntriesKept DEF registry
  <1>2. ASSUME \A b \in baselines : b.path # f,
               NEW row \in BaselineRow, row.path = f,
               baselines' = baselines \cup {row}
        PROVE  Sealed!Seal
    <2>1. events' = events /\ evidence' = evidence
      BY HandWrites
    <2>2. \A b : EntryOf(b)' = [path |-> b.path, checksum |-> b.checksum,
                                size |-> b.size, origin |-> OriginOf(b.path),
                                copies |-> CopiesOf(b.path)]
      BY <2>1 DEF EntryOf, OriginOf, CopiesOf
    <2>3. f \notin EventPaths
      <3>1. f \notin {b.path : b \in baselines}
        BY <1>2
      <3>2. QED
        BY <3>1 DEF IndInv, RegistrationIsWhole
    <2>4. OriginOf(f) = {} /\ CopiesOf(f) = {}
      BY <2>3 DEF EventPaths, OriginOf, CopiesOf
    <2> DEFINE n == [path |-> row.path, checksum |-> row.checksum,
                     size |-> row.size, origin |-> {}, copies |-> {}]
    <2>5. Entries' = Entries \cup {n}
      <3>1. Entries' = {[path |-> b.path, checksum |-> b.checksum,
                         size |-> b.size, origin |-> OriginOf(b.path),
                         copies |-> CopiesOf(b.path)] : b \in baselines'}
        BY <2>1 DEF Entries, OriginOf, CopiesOf
      <3>2. QED
        BY <1>2, <2>4, <3>1 DEF Entries
    <2>6. n \in Sealed!Entry /\ Sealed!Evidenced(n)
      BY <1>2 DEF Sealed!Entry, Sealed!Evidenced, Sealed!Origin, BaselineRow
    <2>7. \A m \in Entries : m.path # n.path
      BY <1>2 DEF Entries
    <2>8. n.origin = {} /\ n \in Entries'
      BY <2>5
    <2> HIDE DEF n
    <2>9. QED
      BY <2>5, <2>6, <2>7, <2>8 DEF Sealed!Seal
  <1>3. QED
    BY <1>1, <1>2, HandWrites

LEMMA StepSeals == IndInv /\ [Next]_vars => [Sealed!Seal]_Entries
  <1>1. SUFFICES ASSUME IndInv, [Next]_vars PROVE Sealed!Seal \/ Entries' = Entries
    OBVIOUS
  <1>2. ASSUME NEW r \in RunIds, Job(r) \/ Crash(r)
        PROVE  Sealed!Seal \/ Entries' = Entries
    BY <1>1, <1>2, CommitSeals, QuietSteps, EntriesKept
  <1>3. ASSUME NEW f \in Files, FileChanges(f)
        PROVE  Entries' = Entries
    BY <1>3, EntriesKept DEF FileChanges, storeVars, registry
  <1>4. ASSUME NEW f \in Files, BaselineCommand(f)
        PROVE  Sealed!Seal \/ Entries' = Entries
    BY <1>1, <1>4, HandSeals
  <1>5. CASE UNCHANGED vars
    BY <1>5, EntriesKept DEF vars, storeVars, registry
  <1>6. QED
    BY <1>1, <1>2, <1>3, <1>4, <1>5 DEF Next

\* The jobs, whatever their number and interleaving, give the registry the
\* behaviours of SealedRegistry and no others.
THEOREM Refinement == Spec => RegistryIsSealed
  <1>1. Init => Sealed!Init
    BY DEF Init, StoreInit, Entries, Sealed!Init
  <1>2. QED
    BY <1>1, StepSeals, Inductive, PTL DEF Spec, RegistryIsSealed, Sealed!Spec

-----------------------------------------------------------------------------
(***************************************************************************)
(* The replica audit, which asks the replicas again for what the jobs have *)
(* registered and judges the answers as they do.                           *)
(***************************************************************************)

\* What the keys of the tables come to: a row of evidence is the only one of its
\* event and replica, and what it is joined with is unique as well.
JoinIsUnique ==
    /\ \A i, j \in evidence : i.event = j.event /\ i.replica = j.replica => i = j
    /\ \A e, f \in events : e.event = f.event => e = f
    /\ \A a, b \in baselines : a.path = b.path => a = b
    /\ \A i \in evidence : baseline_event_exists(i.event)

\* An audit has a verdict made of its results, or is about to give one.
Concluded(r) ==
    pc[r] = "finish" \/ runs[r].status = "PASS" \/ runs[r].complete

Progress(r) ==
    /\ pc[r] = "idle" => runs[r].status = "ABSENT" /\ during[r] = {}
    /\ pc[r] \in {"load", "read", "ask", "finish", "fail", "dead"} =>
         runs[r].status = "RUNNING"
    /\ pc[r] # "done" => ~runs[r].complete
    /\ pc[r] \in {"idle", "load", "read"} => noted[r] = {}
    /\ pc[r] \in {"idle", "load", "read", "ask"} => results[r] = {}
    /\ results[r] \in {{}, noted[r]}

\* What it has asked for covers what was registered when it started.
Covers(r) ==
    /\ atStart[r] \subseteq RegisteredReplicas /\ asked[r] \subseteq RegisteredReplicas
    /\ pc[r] = "ask" \/ Concluded(r) => atStart[r] \subseteq asked[r]

Watches(r) == pc[r] # "idle" => \A p \in Places : <<p, object[p]>> \in during[r]

\* What a result rests on.
HeldAsRegistered(r, x) ==
    /\ targets[r][x.replica] = x.bucket
    /\ \E o \in Object : HeldDuring(r, x, o) /\ o.size = x.size
          /\ \/ o.checksum = x.checksum
             \/ o.checksum = NoChecksum /\ x.replica \notin RequireChecksum

HeldOtherwise(r, x, code) ==
    \/ code = "REPLICA_MISSING" /\ HeldDuring(r, x, Missing)
    \/ /\ code = "REPLICA_SIZE_MISMATCH"
       /\ \E o \in Object :
             HeldDuring(r, x, o) /\ (o.size # x.size \/ x.replica \in Sizeless)
    \/ /\ code = "REPLICA_CHECKSUM_MISMATCH"
       /\ \E o \in Object :
             HeldDuring(r, x, o) /\ o.size = x.size /\ o.checksum \notin {x.checksum, NoChecksum}

Grounded(r, x, n) ==
    /\ x.event = n.event /\ x.replica = n.replica
    /\ n.status = "PASS" => HeldAsRegistered(r, x)
    /\ n.status = "FAIL" => HeldOtherwise(r, x, n.code)

Answers(r) ==
    /\ \A n \in noted[r] : \E x \in asked[r] : Grounded(r, x, n)
    /\ \A m, n \in noted[r] : m.event = n.event /\ m.replica = n.replica => m = n
    /\ Concluded(r) => results[r] = noted[r] /\ Left(r) = {}
    /\ runs[r].complete => Conclusive(noted[r])
    /\ runs[r].status = "PASS" => runs[r].complete /\ \A n \in noted[r] : n.status = "PASS"

Stands(r) == Progress(r) /\ Covers(r) /\ Watches(r) /\ Answers(r)

AuditInv == AuditTypeOK /\ JoinIsUnique /\ \A r \in RunIds : Stands(r)

-----------------------------------------------------------------------------
(* The registered replicas.                                                *)

AskedRow(i, b) ==
    [event |-> i.event, replica |-> i.replica, bucket |-> bucketAt[<<i.event, i.replica>>],
     key |-> i.key, size |-> i.size, checksum |-> b.checksum]

\* The query, without its triples.
LEMMA JoinedRow ==
    ASSUME NEW x
    PROVE  x \in RegisteredReplicas <=>
              \E i \in evidence, e \in events, b \in baselines :
                 i.event = e.event /\ e.path = b.path /\ x = AskedRow(i, b)
  <1> DEFINE triples == {j \in evidence \X events \X baselines :
                            j[1].event = j[2].event /\ j[2].path = j[3].path}
  <1>1. ASSUME x \in RegisteredReplicas
        PROVE  \E i \in evidence, e \in events, b \in baselines :
                 i.event = e.event /\ e.path = b.path /\ x = AskedRow(i, b)
    <2>1. PICK j \in triples : x = AskedRow(j[1], j[3])
      BY <1>1 DEF RegisteredReplicas, AskedRow
    <2>2. j[1] \in evidence /\ j[2] \in events /\ j[3] \in baselines
             /\ j[1].event = j[2].event /\ j[2].path = j[3].path
      OBVIOUS
    <2>3. QED
      BY <2>1, <2>2
  <1>2. ASSUME NEW i \in evidence, NEW e \in events, NEW b \in baselines,
               i.event = e.event, e.path = b.path, x = AskedRow(i, b)
        PROVE  x \in RegisteredReplicas
    <2>1. <<i, e, b>> \in triples
      BY <1>2
    <2>2. x = AskedRow(<<i, e, b>>[1], <<i, e, b>>[3])
      BY <1>2
    <2>3. QED
      BY <2>1, <2>2 DEF RegisteredReplicas, AskedRow
  <1>3. QED
    BY <1>1, <1>2

LEMMA AskedType == AuditTypeOK => RegisteredReplicas \subseteq Asked
  <1> SUFFICES ASSUME AuditTypeOK, NEW x \in RegisteredReplicas PROVE x \in Asked
    OBVIOUS
  <1>1. PICK i \in evidence, e \in events, b \in baselines : x = AskedRow(i, b)
    BY JoinedRow
  <1>2. /\ i.event \in Events
        /\ i.replica \in Replicas
        /\ i.key \in Keys
        /\ i.size \in Sizes
        /\ b.checksum \in Checksums
    BY DEF AuditTypeOK, StoreTypeOK, EvidenceRow, BaselineRow
  <1>3. bucketAt[<<i.event, i.replica>>] \in Buckets
    BY <1>2 DEF AuditTypeOK
  <1>4. QED
    BY <1>1, <1>2, <1>3 DEF AskedRow, Asked

LEMMA AskedOnce ==
    ASSUME JoinIsUnique, NEW x \in RegisteredReplicas, NEW y \in RegisteredReplicas,
           x.event = y.event, x.replica = y.replica
    PROVE  x = y
  <1>1. PICK i \in evidence, e \in events, a \in baselines :
            i.event = e.event /\ e.path = a.path /\ x = AskedRow(i, a)
    BY JoinedRow
  <1>2. PICK j \in evidence, f \in events, b \in baselines :
            j.event = f.event /\ f.path = b.path /\ y = AskedRow(j, b)
    BY JoinedRow
  <1>3. x.event = i.event /\ x.replica = i.replica /\ y.event = j.event /\
          y.replica = j.replica
    BY <1>1, <1>2 DEF AskedRow
  <1>4. i = j
    BY <1>3 DEF JoinIsUnique
  <1>5. e = f
    BY <1>1, <1>2, <1>4 DEF JoinIsUnique
  <1>6. a = b
    BY <1>1, <1>2, <1>5 DEF JoinIsUnique
  <1>7. QED
    BY <1>1, <1>2, <1>4, <1>6

LEMMA RegisteredKept ==
    ASSUME UNCHANGED <<evidence, events, baselines, bucketAt>>
    PROVE  RegisteredReplicas' = RegisteredReplicas
  BY DEF RegisteredReplicas

\* A registration adds rows of a new event and leaves the others their bucket.
LEMMA RegisteredGrows ==
    ASSUME AuditTypeOK, JoinIsUnique, NEW q \in Registration, NEW k \in Keys,
           ReceiptRegistered(q, k)
    PROVE  JoinIsUnique' /\ RegisteredReplicas \subseteq RegisteredReplicas'
  <1> DEFINE rows == {[event |-> q.event, replica |-> t, key |-> k, size |-> q.size,
                       verified |-> t \in RequireChecksum] : t \in Replicas}
  <1>1. /\ ~PathTaken(q.path) /\ ~baseline_event_exists(q.event)
        /\ baselines' = baselines \cup {RowOf(q)} /\ events' = events \cup {EventOf(q)}
        /\ evidence' = evidence \cup rows
    <2>1. RowOf(q).path = q.path
      BY DEF RowOf
    <2>2. QED
      BY <2>1 DEF ReceiptRegistered, Register, InsertOrIgnore
  <1>2. RowOf(q).path = q.path /\ EventOf(q).event = q.event
    BY DEF RowOf, EventOf
  <1>3. /\ \A i \in evidence : i.event # q.event
        /\ \A e \in events : e.event # q.event
        /\ \A b \in baselines : b.path # q.path
    BY <1>1 DEF JoinIsUnique, PathTaken, baseline_event_exists
  <1>4. /\ \A i \in rows : i.event = q.event
        /\ \A i, j \in rows : i.replica = j.replica => i = j
    OBVIOUS
  <1>5. JoinIsUnique'
    <2> HIDE DEF rows
    <2>1. \A i, j \in evidence' : i.event = j.event /\ i.replica = j.replica => i = j
      BY <1>1, <1>3, <1>4 DEF JoinIsUnique
    <2>2. \A e, f \in events' : e.event = f.event => e = f
      BY <1>1, <1>2, <1>3 DEF JoinIsUnique
    <2>3. \A a, b \in baselines' : a.path = b.path => a = b
      BY <1>1, <1>2, <1>3 DEF JoinIsUnique
    <2>4. \A i \in evidence' : \E e \in events' : e.event = i.event
      BY <1>1, <1>2, <1>4 DEF JoinIsUnique, baseline_event_exists
    <2>5. QED
      BY <2>1, <2>2, <2>3, <2>4 DEF JoinIsUnique, baseline_event_exists
  <1>6. ASSUME NEW x \in RegisteredReplicas PROVE x \in RegisteredReplicas'
    <2>1. PICK i \in evidence, e \in events, b \in baselines :
              i.event = e.event /\ e.path = b.path /\ x = AskedRow(i, b)
      BY JoinedRow
    <2>2. i \in evidence' /\ e \in events' /\ b \in baselines'
      BY <1>1
    <2>3. bucketAt'[<<i.event, i.replica>>] = bucketAt[<<i.event, i.replica>>]
      <3>1. <<i.event, i.replica>> \in Events \X Replicas /\ i.event # q.event
        BY <1>3 DEF AuditTypeOK, StoreTypeOK, EvidenceRow
      <3>2. QED
        BY <3>1 DEF ReceiptRegistered
    <2>4. x = AskedRow(i, b)'
      BY <2>1, <2>3 DEF AskedRow
    <2>5. <<i, e, b>> \in {j \in evidence' \X events' \X baselines' :
                             j[1].event = j[2].event /\ j[2].path = j[3].path}
      BY <2>1, <2>2
    <2>6. QED
      BY <2>4, <2>5 DEF RegisteredReplicas, AskedRow
  <1>7. QED
    BY <1>5, <1>6

-----------------------------------------------------------------------------
(* The judgement of an answer.                                             *)

LEMMA NoteFields ==
    ASSUME NEW x, NEW s, NEW c
    PROVE  /\ Note(x, s, c).event = x.event /\ Note(x, s, c).replica = x.replica
           /\ Note(x, s, c).status = s /\ Note(x, s, c).code = c
  BY DEF Note

LEMMA NoteType ==
    ASSUME NEW x \in Asked
    PROVE  /\ Note(x, "PASS", "") \in Result
           /\ Note(x, "FAIL", "REPLICA_MISSING") \in Result
           /\ Note(x, "FAIL", "REPLICA_SIZE_MISMATCH") \in Result
           /\ Note(x, "FAIL", "REPLICA_CHECKSUM_MISMATCH") \in Result
           /\ Note(x, "UNKNOWN", "REPLICA_CHECK_INCONCLUSIVE") \in Result
           /\ Note(x, "UNKNOWN", "REPLICA_CONFIG_MISMATCH") \in Result
  BY DEF Note, Result, Asked

\* An answer passes, contradicts the registry, or says nothing.
LEMMA JudgementIs ==
    ASSUME NEW x, NEW a
    PROVE  \/ /\ \E c : Judgement(x, a) = Note(x, "PASS", c)
              /\ a.status = "found" /\ a.size = x.size
              /\ \/ a.checksum = x.checksum
                 \/ a.checksum = NoChecksum /\ x.replica \notin RequireChecksum
           \/ Judgement(x, a) = Note(x, "FAIL", "REPLICA_MISSING") /\ a.status = "missing"
           \/ /\ Judgement(x, a) = Note(x, "FAIL", "REPLICA_SIZE_MISMATCH")
              /\ a.status = "found" /\ a.size # x.size
           \/ /\ Judgement(x, a) = Note(x, "FAIL", "REPLICA_CHECKSUM_MISMATCH")
              /\ a.status = "found" /\ a.size = x.size
              /\ a.checksum \notin {x.checksum, NoChecksum}
           \/ Judgement(x, a) = Note(x, "UNKNOWN", "REPLICA_CHECK_INCONCLUSIVE")
  <1>1. CASE Accepts(x.replica, a, x.size, x.checksum)
    BY <1>1 DEF Judgement, Accepts, ChecksumAccepted
  <1>2. CASE ~Accepts(x.replica, a, x.size, x.checksum) /\ a.status = "missing"
    BY <1>2 DEF Judgement
  <1>3. CASE /\ ~Accepts(x.replica, a, x.size, x.checksum)
             /\ a.status = "found" /\ a.size # x.size
    BY <1>3 DEF Judgement
  <1>4. CASE /\ ~Accepts(x.replica, a, x.size, x.checksum)
             /\ a.status = "found" /\ a.size = x.size
             /\ a.checksum \notin {x.checksum, NoChecksum}
    BY <1>4 DEF Judgement
  <1>5. QED
    BY <1>1, <1>2, <1>3, <1>4 DEF Judgement

\* An answer tells what is there, except that the size may be left out.
LEMMA ReplyIs ==
    ASSUME NEW t, NEW o \in Object \cup {Missing}, NEW a \in Replies(t, o)
    PROVE  /\ a.status = "missing" => o = Missing
           /\ a.status = "found" => o \in Object /\ a.checksum = o.checksum
           /\ a.status = "found" => a.size = o.size \/ (a.size = NoSize /\ t \in Sizeless)
  <1>1. Failure("failed").status = "failed" /\ Failure("missing").status = "missing"
    BY DEF Failure
  <1>2. CASE o = Missing
    BY <1>1, <1>2 DEF Replies
  <1>3. CASE o # Missing
    BY <1>1, <1>3 DEF Replies
  <1>4. QED
    BY <1>2, <1>3

\* What is noted of a replica that was asked rests on what it held then.
LEMMA JudgementGrounded ==
    ASSUME NEW r \in RunIds, NEW x, NEW o \in Object \cup {Missing},
           targets[r][x.replica] = x.bucket, HeldDuring(r, x, o), x.size \in Sizes,
           NEW a \in Replies(x.replica, o)
    PROVE  Grounded(r, x, Judgement(x, a))
  <1>1. /\ a.status = "missing" => o = Missing
        /\ a.status = "found" => o \in Object /\ a.checksum = o.checksum
        /\ a.status = "found" =>
              a.size = o.size \/ (a.size # x.size /\ x.replica \in Sizeless)
    BY ReplyIs, NoSizeAssumption
  <1>2. \A s, c : /\ Note(x, s, c).event = x.event /\ Note(x, s, c).replica = x.replica
                  /\ Note(x, s, c).status = s /\ Note(x, s, c).code = c
    BY NoteFields
  <1>3. CASE /\ \E c : Judgement(x, a) = Note(x, "PASS", c)
             /\ a.status = "found" /\ a.size = x.size
             /\ \/ a.checksum = x.checksum
                \/ a.checksum = NoChecksum /\ x.replica \notin RequireChecksum
    <2>1. HeldAsRegistered(r, x)
      <3>1. o \in Object /\ o.size = x.size /\ a.checksum = o.checksum
              /\ (o.checksum = x.checksum \/
                   (o.checksum = NoChecksum /\ x.replica \notin RequireChecksum))
        BY <1>1, <1>3
      <3>2. QED
        BY <3>1 DEF HeldAsRegistered
    <2>2. /\ Judgement(x, a).event = x.event /\ Judgement(x, a).replica = x.replica
          /\ Judgement(x, a).status = "PASS"
      BY <1>2, <1>3
    <2>3. QED
      BY <2>1, <2>2 DEF Grounded
  <1>4. CASE Judgement(x, a) = Note(x, "FAIL", "REPLICA_MISSING") /\ a.status = "missing"
    <2>1. HeldOtherwise(r, x, "REPLICA_MISSING")
      BY <1>1, <1>4 DEF HeldOtherwise
    <2>2. QED
      BY <1>2, <1>4, <2>1 DEF Grounded
  <1>5. CASE /\ Judgement(x, a) = Note(x, "FAIL", "REPLICA_SIZE_MISMATCH")
             /\ a.status = "found" /\ a.size # x.size
    <2>1. HeldOtherwise(r, x, "REPLICA_SIZE_MISMATCH")
      BY <1>1, <1>5 DEF HeldOtherwise
    <2>2. QED
      BY <1>2, <1>5, <2>1 DEF Grounded
  <1>6. CASE /\ Judgement(x, a) = Note(x, "FAIL", "REPLICA_CHECKSUM_MISMATCH")
             /\ a.status = "found" /\ a.size = x.size
             /\ a.checksum \notin {x.checksum, NoChecksum}
    <2>1. HeldOtherwise(r, x, "REPLICA_CHECKSUM_MISMATCH")
      BY <1>1, <1>6 DEF HeldOtherwise
    <2>2. QED
      BY <1>2, <1>6, <2>1 DEF Grounded
  <1>7. CASE Judgement(x, a) = Note(x, "UNKNOWN", "REPLICA_CHECK_INCONCLUSIVE")
    BY <1>2, <1>7 DEF Grounded
  <1>8. QED
    BY <1>3, <1>4, <1>5, <1>6, <1>7, JudgementIs

LEMMA JudgementType == ASSUME NEW x \in Asked, NEW a PROVE Judgement(x, a) \in Result
  <1>1. Judgement(x, a) \in {Note(x, "PASS", ""), Note(x, "FAIL", "REPLICA_MISSING"),
                            Note(x, "FAIL", "REPLICA_SIZE_MISMATCH"),
                            Note(x, "FAIL", "REPLICA_CHECKSUM_MISMATCH"),
                            Note(x, "UNKNOWN", "REPLICA_CHECK_INCONCLUSIVE")}
    BY DEF Judgement
  <1>2. QED
    BY <1>1, NoteType

LEMMA VerdictType == ASSUME NEW notes PROVE Verdict(notes) \in {"PASS", "FAIL"}
  BY DEF Verdict

-----------------------------------------------------------------------------
(* The beginning, and types.                                               *)

LEMMA InitAuditInv == AuditInit => AuditInv
  <1> SUFFICES ASSUME AuditInit PROVE AuditInv
    OBVIOUS
  <1> USE DEF AuditInit, StoreInit
  <1>1. AuditTypeOK
    <2>1. bucketAt \in [Events \X Replicas -> Buckets]
      OBVIOUS
    <2>2. runs \in [RunIds -> [status : RunStatus, complete : BOOLEAN]]
      BY DEF RunStatus
    <2>3. QED
      BY <2>1, <2>2 DEF AuditTypeOK, StoreTypeOK
  <1>2. JoinIsUnique
    BY DEF JoinIsUnique
  <1>3. ASSUME NEW r \in RunIds PROVE Stands(r)
    BY DEF Stands, Progress, Covers, Watches, Answers, Concluded, Left
  <1>4. QED
    BY <1>1, <1>2, <1>3 DEF AuditInv

LEMMA AuditType ==
    ASSUME AuditTypeOK, NEW r \in RunIds, Audit(r) \/ AuditCrash(r)
    PROVE  AuditTypeOK'
  <1> USE DEF AuditTypeOK, StoreTypeOK
  <1>1. CASE StartAudit(r)
    <2>1. RegisteredReplicas \subseteq Asked
      BY AskedType
    <2>2. {<<p, object[p]>> : p \in Places} \in SUBSET (Places \X (Object \cup {Missing}))
      OBVIOUS
    <2>3. /\ atStart' = [atStart EXCEPT ![r] = RegisteredReplicas]
          /\ during' = [during EXCEPT ![r] = {<<p, object[p]>> : p \in Places}]
          /\ runs' = [runs EXCEPT ![r] = [status |-> "RUNNING", complete |-> FALSE]]
          /\ pc' = [pc EXCEPT ![r] = "load"]
          /\ UNCHANGED <<baselines, events, evidence, byHand, object, bucket, bucketAt>>
          /\ UNCHANGED <<results, targets, asked, noted>>
      BY <1>1 DEF StartAudit, GoTo, create_run, registry, world, auditLocals
    <2>4. during' \in [RunIds -> SUBSET (Places \X (Object \cup {Missing}))]
      <3>1. during \in [RunIds -> SUBSET (Places \X (Object \cup {Missing}))]
        OBVIOUS
      <3> HIDE DEF AuditTypeOK
      <3>2. QED
        BY <2>2, <2>3, <3>1
    <2>5. atStart' \in [RunIds -> SUBSET Asked]
      BY <2>1, <2>3
    <2>6. runs' \in [RunIds -> [status : RunStatus, complete : BOOLEAN]]
      BY <2>3 DEF RunStatus
    <2>7. QED
      BY <2>3, <2>4, <2>5, <2>6
  <1>2. CASE LoadTargets(r)
    BY <1>2 DEF LoadTargets, GoTo, storeVars, world, observed
  <1>3. CASE ReadRegistered(r)
    <2>1. RegisteredReplicas \subseteq Asked
      BY AskedType
    <2>2. asked' \in [RunIds -> SUBSET Asked]
      BY <1>3, <2>1 DEF ReadRegistered
    <2>3. QED
      BY <1>3, <2>2 DEF ReadRegistered, GoTo, storeVars, world, observed
  <1>4. ASSUME NEW x \in asked[r], AskReplica(r, x) \/ ConfigMismatch(r, x)
        PROVE  AuditTypeOK'
    <2>1. x \in Asked
      OBVIOUS
    <2>2. PICK n \in Result : noted' = [noted EXCEPT ![r] = noted[r] \cup {n}]
      BY <1>4, <2>1, JudgementType, NoteType DEF AskReplica, ConfigMismatch
    <2>3. noted' \in [RunIds -> SUBSET Result]
      BY <2>2
    <2>4. QED
      BY <1>4, <2>3 DEF AskReplica, ConfigMismatch, GoTo, storeVars, world, observed
  <1>5. CASE SaveResults(r)
    BY <1>5 DEF SaveResults, GoTo, storeVars, world, auditLocals, observed
  <1>6. CASE FinishAudit(r) \/ FailAudit(r)
    <2>1. Verdict(noted[r]) \in RunStatus /\ Conclusive(noted[r]) \in BOOLEAN /\
            "FAIL" \in RunStatus
      BY VerdictType DEF RunStatus, Conclusive
    <2>2. runs' \in [RunIds -> [status : RunStatus, complete : BOOLEAN]]
      <3>1. PICK s \in RunStatus, c \in BOOLEAN :
                runs' = [runs EXCEPT ![r] = [status |-> s, complete |-> c]]
        BY <1>6, <2>1 DEF FinishAudit, FailAudit, finish_run
      <3>2. QED
        BY <3>1
    <2>3. QED
      BY <1>6, <2>2 DEF FinishAudit, FailAudit, finish_run, registry, GoTo, world,
         auditLocals, observed
  <1>7. CASE AuditRaises(r) \/ AuditCrash(r)
    BY <1>7 DEF AuditRaises, AuditCrash, storeVars, world, auditLocals, observed
  <1>8. QED
    BY <1>1, <1>2, <1>3, <1>4, <1>5, <1>6, <1>7 DEF Audit

LEMMA AroundType ==
    ASSUME AuditTypeOK,
           \/ \E p \in Places, o \in Object \cup {Missing} : ObjectChanges(p, o)
           \/ \E t \in Replicas, b \in Buckets : Reconfigure(t, b)
           \/ \E q \in Registration, k \in Keys : ReceiptRegistered(q, k)
    PROVE  AuditTypeOK'
  <1> USE DEF AuditTypeOK, StoreTypeOK
  <1>1. ASSUME NEW p \in Places, NEW o \in Object \cup {Missing}, ObjectChanges(p, o)
        PROVE  AuditTypeOK'
    <2>1. <<p, o>> \in Places \X (Object \cup {Missing})
      OBVIOUS
    <2>2. \A r \in RunIds : (IF Begun(r) THEN during[r] \cup {<<p, o>>} ELSE {})
                               \in SUBSET (Places \X (Object \cup {Missing}))
      BY <2>1
    <2>3. during' \in [RunIds -> SUBSET (Places \X (Object \cup {Missing}))]
      BY <1>1, <2>2 DEF ObjectChanges
    <2>4. object' \in [Places -> Object \cup {Missing}]
      BY <1>1 DEF ObjectChanges
    <2>5. QED
      BY <1>1, <2>3, <2>4 DEF ObjectChanges, storeVars, auditLocals
  <1>2. ASSUME NEW t \in Replicas, NEW b \in Buckets, Reconfigure(t, b) PROVE AuditTypeOK'
    BY <1>2 DEF Reconfigure, storeVars, auditLocals, observed
  <1>3. ASSUME NEW q \in Registration, NEW k \in Keys, ReceiptRegistered(q, k)
        PROVE  AuditTypeOK'
    <2>1. RowOf(q) \in BaselineRow /\ EventOf(q) \in EventRow
      BY DEF RowOf, EventOf, Registration, BaselineRow, EventRow
    <2>2. \A t \in Replicas : [event |-> q.event, replica |-> t, key |-> k, size |-> q.size,
                               verified |-> t \in RequireChecksum] \in EvidenceRow
      BY DEF Registration, EvidenceRow
    <2>3. baselines' \subseteq BaselineRow /\ events' \subseteq EventRow
      BY <1>3, <2>1 DEF ReceiptRegistered, Register, InsertOrIgnore
    <2>4. evidence' \subseteq EvidenceRow
      <3> DEFINE rows == {[event |-> q.event, replica |-> t, key |-> k, size |-> q.size,
                           verified |-> t \in RequireChecksum] : t \in Replicas}
      <3>1. evidence' = evidence \cup rows
        BY <1>3 DEF ReceiptRegistered, Register
      <3>2. rows \subseteq EvidenceRow
        BY <2>2
      <3> HIDE DEF rows
      <3>3. QED
        BY <3>1, <3>2
    <2>5. bucketAt' \in [Events \X Replicas -> Buckets]
      <3>1. \A p \in Events \X Replicas :
                (IF p[1] = q.event THEN bucket[p[2]] ELSE bucketAt[p]) \in Buckets
        OBVIOUS
      <3>2. QED
        BY <1>3, <3>1 DEF ReceiptRegistered
    <2>6. QED
      BY <1>3, <2>3, <2>4, <2>5 DEF ReceiptRegistered, Register, world, auditLocals,
         observed
  <1>4. QED
    BY <1>1, <1>2, <1>3

LEMMA NextType == AuditTypeOK /\ [AuditNext]_auditVars => AuditTypeOK'
  <1>1. ASSUME AuditTypeOK, UNCHANGED auditVars PROVE AuditTypeOK'
    BY <1>1 DEF auditVars, storeVars, world, auditLocals, observed, AuditTypeOK, StoreTypeOK
  <1>2. QED
    BY <1>1, AuditType, AroundType DEF AuditNext

-----------------------------------------------------------------------------
(* What a step leaves alone.                                               *)

\* A step of another audit, or of the world.
Unmoved(q) ==
    /\ pc'[q] = pc[q] /\ runs'[q] = runs[q] /\ results'[q] = results[q]
    /\ targets'[q] = targets[q] /\ asked'[q] = asked[q] /\ noted'[q] = noted[q]
    /\ atStart'[q] = atStart[q] /\ during[q] \subseteq during'[q]
    /\ pc[q] = "idle" => during'[q] = {}

LEMMA GroundedStays ==
    ASSUME NEW q \in RunIds, NEW x, NEW n, Grounded(q, x, n),
           targets'[q] = targets[q], during[q] \subseteq during'[q]
    PROVE  Grounded(q, x, n)'
  BY DEF Grounded, HeldAsRegistered, HeldOtherwise, HeldDuring

LEMMA UnmovedStands ==
    ASSUME NEW q \in RunIds, Stands(q), Unmoved(q), Watches(q)',
           RegisteredReplicas \subseteq RegisteredReplicas'
    PROVE  Stands(q)'
  <1> USE DEF Stands, Unmoved
  <1>1. Progress(q)' /\ Concluded(q)' = Concluded(q)
    BY DEF Progress, Concluded
  <1>2. Covers(q)'
    BY <1>1 DEF Covers
  <1>3. Left(q)' = Left(q)
    BY DEF Left
  <1>4. \A n \in noted'[q] : \E x \in asked'[q] : Grounded(q, x, n)'
    BY GroundedStays DEF Answers
  <1>5. Answers(q)'
    BY <1>1, <1>3, <1>4 DEF Answers, Conclusive
  <1>6. QED
    BY <1>1, <1>2, <1>5

\* A step of one audit leaves the registry, the world and the other audits alone.
LEMMA OneAuditStep ==
    ASSUME AuditInv, NEW r \in RunIds, [AuditNext]_auditVars, Stands(r)',
           \A q \in RunIds \ {r} : Unmoved(q),
           \A q \in RunIds \ {r} : during'[q] = during[q],
           UNCHANGED <<evidence, events, baselines, bucketAt, object>>
    PROVE  AuditInv'
  <1>1. AuditTypeOK'
    BY NextType DEF AuditInv
  <1>2. JoinIsUnique' /\ RegisteredReplicas' = RegisteredReplicas
    BY RegisteredKept DEF AuditInv, JoinIsUnique, baseline_event_exists
  <1>3. ASSUME NEW q \in RunIds PROVE Stands(q)'
    <2>1. CASE q = r
      BY <2>1
    <2>2. CASE q # r
      <3>1. Unmoved(q) /\ during'[q] = during[q] /\ Stands(q)
        BY <2>2 DEF AuditInv
      <3>2. Watches(q)'
        BY <3>1 DEF Stands, Watches, Unmoved
      <3>3. QED
        BY <1>2, <3>1, <3>2, UnmovedStands
    <2>3. QED
      BY <2>1, <2>2
  <1>4. QED
    BY <1>1, <1>2, <1>3 DEF AuditInv

\* A step of the world leaves every audit where it is.
LEMMA WorldAuditStep ==
    ASSUME AuditInv, [AuditNext]_auditVars, JoinIsUnique',
           RegisteredReplicas \subseteq RegisteredReplicas',
           \A q \in RunIds : Unmoved(q) /\ Watches(q)'
    PROVE  AuditInv'
  <1>1. AuditTypeOK'
    BY NextType DEF AuditInv
  <1>2. \A q \in RunIds : Stands(q)'
    BY UnmovedStands DEF AuditInv
  <1>3. QED
    BY <1>1, <1>2 DEF AuditInv

-----------------------------------------------------------------------------
(* The steps of an audit.                                                  *)

LEMMA AuditStarts ==
    ASSUME AuditInv, NEW r \in RunIds, StartAudit(r)
    PROVE  AuditInv'
  <1> USE DEF StartAudit, GoTo, create_run
  <1>1. /\ AuditTypeOK /\ Stands(r)
        /\ UNCHANGED <<evidence, events, baselines, bucketAt, object, results>>
        /\ UNCHANGED <<targets, asked, noted>>
    BY DEF AuditInv, registry, world, auditLocals
  <1>2. /\ pc'[r] = "load" /\ runs'[r] = [status |-> "RUNNING", complete |-> FALSE]
        /\ atStart'[r] = RegisteredReplicas
        /\ during'[r] = {<<p, object[p]>> : p \in Places}
    BY <1>1 DEF AuditTypeOK, StoreTypeOK
  <1>3. ASSUME NEW q \in RunIds \ {r} PROVE Unmoved(q) /\ during'[q] = during[q]
    BY <1>1 DEF Unmoved, AuditTypeOK, StoreTypeOK, AuditInv, Stands, Progress
  <1>4. Stands(r)'
    <2>1. RegisteredReplicas' = RegisteredReplicas
      BY <1>1, RegisteredKept
    <2>2. noted[r] = {} /\ results[r] = {} /\ asked[r] \subseteq RegisteredReplicas
      BY <1>1 DEF Stands, Progress, Covers
    <2>3. Progress(r)' /\ ~Concluded(r)'
      BY <1>1, <1>2, <2>2 DEF Progress, Concluded
    <2>4. Covers(r)'
      BY <1>1, <1>2, <2>1, <2>2, <2>3 DEF Covers
    <2>5. Watches(r)'
      BY <1>1, <1>2 DEF Watches
    <2>6. Answers(r)'
      BY <1>1, <1>2, <2>2, <2>3 DEF Answers
    <2>7. QED
      BY <2>3, <2>4, <2>5, <2>6 DEF Stands
  <1>5. QED
    BY <1>1, <1>3, <1>4, OneAuditStep DEF AuditNext, Audit

\* It reads the configuration and the registry before it asks anybody.
LEMMA AuditReads ==
    ASSUME AuditInv, NEW r \in RunIds, LoadTargets(r) \/ ReadRegistered(r)
    PROVE  AuditInv'
  <1> USE DEF LoadTargets, ReadRegistered, GoTo
  <1>1. /\ AuditTypeOK /\ Stands(r)
        /\ UNCHANGED <<evidence, events, baselines, runs, bucketAt, object, results>>
        /\ UNCHANGED <<noted, atStart, during>>
    BY DEF AuditInv, storeVars, world, observed
  <1>2. \/ pc[r] = "load" /\ pc'[r] = "read" /\ asked' = asked
        \/ pc[r] = "read" /\ pc'[r] = "ask" /\ asked'[r] = RegisteredReplicas
    BY <1>1 DEF AuditTypeOK
  <1>3. ASSUME NEW q \in RunIds \ {r} PROVE Unmoved(q)
    BY <1>1 DEF Unmoved, AuditTypeOK, AuditInv, Stands, Progress
  <1>4. Stands(r)'
    <2>1. RegisteredReplicas' = RegisteredReplicas
      BY <1>1, RegisteredKept
    <2>2. noted[r] = {} /\ results[r] = {}
      BY <1>1, <1>2 DEF Stands, Progress
    <2>3. Progress(r)' /\ ~Concluded(r)'
      BY <1>1, <1>2, <2>2 DEF Stands, Progress, Concluded
    <2>4. Covers(r)'
      BY <1>1, <1>2, <2>1, <2>3 DEF Stands, Covers
    <2>5. Watches(r)'
      BY <1>1, <1>2 DEF Stands, Watches
    <2>6. Answers(r)'
      BY <1>1, <1>2, <2>2, <2>3 DEF Stands, Answers, Concluded
    <2>7. QED
      BY <2>3, <2>4, <2>5, <2>6 DEF Stands
  <1>5. QED
    BY <1>1, <1>3, <1>4, OneAuditStep DEF AuditNext, Audit

\* A result, the first of its replica, that rests on what the replica held.
LEMMA AuditNotes ==
    ASSUME AuditInv, NEW r \in RunIds, NEW x \in asked[r],
           AskReplica(r, x) \/ ConfigMismatch(r, x)
    PROVE  AuditInv'
  <1> USE DEF AskReplica, ConfigMismatch, GoTo
  <1>1. /\ AuditTypeOK /\ Stands(r) /\ x \in Left(r) /\ pc[r] = "ask" /\ pc'[r] = "ask"
        /\ UNCHANGED <<evidence, events, baselines, runs, bucketAt, object, results>>
        /\ UNCHANGED <<targets, asked, atStart, during>>
    BY DEF AuditInv, storeVars, world, observed, AuditTypeOK
  <1>2. ~Concluded(r) /\ ~Concluded(r)'
    BY <1>1 DEF Stands, Progress, Concluded
  <1>3. ASSUME NEW q \in RunIds \ {r} PROVE Unmoved(q)
    BY <1>1 DEF Unmoved, AuditTypeOK, AuditInv, Stands, Progress
  <1>4. PICK n : /\ noted' = [noted EXCEPT ![r] = noted[r] \cup {n}]
                 /\ Grounded(r, x, n) /\ n.event = x.event /\ n.replica = x.replica
    <2>1. CASE AskReplica(r, x)
      <3> DEFINE o == object[<<x.replica, x.key>>]
      <3>1. x \in Asked
        BY <1>1 DEF AuditTypeOK
      <3>2. <<x.replica, x.key>> \in Places
        BY <3>1 DEF Asked, Places
      <3>3. o \in Object \cup {Missing}
        BY <1>1, <3>2 DEF AuditTypeOK
      <3>4. HeldDuring(r, x, o)
        BY <1>1, <3>2 DEF Stands, Watches, HeldDuring
      <3>5. PICK a \in Replies(x.replica, o) :
              noted' = [noted EXCEPT ![r] = noted[r] \cup {Judgement(x, a)}]
        BY <2>1
      <3>6. Grounded(r, x, Judgement(x, a))
        <4> HIDE DEF o
        <4>1. QED
          BY <2>1, <3>1, <3>3, <3>4, JudgementGrounded DEF Asked
      <3>7. QED
        BY <3>5, <3>6 DEF Grounded
    <2>2. CASE ConfigMismatch(r, x)
      <3> DEFINE n == Note(x, "UNKNOWN", "REPLICA_CONFIG_MISMATCH")
      <3>1. n.event = x.event /\ n.replica = x.replica /\ n.status = "UNKNOWN"
        BY NoteFields
      <3>2. noted' = [noted EXCEPT ![r] = noted[r] \cup {n}]
        BY <2>2
      <3> HIDE DEF n
      <3>3. QED
        BY <3>1, <3>2 DEF Grounded
    <2>3. QED
      BY <2>1, <2>2
  <1>5. noted'[r] = noted[r] \cup {n}
    BY <1>1, <1>4 DEF AuditTypeOK
  <1>6. Answers(r)'
    <2>1. \A m \in noted[r] : m.event # x.event \/ m.replica # x.replica
      BY <1>1 DEF Left
    <2>2. \A m, k \in noted'[r] : m.event = k.event /\ m.replica = k.replica => m = k
      BY <1>1, <1>4, <1>5, <2>1 DEF Stands, Answers
    <2>3. \A m \in noted'[r] : \E y \in asked'[r] : Grounded(r, y, m)'
      BY <1>1, <1>4, <1>5, GroundedStays DEF Stands, Answers
    <2>4. QED
      BY <1>1, <1>2, <2>2, <2>3 DEF Answers, Concluded
  <1>7. Progress(r)'
    BY <1>1 DEF Stands, Progress
  <1>8. Covers(r)' /\ Watches(r)'
    BY <1>1, RegisteredKept DEF Stands, Covers, Watches
  <1>9. QED
    BY <1>1, <1>3, <1>6, <1>7, <1>8, OneAuditStep DEF AuditNext, Audit, Stands

\* All results, one verdict of them; or none, and FAIL.
LEMMA AuditEnds ==
    ASSUME AuditInv, NEW r \in RunIds,
           SaveResults(r) \/ FinishAudit(r) \/ FailAudit(r) \/ AuditRaises(r) \/
             AuditCrash(r)
    PROVE  AuditInv'
  <1>1. /\ AuditTypeOK /\ Stands(r)
        /\ UNCHANGED <<evidence, events, baselines, bucketAt, object>>
        /\ UNCHANGED <<targets, asked, noted, atStart, during>>
    BY DEF AuditInv, SaveResults, FinishAudit, FailAudit, AuditRaises, AuditCrash,
       finish_run, storeVars,
       registry, world, auditLocals, observed
  <1>2. ASSUME NEW q \in RunIds \ {r} PROVE Unmoved(q)
    <2>1. pc'[q] = pc[q] /\ runs'[q] = runs[q] /\ results'[q] = results[q]
      BY <1>1 DEF AuditTypeOK, StoreTypeOK, SaveResults, FinishAudit, FailAudit,
         AuditRaises, AuditCrash,
         finish_run, storeVars, GoTo
    <2>2. QED
      BY <1>1, <2>1 DEF Unmoved, AuditInv, Stands, Progress
  <1>3. Left(r)' = Left(r) /\ RegisteredReplicas' = RegisteredReplicas
    BY <1>1, RegisteredKept DEF Left
  <1>4. \A n \in noted'[r] : \E x \in asked'[r] : Grounded(r, x, n)'
    BY <1>1, GroundedStays DEF Stands, Answers
  <1>5. Progress(r)' /\ Watches(r)'
    <2> USE <1>1 DEF AuditTypeOK, StoreTypeOK, Stands, Progress, Watches, GoTo
    <2>1. CASE SaveResults(r)
      BY <2>1 DEF SaveResults, storeVars
    <2>2. CASE FinishAudit(r) \/ FailAudit(r)
      <3>1. pc[r] \in {"finish", "fail"} /\ pc'[r] = "done" /\ UNCHANGED results
        BY <2>2 DEF FinishAudit, FailAudit
      <3>2. QED
        BY <3>1
    <2>3. CASE AuditRaises(r) \/ AuditCrash(r)
      BY <2>3 DEF AuditRaises, AuditCrash, storeVars
    <2>4. QED
      BY <2>1, <2>2, <2>3
  <1>6. Covers(r)' /\ Answers(r)'
    <2> USE <1>1, <1>3, <1>4 DEF AuditTypeOK, StoreTypeOK, Stands, Progress, Covers,
       Answers, Concluded, GoTo
    <2>1. CASE SaveResults(r)
      <3>1. /\ pc[r] = "ask" /\ pc'[r] = "finish" /\ runs' = runs /\ results'[r] = noted[r]
            /\ Left(r) = {}
        BY <2>1 DEF SaveResults, AllAsked, storeVars
      <3>2. QED
        BY <3>1
    <2>2. CASE FinishAudit(r)
      <3>1. /\ pc[r] = "finish" /\ pc'[r] = "done" /\ results' = results
            /\ runs'[r].status = Verdict(noted[r])
            /\ runs'[r].complete = Conclusive(noted[r])
        BY <2>2 DEF FinishAudit, finish_run
      <3>2. runs'[r].status = "PASS" => /\ runs'[r].complete
                                        /\ \A n \in noted[r] : n.status = "PASS"
        BY <3>1 DEF Verdict, Conclusive
      <3>3. runs'[r].complete => Conclusive(noted[r])
        BY <3>1
      <3>4. QED
        BY <3>1, <3>2, <3>3
    <2>3. CASE FailAudit(r) \/ AuditRaises(r) \/ AuditCrash(r)
      <3>1. pc'[r] # "finish" /\ pc'[r] # "ask" /\ runs'[r].status # "PASS" /\
              ~runs'[r].complete
        BY <2>3 DEF FailAudit, AuditRaises, AuditCrash, finish_run, storeVars
      <3>2. QED
        BY <3>1
    <2>4. QED
      BY <2>1, <2>2, <2>3
  <1>7. QED
    BY <1>1, <1>2, <1>5, <1>6, OneAuditStep DEF AuditNext, Audit, Stands

-----------------------------------------------------------------------------
(* The steps around the audits.                                            *)

LEMMA ObjectChangesKeeps ==
    ASSUME AuditInv, NEW p \in Places, NEW o \in Object \cup {Missing}, ObjectChanges(p, o)
    PROVE  AuditInv'
  <1> USE DEF ObjectChanges
  <1>1. /\ AuditTypeOK /\ JoinIsUnique
        /\ UNCHANGED <<evidence, events, baselines, runs, bucketAt, results, pc>>
        /\ UNCHANGED <<targets, asked, noted, atStart>>
    BY DEF AuditInv, storeVars, auditLocals
  <1>2. JoinIsUnique' /\ RegisteredReplicas' = RegisteredReplicas
    BY <1>1, RegisteredKept DEF JoinIsUnique, baseline_event_exists
  <1>3. ASSUME NEW q \in RunIds PROVE Unmoved(q) /\ Watches(q)'
    <2>1. Progress(q) /\ Watches(q)
      BY DEF AuditInv, Stands
    <2>2. pc[q] # "idle" <=> Begun(q)
      BY <2>1 DEF Progress, Watches, Begun
    <2>3. during'[q] = IF Begun(q) THEN during[q] \cup {<<p, o>>} ELSE {}
      OBVIOUS
    <2>4. \A w \in Places : object'[w] = IF w = p THEN o ELSE object[w]
      BY <1>1 DEF AuditTypeOK
    <2>5. Watches(q)'
      BY <1>1, <2>1, <2>2, <2>3, <2>4 DEF Watches
    <2>6. Unmoved(q)
      BY <1>1, <2>2, <2>3 DEF Unmoved, Begun
    <2>7. QED
      BY <2>5, <2>6
  <1>4. QED
    BY <1>2, <1>3, WorldAuditStep DEF AuditNext

LEMMA ReconfigureKeeps ==
    ASSUME AuditInv, NEW t \in Replicas, NEW b \in Buckets, Reconfigure(t, b)
    PROVE  AuditInv'
  <1> USE DEF Reconfigure
  <1>1. /\ AuditTypeOK /\ JoinIsUnique
        /\ UNCHANGED <<evidence, events, baselines, runs, bucketAt, object, results, pc>>
        /\ UNCHANGED <<targets, asked, noted, atStart, during>>
    BY DEF AuditInv, storeVars, auditLocals, observed
  <1>2. JoinIsUnique' /\ RegisteredReplicas' = RegisteredReplicas
    BY <1>1, RegisteredKept DEF JoinIsUnique, baseline_event_exists
  <1>3. ASSUME NEW q \in RunIds PROVE Unmoved(q) /\ Watches(q)'
    BY <1>1 DEF AuditInv, Stands, Progress, Watches, Unmoved
  <1>4. QED
    BY <1>2, <1>3, WorldAuditStep DEF AuditNext

LEMMA ReceiptRegisteredKeeps ==
    ASSUME AuditInv, NEW q \in Registration, NEW k \in Keys, ReceiptRegistered(q, k)
    PROVE  AuditInv'
  <1>1. /\ AuditTypeOK /\ JoinIsUnique /\ UNCHANGED <<runs, object, results, pc>>
        /\ UNCHANGED <<targets, asked, noted, atStart, during>>
    BY DEF AuditInv, ReceiptRegistered, Register, world, auditLocals, observed
  <1>2. JoinIsUnique' /\ RegisteredReplicas \subseteq RegisteredReplicas'
    BY <1>1, RegisteredGrows
  <1>3. ASSUME NEW r \in RunIds PROVE Unmoved(r) /\ Watches(r)'
    BY <1>1 DEF AuditInv, Stands, Progress, Watches, Unmoved
  <1>4. QED
    BY <1>2, <1>3, WorldAuditStep DEF AuditNext

LEMMA AuditStepKeeps == AuditInv /\ [AuditNext]_auditVars => AuditInv'
  <1> SUFFICES ASSUME AuditInv, [AuditNext]_auditVars PROVE AuditInv'
    OBVIOUS
  <1>1. CASE UNCHANGED auditVars
    <2>1. /\ UNCHANGED <<evidence, events, baselines, runs, bucketAt, object, results, pc>>
          /\ UNCHANGED <<targets, asked, noted, atStart, during>>
      BY <1>1 DEF auditVars, storeVars, world, auditLocals, observed
    <2>2. JoinIsUnique' /\ RegisteredReplicas' = RegisteredReplicas
      BY <2>1, RegisteredKept DEF AuditInv, JoinIsUnique, baseline_event_exists
    <2>3. \A q \in RunIds : Unmoved(q) /\ Watches(q)'
      BY <2>1 DEF AuditInv, Stands, Progress, Watches, Unmoved
    <2>4. QED
      BY <2>2, <2>3, WorldAuditStep
  <1>2. ASSUME NEW r \in RunIds, Audit(r) \/ AuditCrash(r) PROVE AuditInv'
    BY <1>2, AuditStarts, AuditReads, AuditNotes, AuditEnds DEF Audit
  <1>3. QED
    BY <1>1, <1>2, ObjectChangesKeeps, ReconfigureKeeps, ReceiptRegisteredKeeps
       DEF AuditNext

LEMMA AuditInvHolds == AuditSpec => []AuditInv
  BY InitAuditInv, AuditStepKeeps, PTL DEF AuditSpec

-----------------------------------------------------------------------------
(* What follows.                                                           *)

\* A result of an audit has a status and a code of the code's own, whatever the
\* replicas answer (replica_audit.py: check, _error_code).
THEOREM AuditTypesHold == AuditSpec => []AuditTypeOK
  <1>1. AuditInv => AuditTypeOK
    BY DEF AuditInv
  <1>2. QED
    BY <1>1, AuditInvHolds, PTL

\* A run that ends in PASS has found every replica registered when it started to
\* hold what was registered (replica_audit.py: check; replicas.py: verify_replicas).
THEOREM PassWasHeld == AuditSpec => []PassMeansHeld
  <1>1. ASSUME AuditInv, NEW r \in RunIds, runs[r].status = "PASS", NEW x \in atStart[r]
        PROVE  HeldAsRegistered(r, x)
    <2>1. Stands(r) /\ JoinIsUnique
      BY <1>1 DEF AuditInv
    <2>2. x \in asked[r] /\ asked[r] \subseteq RegisteredReplicas /\ Left(r) = {}
      BY <1>1, <2>1 DEF Stands, Covers, Answers, Concluded
    <2>3. PICK n \in noted[r] : n.event = x.event /\ n.replica = x.replica
      BY <2>2 DEF Left
    <2>4. n.status = "PASS"
      BY <1>1, <2>1 DEF Stands, Answers
    <2>5. PICK y \in asked[r] : Grounded(r, y, n)
      BY <2>1 DEF Stands, Answers
    <2>6. x = y
      BY <2>1, <2>2, <2>3, <2>5, AskedOnce DEF Grounded
    <2>7. QED
      BY <2>4, <2>5, <2>6 DEF Grounded
  <1>2. AuditInv => PassMeansHeld
    BY <1>1 DEF PassMeansHeld, HeldAsRegistered
  <1>3. QED
    BY <1>2, AuditInvHolds, PTL

\* A result FAIL is about an object that, while the audit ran, was missing, had
\* another size, or had its size and another checksum; only where answers may come
\* without a Content-Length can a size mismatch be said of an object that is as it
\* should be (replica_audit.py: check, _error_code; replicas.py: verify_replicas).
THEOREM FailIsReal == AuditSpec => []AlarmIsReal
  <1>1. ASSUME AuditInv, NEW r \in RunIds, NEW n \in results[r], n.status = "FAIL"
        PROVE  \E x \in asked[r] : /\ x.event = n.event /\ x.replica = n.replica
                                   /\ HeldOtherwise(r, x, n.code)
    <2>1. n \in noted[r]
      BY <1>1 DEF AuditInv, Stands, Progress
    <2>2. QED
      BY <1>1, <2>1 DEF AuditInv, Stands, Answers, Grounded
  <1>2. AuditInv => AlarmIsReal
    BY <1>1 DEF AlarmIsReal, HeldOtherwise
  <1>3. QED
    BY <1>2, AuditInvHolds, PTL

\* One replica's answer hides no other's: results are one for each registered
\* replica, and the run's row says what they are (replica_audit.py: check).
THEOREM EachReplicaHasOne == AuditSpec => []EachHasItsResult
  <1>1. ASSUME AuditInv, NEW r \in RunIds
        PROVE  /\ \A m, n \in results[r] : m.event = n.event /\ m.replica = n.replica
                  => m = n
               /\ Concluded(r) => \A x \in atStart[r] : \E n \in results[r] :
                     n.event = x.event /\ n.replica = x.replica
               /\ runs[r].complete => \A n \in results[r] : n.status # "UNKNOWN"
               /\ runs[r].status = "PASS" =>
                     runs[r].complete /\ \A n \in results[r] : n.status = "PASS"
    <2>1. Progress(r) /\ Covers(r) /\ Answers(r)
      BY <1>1 DEF AuditInv, Stands
    <2>2. results[r] \subseteq noted[r]
      BY <2>1 DEF Progress
    <2>3. Concluded(r) =>
            atStart[r] \subseteq asked[r] /\ Left(r) = {} /\ results[r] = noted[r]
      BY <2>1 DEF Covers, Answers
    <2>4. QED
      BY <2>1, <2>2, <2>3 DEF Answers, Left, Conclusive
  <1>2. AuditInv => EachHasItsResult
    BY <1>1 DEF EachHasItsResult, Concluded
  <1>3. QED
    BY <1>2, AuditInvHolds, PTL
-----------------------------------------------------------------------------
(* What readers of an audit's row and of its results may rely on.          *)

LEMMA OneEntry ==
    ASSUME NEW r \in RunIds,
           \A q \in RunIds \ {r} : runs'[q] = runs[q] /\ results'[q] = results[q],
           \/ Ledger!Opened(Account(r), Account(r)')
           \/ Ledger!Filled(Account(r), Account(r)')
           \/ Ledger!Closed(Account(r), Account(r)')
    PROVE  Ledger!Next
  <1>1. Book[r] = Account(r) /\ Book'[r] = Account(r)'
    BY DEF Book
  <1>2. Book' = [Book EXCEPT ![r] = Book'[r]]
    BY DEF Book, Account
  <1>3. Ledger!Write(r)
    BY <1>1, <1>2 DEF Ledger!Write
  <1>4. QED
    BY <1>3 DEF Ledger!Next

LEMMA ResultStatus ==
    ASSUME NEW n \in Result
    PROVE  n.status \in {"PASS", "FAIL", "UNKNOWN"}
  BY Zenon DEF Result

\* The row that an audit closes is one that its results justify.
LEMMA VerdictIsJustified ==
    ASSUME NEW notes \in SUBSET Result, NEW e,
           e.status = Verdict(notes), e.complete = Conclusive(notes), e.rows = notes
    PROVE  Ledger!Justified(e)
  <1> DEFINE found == Ledger!Found(e)
  <1>1. \A status : status \in found <=> \E n \in notes : n.status = status
    BY DEF Ledger!Found
  <1>2. \A n \in notes : n.status \in {"PASS", "FAIL", "UNKNOWN"}
    BY Zenon, ResultStatus
  <1>3. e.complete <=> "UNKNOWN" \notin found
    BY Zenon, <1>1 DEF Conclusive
  <1> HIDE DEF found
  <1>4. found \subseteq {"PASS", "FAIL", "UNKNOWN"}
    BY <1>1, <1>2
  <1>5. QED
    BY <1>1, <1>3, <1>4 DEF Ledger!Justified, Verdict, found

LEMMA AuditIsAccounted == AuditInv /\ [AuditNext]_auditVars => [Ledger!Next]_Book
  <1> SUFFICES ASSUME AuditInv, [AuditNext]_auditVars PROVE [Ledger!Next]_Book
    OBVIOUS
  <1>1. AuditTypeOK /\ \A r \in RunIds : Progress(r) /\ Answers(r)
    BY DEF AuditInv, Stands
  <1>2. CASE UNCHANGED <<runs, results>>
    BY <1>2 DEF Book, Account
  <1>3. ASSUME NEW r \in RunIds, StartAudit(r) PROVE Ledger!Next
    <2>1. /\ pc[r] = "idle" /\ runs' = [runs EXCEPT ![r] =
               [status |-> "RUNNING", complete |-> FALSE]]
          /\ results' = results
      BY <1>3 DEF StartAudit, GoTo, create_run
    <2>2. runs[r].status = "ABSENT" /\ runs[r].complete = FALSE /\ results[r] = {}
      BY <1>1, <2>1 DEF Progress, AuditTypeOK, StoreTypeOK
    <2>3. /\ runs'[r] = [status |-> "RUNNING", complete |-> FALSE]
          /\ \A q \in RunIds \ {r} : runs'[q] = runs[q]
      BY <1>1, <2>1 DEF AuditTypeOK, StoreTypeOK
    <2>4. /\ Account(r) = [status |-> "ABSENT", complete |-> FALSE, rows |-> {}]
          /\ Account(r)' = [status |-> "RUNNING", complete |-> FALSE, rows |-> {}]
      <3>1. runs'[r].status = "RUNNING" /\ runs'[r].complete = FALSE /\ results'[r] = {}
        BY <2>1, <2>2, <2>3
      <3>2. QED
        BY <2>2, <3>1 DEF Account
    <2>5. Ledger!Opened(Account(r), Account(r)')
      BY <2>4 DEF Ledger!Opened, Ledger!NoEntry
    <2>6. QED
      BY <2>1, <2>3, <2>5, OneEntry
  <1>4. ASSUME NEW r \in RunIds, SaveResults(r) PROVE Ledger!Next
    <2>1. pc[r] = "ask" /\ runs' = runs /\ results' = [results EXCEPT ![r] = noted[r]]
      BY <1>4 DEF SaveResults, GoTo, storeVars
    <2>2. runs[r].status = "RUNNING" /\ results[r] = {}
      BY <1>1, <2>1 DEF Progress
    <2>3. \A q \in RunIds \ {r} : results'[q] = results[q]
      BY <1>1, <2>1 DEF AuditTypeOK
    <2>4. Ledger!Filled(Account(r), Account(r)')
      BY <2>1, <2>2 DEF Account, Ledger!Filled
    <2>5. QED
      BY <2>1, <2>3, <2>4, OneEntry
  <1>5. ASSUME NEW r \in RunIds, FinishAudit(r) PROVE Ledger!Next
    <2>1. /\ pc[r] = "finish" /\ results' = results
          /\ runs' = [runs EXCEPT ![r] =
               [status |-> Verdict(noted[r]), complete |-> Conclusive(noted[r])]]
      BY <1>5 DEF FinishAudit, GoTo, finish_run
    <2>2. runs[r].status = "RUNNING" /\ results[r] = noted[r] /\ noted[r] \in SUBSET Result
      BY <1>1, <2>1 DEF Progress, Answers, Concluded, AuditTypeOK
    <2>3. /\ runs'[r] = [status |-> Verdict(noted[r]), complete |-> Conclusive(noted[r])]
          /\ \A q \in RunIds \ {r} : runs'[q] = runs[q]
      BY <1>1, <2>1 DEF AuditTypeOK, StoreTypeOK
    <2>4. Account(r)' = [status |-> Verdict(noted[r]), complete |-> Conclusive(noted[r]),
                         rows |-> noted[r]]
      BY <2>1, <2>2, <2>3 DEF Account
    <2>5. Ledger!Justified(Account(r)')
      BY <2>2, <2>4, VerdictIsJustified
    <2>6. Ledger!Closed(Account(r), Account(r)')
      BY <2>1, <2>2, <2>5 DEF Account, Ledger!Closed
    <2>7. QED
      BY <2>1, <2>3, <2>6, OneEntry
  <1>6. ASSUME NEW r \in RunIds, FailAudit(r) PROVE Ledger!Next
    <2>1. /\ pc[r] = "fail" /\ results' = results
          /\ runs' = [runs EXCEPT ![r] = [status |-> "FAIL", complete |-> FALSE]]
      BY <1>6 DEF FailAudit, GoTo, finish_run
    <2>2. runs[r].status = "RUNNING"
      BY <1>1, <2>1 DEF Progress
    <2>3. /\ runs'[r] = [status |-> "FAIL", complete |-> FALSE]
          /\ \A q \in RunIds \ {r} : runs'[q] = runs[q]
      BY <1>1, <2>1 DEF AuditTypeOK, StoreTypeOK
    <2>4. Ledger!Justified(Account(r)')
      BY <2>3 DEF Account, Ledger!Justified
    <2>5. Ledger!Closed(Account(r), Account(r)')
      BY <2>1, <2>2, <2>4 DEF Account, Ledger!Closed
    <2>6. QED
      BY <2>1, <2>3, <2>5, OneEntry
  <1>7. ASSUME NEW r \in RunIds,
               \/ LoadTargets(r) \/ ReadRegistered(r) \/ AuditRaises(r) \/ AuditCrash(r)
               \/ \E x \in asked[r] : AskReplica(r, x) \/ ConfigMismatch(r, x)
        PROVE  UNCHANGED <<runs, results>>
    BY <1>7 DEF LoadTargets, ReadRegistered, AuditRaises, AuditCrash, AskReplica,
       ConfigMismatch, storeVars
  <1>8. ASSUME \/ \E p \in Places, o \in Object \cup {Missing} : ObjectChanges(p, o)
               \/ \E t \in Replicas, b \in Buckets : Reconfigure(t, b)
               \/ \E q \in Registration, k \in Keys : ReceiptRegistered(q, k)
        PROVE  UNCHANGED <<runs, results>>
    BY <1>8 DEF ObjectChanges, Reconfigure, ReceiptRegistered, Register, storeVars
  <1>9. CASE UNCHANGED auditVars
    BY <1>2, <1>9 DEF auditVars, storeVars
  <1>10. CASE AuditNext
    BY <1>2, <1>3, <1>4, <1>5, <1>6, <1>7, <1>8, <1>10 DEF AuditNext, Audit
  <1>11. QED
    BY <1>9, <1>10

\* The exporter may rely on what an audit of replicas stores: its row is closed once,
\* with a status that the results stored by then justify, and then neither changes
\* (database.py: create_run, save_results, finish_run; replica_audit.py: check).
THEOREM AuditsAreAccounted == AuditSpec => RunIsAccounted
  <1>1. AuditInit => Ledger!Init
    BY DEF AuditInit, StoreInit, Ledger!Init, Ledger!NoEntry, Book, Account
  <1>2. QED
    BY <1>1, AuditIsAccounted, AuditInvHolds, PTL DEF AuditSpec, RunIsAccounted, Ledger!Spec
=============================================================================
