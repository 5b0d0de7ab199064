------------------------- MODULE IntegrityCheckProofs -------------------------
(***************************************************************************)
(* Proofs about IntegrityCheck, for any number of checks, files,           *)
(* directories and baselines; and about ManualBaseline, the command that   *)
(* writes such baselines, for any number of executions.                    *)
(***************************************************************************)
EXTENDS IntegrityCheck, ManualBaseline, TLAPS

\* A check has reached the hashing of files, or said that its scan was complete.
AfterWalk(r) == pc[r] \in {"hash", "finish"} \/ runs[r].complete

\* Where a check stands, and what its row and its results say then.
Phase(r) ==
    /\ pc[r] = "idle" => /\ during[r] = {} /\ listed[r] = {} /\ traversal[r] = {}
                         /\ runs[r].status = "ABSENT"
    /\ pc[r] \in {"walk", "hash", "finish", "fail", "dead"} => runs[r].status = "RUNNING"
    /\ pc[r] # "done" => ~runs[r].complete
    /\ pc[r] = "done" =>
          runs[r].status = IF runs[r].complete THEN Verdict(noted[r], TRUE) ELSE "FAIL"
    /\ pc[r] \in {"idle", "walk"} => noted[r] = {}
    /\ pc[r] \in {"idle", "walk", "hash"} => results[r] = {}
    /\ pc[r] = "finish" \/ runs[r].complete => results[r] = noted[r]
    /\ results[r] \in {{}, noted[r]}
    /\ AfterWalk(r) \/ results[r] # {} => pending[r] = {}
    /\ runs[r].complete => complete[r]

\* The observers miss nothing.
Seen(r) ==
    pc[r] # "idle" => \A f \in Files : <<f, tree[f]>> \in during[r] /\ unreadable \subseteq hidden[r]

Tables(r) ==
    /\ atStart[r] \subseteq baselines /\ rows[r] \subseteq baselines
    /\ AfterWalk(r) => atStart[r] \subseteq rows[r]

\* A file the walk has not found was gone then.
Gone(r, f) ==
    /\ \E s \in FileState \ Content : <<f, s>> \in during[r]
    /\ Registered(f, atStart[r]) => f \in everLost

Walked(r) ==
    /\ \A f \in Files :
          /\ f \in listed[r] => DirOf[f] \notin pending[r]
          /\ pc[r] # "idle" =>
                \/ f \in listed[r] \/ DirOf[f] \in pending[r]
                \/ WalkBroken(r) \/ DirOf[f] \in hidden[r] \/ Gone(r, f)
    /\ \A n \in traversal[r] :
          \/ n = Note(Root, "UNKNOWN", "DIRECTORY_READ_ERROR")
          \/ \E f \in Files : /\ n = Note(f, "UNKNOWN", "SYMLINK_SKIPPED")
                              /\ f \notin listed[r] /\ DirOf[f] \notin pending[r]

\* The codes of files that were examined.
FileCodes == {"", "NO_BASELINE", "CHECKSUM_MISMATCH", "FILE_READ_ERROR"}

\* What the result of a file rests on ...
OfFile(r, n) ==
    /\ n.path \in listed[r]
    /\ \/ n = Note(n.path, "PASS", "") /\ \E b \in rows[r] :
             /\ b.path = n.path
             /\ <<n.path, [checksum |-> b.checksum, size |-> b.size]>> \in during[r]
       \/ n = Note(n.path, "WARNING", "NO_BASELINE")
       \/ n = Note(n.path, "UNKNOWN", "FILE_READ_ERROR")
       \/ n = Note(n.path, "FAIL", "CHECKSUM_MISMATCH") /\ \E b \in rows[r], c \in Content :
             /\ b.path = n.path /\ <<n.path, c>> \in during[r]
             /\ c # [checksum |-> b.checksum, size |-> b.size]

\* ... and that of a baseline without a file.
OfRow(r, n) ==
    /\ n = Note(n.path, "FAIL", "FILE_MISSING")
    /\ n.path \notin listed[r] /\ \E b \in rows[r] : b.path = n.path

Notes(r) ==
    /\ \A n \in noted[r] : n \in traversal[r] \/ OfFile(r, n) \/ OfRow(r, n)
    /\ \A m, n \in noted[r] :
          m.path = n.path /\ m.code \in FileCodes /\ n.code \in FileCodes => m = n
    /\ AfterWalk(r) /\ complete[r] =>
          traversal[r] = {} /\ \A n \in noted[r] : n.status # "UNKNOWN"
    /\ pc[r] = "finish" \/ runs[r].complete =>
          /\ \A f \in listed[r] : \E n \in noted[r] : n.path = f
          /\ \A b \in rows[r] : b.path \in listed[r] \/ \E n \in noted[r] : n.path = b.path

Knows(r) == Phase(r) /\ Seen(r) /\ Tables(r) /\ Walked(r) /\ Notes(r)

\* A path has one baseline, and a file that is gone while it has one is known to be.
Together ==
    /\ \A a, b \in baselines : a.path = b.path => a = b
    /\ \A f \in Files : tree[f] \notin Content /\ Registered(f, baselines) => f \in everLost

IndInv == TypeOK /\ Together /\ \A r \in RunIds : Knows(r)

-----------------------------------------------------------------------------
(* What a step leaves alone.                                               *)

\* A step of another execution, or of the world.
Same(q) ==
    /\ pc'[q] = pc[q] /\ runs'[q] = runs[q] /\ results'[q] = results[q]
    /\ rows'[q] = rows[q] /\ noted'[q] = noted[q] /\ complete'[q] = complete[q]
    /\ atStart'[q] = atStart[q] /\ pending'[q] = pending[q] /\ listed'[q] = listed[q]
    /\ traversal'[q] = traversal[q]
    /\ during[q] \subseteq during'[q]
    /\ pc[q] # "idle" => \A f \in Files : hidden[q] \subseteq hidden'[q]
    /\ pc[q] = "idle" => during'[q] = {}

LEMMA SameKeeps ==
    ASSUME NEW q \in RunIds, Knows(q), Same(q), Seen(q)',
           baselines \subseteq baselines', everLost \subseteq everLost'
    PROVE  Knows(q)'
  <1> USE DEF Knows, Same
  <1>1. Phase(q)'
    BY DEF Phase, AfterWalk, Verdict
  <1>2. Tables(q)'
    BY DEF Tables, AfterWalk
  <1>3. Walked(q)'
    <2>1. ASSUME NEW f \in Files, Gone(q, f) PROVE Gone(q, f)'
      BY <2>1 DEF Gone, Registered
    <2>2. WalkBroken(q) => WalkBroken(q)'
      BY DEF WalkBroken
    <2>3. QED
      BY <2>1, <2>2 DEF Walked
  <1>4. Notes(q)'
    <2>1. ASSUME NEW n \in noted[q], OfFile(q, n) PROVE OfFile(q, n)'
      BY <2>1 DEF OfFile
    <2>2. ASSUME NEW n \in noted[q], OfRow(q, n) PROVE OfRow(q, n)'
      BY <2>2 DEF OfRow
    <2>3. QED
      BY <2>1, <2>2 DEF Notes, AfterWalk
  <1>5. QED
    BY <1>1, <1>2, <1>3, <1>4

\* A step of one check leaves the world and the other checks alone.
LEMMA CheckStepKeeps ==
    ASSUME IndInv, NEW r \in RunIds, TypeOK', Knows(r)',
           \A q \in RunIds \ {r} : Same(q),
           \A q \in RunIds \ {r} : during'[q] = during[q] /\ hidden'[q] = hidden[q],
           UNCHANGED <<baselines, world, everLost>>
    PROVE  IndInv'
  <1>1. Together'
    BY DEF IndInv, Together, Registered, world
  <1>2. ASSUME NEW q \in RunIds PROVE Knows(q)'
    <2>1. CASE q = r
      BY <2>1
    <2>2. CASE q # r
      <3>1. Same(q) /\ during'[q] = during[q] /\ hidden'[q] = hidden[q] /\ Knows(q)
        BY <2>2 DEF IndInv
      <3>2. Seen(q)'
        BY <3>1 DEF Knows, Seen, Same, world
      <3>3. QED
        BY <3>1, <3>2, SameKeeps
    <2>3. QED
      BY <2>1, <2>2
  <1>3. QED
    BY <1>1, <1>2 DEF IndInv

-----------------------------------------------------------------------------
(* The beginning, and types.                                               *)

LEMMA InitIndInv == Init => IndInv
  <1> SUFFICES ASSUME Init PROVE IndInv
    OBVIOUS
  <1> USE DEF Init, StoreInit, WalkInit
  <1>1. TypeOK
    BY DEF TypeOK, StoreTypeOK, WalkTypeOK, CheckStep, RunStatus
  <1>2. Together
    BY DEF Together, Registered
  <1>3. ASSUME NEW r \in RunIds PROVE Knows(r)
    <2>1. Phase(r) /\ Seen(r) /\ Tables(r)
      BY DEF Phase, Seen, Tables, AfterWalk
    <2>2. Walked(r)
      BY DEF Walked
    <2>3. Notes(r)
      BY DEF Notes, AfterWalk
    <2>4. QED
      BY <2>1, <2>2, <2>3 DEF Knows
  <1>4. QED
    BY <1>1, <1>2, <1>3 DEF IndInv

LEMMA StartType ==
    ASSUME TypeOK, NEW r \in RunIds, Start(r) PROVE TypeOK'
  <1>1. StoreTypeOK' /\ pc' \in [RunIds -> CheckStep]
    BY DEF TypeOK, StoreTypeOK, Start, GoTo, create_run, registry, CheckStep, RunStatus
  <1>2. {<<f, tree[f]>> : f \in Files} \in SUBSET (Files \X FileState)
    BY DEF TypeOK, WalkTypeOK
  <1>3. atStart' \in [RunIds -> SUBSET BaselineRow]
    BY DEF TypeOK, StoreTypeOK, Start
  <1>4. pending' \in [RunIds -> SUBSET Dirs] /\ hidden' \in [RunIds -> SUBSET Dirs]
    BY DEF TypeOK, WalkTypeOK, Start, BeginWalk
  <1>5. during' \in [RunIds -> SUBSET (Files \X FileState)]
    <2>1. during' = [during EXCEPT ![r] = {<<f, tree[f]>> : f \in Files}]
      BY DEF Start, BeginWalk
    <2> HIDE DEF FileState
    <2>2. QED
      BY <2>1, <1>2 DEF TypeOK, WalkTypeOK
  <1>6. QED
    BY <1>1, <1>3, <1>4, <1>5 DEF TypeOK, WalkTypeOK, Start, BeginWalk, locals, world

LEMMA WalkType ==
    ASSUME TypeOK, NEW r \in RunIds, Walk(r) PROVE TypeOK'
  <1>1. CASE WalkAborts(r)
    <2>1. Note(Root, "UNKNOWN", "DIRECTORY_READ_ERROR") \in Result
      BY DEF Note, Result
    <2>2. pending' \in [RunIds -> SUBSET Dirs] /\ traversal' \in [RunIds -> SUBSET Result]
      BY <1>1, <2>1 DEF TypeOK, WalkTypeOK, WalkAborts
    <2>3. QED
      BY <1>1, <2>2 DEF TypeOK, StoreTypeOK, WalkTypeOK, Walk, WalkAborts, storeVars,
         locals, world, observed
  <1>2. ASSUME NEW d \in Dirs, ListDirectory(r, d) PROVE TypeOK'
    <2>1. \A f \in Files : Note(f, "UNKNOWN", "SYMLINK_SKIPPED") \in Result
      BY TreeAssumption DEF Note, Result
    <2>2. RegularIn(d) \subseteq Files
             /\ {Note(f, "UNKNOWN", "SYMLINK_SKIPPED") : f \in SymlinksIn(d)} \subseteq Result
      BY <2>1 DEF RegularIn, SymlinksIn
    <2>3. listed' \in [RunIds -> SUBSET Files] /\ traversal' \in [RunIds -> SUBSET Result]
      BY <1>2, <2>2 DEF TypeOK, WalkTypeOK, ListDirectory
    <2>4. pending' \in [RunIds -> SUBSET Dirs]
      BY <1>2 DEF TypeOK, WalkTypeOK, ListDirectory
    <2>5. QED
      BY <1>2, <2>3, <2>4 DEF TypeOK, StoreTypeOK, WalkTypeOK, Walk, ListDirectory, storeVars,
         locals, world, observed
  <1>3. QED
    BY <1>1, <1>2 DEF Walk, WalkStep

LEMMA ReadBaselinesType ==
    ASSUME TypeOK, NEW r \in RunIds, ReadBaselines(r) PROVE TypeOK'
  BY DEF TypeOK, StoreTypeOK, WalkTypeOK, ReadBaselines, GoTo, CompleteAfterWalk,
     storeVars, walkVars, world, walk, observed, CheckStep

LEMMA JudgementType ==
    ASSUME NEW f \in Files, NEW known, NEW state, NEW n \in Judgement(f, known, state)
    PROVE  n \in Result /\ n.path = f
  <1>1. n \in {Note(f, "WARNING", "NO_BASELINE"), Note(f, "UNKNOWN", "FILE_READ_ERROR"),
              Note(f, "PASS", ""), Note(f, "FAIL", "CHECKSUM_MISMATCH")}
    BY DEF Judgement
  <1>2. f \in Paths
    BY TreeAssumption
  <1>3. \A s \in {"PASS", "FAIL", "WARNING", "UNKNOWN"},
           c \in {"", "NO_BASELINE", "CHECKSUM_MISMATCH", "FILE_READ_ERROR"} :
              Note(f, s, c) \in Result /\ Note(f, s, c).path = f
    BY <1>2 DEF Note, Result
  <1>4. QED
    BY <1>1, <1>3

LEMMA CheckFileType ==
    ASSUME TypeOK, NEW r \in RunIds, NEW f \in Files, CheckFile(r, f) PROVE TypeOK'
  <1>1. PICK n \in Judgement(f, {b \in rows[r] : b.path = f}, tree[f]) :
            /\ noted' = [noted EXCEPT ![r] = @ \cup {n}]
            /\ complete' = [complete EXCEPT ![r] = @ /\ n.code # "FILE_READ_ERROR"]
    BY DEF CheckFile
  <1>2. n \in Result
    BY <1>1, JudgementType
  <1>3. noted' \in [RunIds -> SUBSET Result] /\ complete' \in [RunIds -> BOOLEAN]
    BY <1>1, <1>2 DEF TypeOK
  <1>4. QED
    BY <1>3 DEF TypeOK, StoreTypeOK, WalkTypeOK, CheckFile, storeVars, walkVars, world,
       walk, observed

LEMMA SaveResultsType ==
    ASSUME TypeOK, NEW r \in RunIds, SaveResults(r) PROVE TypeOK'
  <1>1. Missing(r) \subseteq Result
    <2>1. \A b \in rows[r] : b.path \in Paths
      BY DEF TypeOK, BaselineRow
    <2>2. \A p \in Paths : Note(p, "FAIL", "FILE_MISSING") \in Result
      BY DEF Note, Result
    <2>3. QED
      BY <2>1, <2>2 DEF Missing
  <1>2. noted' \in [RunIds -> SUBSET Result] /\ results' \in [RunIds -> SUBSET Result]
    BY <1>1 DEF SaveResults, TypeOK
  <1>3. pc' \in [RunIds -> CheckStep]
    BY DEF SaveResults, GoTo, TypeOK, CheckStep
  <1>4. QED
    BY <1>2, <1>3 DEF TypeOK, StoreTypeOK, WalkTypeOK, SaveResults, storeVars, walkVars,
       world, walk, observed

LEMMA EndType ==
    ASSUME TypeOK, NEW r \in RunIds,
           FinishCheck(r) \/ FailCheck(r) \/ CheckRaises(r) \/ Crash(r)
    PROVE  TypeOK'
  <1>1. Verdict(noted[r], complete[r]) \in RunStatus /\ complete[r] \in BOOLEAN
    BY DEF Verdict, RunStatus, TypeOK
  <1>2. pc' \in [RunIds -> CheckStep]
    BY DEF TypeOK, FinishCheck, FailCheck, CheckRaises, Crash, GoTo, CheckStep
  <1>3. runs' \in [RunIds -> [status : RunStatus, complete : BOOLEAN]]
    <2>1. CASE FinishCheck(r)
      BY <2>1, <1>1 DEF TypeOK, StoreTypeOK, FinishCheck, finish_run
    <2>2. CASE FailCheck(r)
      BY <2>2 DEF TypeOK, StoreTypeOK, FailCheck, finish_run, RunStatus
    <2>3. CASE CheckRaises(r) \/ Crash(r)
      BY <2>3 DEF TypeOK, StoreTypeOK, CheckRaises, Crash, storeVars
    <2>4. QED
      BY <2>1, <2>2, <2>3
  <1>4. QED
    BY <1>2, <1>3 DEF TypeOK, StoreTypeOK, WalkTypeOK, FinishCheck, FailCheck, CheckRaises,
       Crash, finish_run, registry, storeVars, walkVars, world, walk, observed, locals

LEMMA WorldType ==
    ASSUME TypeOK,
           \/ \E f \in Files, s \in FileState : FileChanges(f, s)
           \/ \E d \in Dirs : PermissionsChange(d)
           \/ \E p \in Paths, c \in Content : BaselineAppears(p, c)
    PROVE  TypeOK'
  <1>1. ASSUME NEW f \in Files, NEW s \in FileState, FileChanges(f, s) PROVE TypeOK'
    <2>1. everLost' \subseteq Files
      BY <1>1 DEF FileChanges, TypeOK
    <2>2. tree' \in [Files -> FileState]
      BY <1>1 DEF FileChanges, ChangeFile, TypeOK, WalkTypeOK
    <2>3. during' \in [RunIds -> SUBSET (Files \X FileState)]
      <3>1. ASSUME NEW r \in RunIds
            PROVE  (IF Begun(r) THEN during[r] \cup {<<f, s>>} ELSE {})
                      \in SUBSET (Files \X FileState)
        <4>1. <<f, s>> \in Files \X FileState
          OBVIOUS
        <4>2. QED
          BY <4>1 DEF TypeOK, WalkTypeOK
      <3>2. QED
        BY <1>1, <3>1 DEF FileChanges, ChangeFile
    <2>4. QED
      BY <1>1, <2>1, <2>2, <2>3 DEF FileChanges, ChangeFile, TypeOK, StoreTypeOK, WalkTypeOK,
         storeVars, walk, locals
  <1>2. ASSUME NEW d \in Dirs, PermissionsChange(d) PROVE TypeOK'
    <2>1. unreadable' \subseteq Dirs
      BY <1>2 DEF PermissionsChange, ChangePermissions, TypeOK, WalkTypeOK
    <2>2. hidden' \in [RunIds -> SUBSET Dirs]
      BY <1>2, <2>1 DEF PermissionsChange, ChangePermissions, TypeOK, WalkTypeOK
    <2>3. QED
      BY <1>2, <2>1, <2>2 DEF PermissionsChange, ChangePermissions, TypeOK, StoreTypeOK,
         WalkTypeOK, storeVars, walk, locals
  <1>3. ASSUME NEW p \in Paths, NEW c \in Content, BaselineAppears(p, c) PROVE TypeOK'
    <2>1. [path |-> p, checksum |-> c.checksum, size |-> c.size] \in BaselineRow
      BY DEF Content, BaselineRow
    <2>2. baselines' \subseteq BaselineRow /\ byHand' \subseteq Paths
      BY <1>3, <2>1 DEF BaselineAppears, add_baseline, InsertOrIgnore, TypeOK, StoreTypeOK
    <2>3. everLost' \subseteq Files
      BY <1>3 DEF BaselineAppears, TypeOK
    <2>4. QED
      BY <1>3, <2>2, <2>3 DEF BaselineAppears, add_baseline, TypeOK, StoreTypeOK, WalkTypeOK,
         walkVars, world, walk, observed, locals
  <1>4. QED
    BY <1>1, <1>2, <1>3

LEMMA TypeStep == TypeOK /\ [Next]_vars => TypeOK'
  <1> SUFFICES ASSUME TypeOK, [Next]_vars PROVE TypeOK'
    OBVIOUS
  <1>1. CASE UNCHANGED vars
    BY <1>1 DEF vars, TypeOK, StoreTypeOK, WalkTypeOK, storeVars, walkVars, world, walk,
       observed, locals
  <1>2. ASSUME NEW r \in RunIds, Check(r) \/ Crash(r) PROVE TypeOK'
    <2>1. ASSUME NEW f \in Files, CheckFile(r, f) PROVE TypeOK'
      BY <2>1, CheckFileType
    <2>2. QED
      BY <1>2, <2>1, StartType, WalkType, ReadBaselinesType, SaveResultsType, EndType
         DEF Check
  <1>3. QED
    BY <1>1, <1>2, WorldType DEF Next

-----------------------------------------------------------------------------
(* One lemma for each action.                                              *)

LEMMA StartKeeps ==
    ASSUME IndInv, NEW r \in RunIds, Start(r) PROVE IndInv'
  <1> USE DEF IndInv, TypeOK, StoreTypeOK, WalkTypeOK
  <1>1. TypeOK'
    BY StartType
  <1>2. /\ pc[r] = "idle" /\ pc'[r] = "walk"
        /\ runs'[r].status = "RUNNING" /\ runs'[r].complete = FALSE
        /\ pending'[r] = Dirs /\ during'[r] = {<<f, tree[f]>> : f \in Files}
        /\ hidden'[r] = unreadable /\ atStart'[r] = baselines
        /\ noted' = noted /\ results' = results /\ listed' = listed
        /\ traversal' = traversal /\ rows' = rows /\ complete' = complete
    BY DEF Start, GoTo, create_run, BeginWalk, locals
  <1>3. UNCHANGED <<baselines, world, everLost>>
    BY DEF Start, create_run, BeginWalk, registry
  <1>4. noted[r] = {} /\ results[r] = {} /\ listed[r] = {} /\ traversal[r] = {}
    BY <1>2 DEF Knows, Phase
  <1>5. Knows(r)'
    <2>1. Phase(r)' /\ Seen(r)'
      BY <1>2, <1>3, <1>4 DEF Phase, Seen, AfterWalk, world
    <2>2. Tables(r)'
      BY <1>2, <1>3 DEF Knows, Tables, AfterWalk
    <2>3. Walked(r)'
      BY <1>2, <1>4, TreeAssumption DEF Walked
    <2>4. Notes(r)'
      BY <1>2, <1>4 DEF Notes, AfterWalk
    <2>5. QED
      BY <2>1, <2>2, <2>3, <2>4 DEF Knows
  <1>6. ASSUME NEW q \in RunIds \ {r}
        PROVE  Same(q) /\ during'[q] = during[q] /\ hidden'[q] = hidden[q]
    <2>1. pc[q] = "idle" => during[q] = {}
      BY DEF Knows, Phase
    <2>2. QED
      BY <1>2, <2>1 DEF Same, Start, GoTo, create_run, BeginWalk
  <1> HIDE DEF IndInv, TypeOK, StoreTypeOK, WalkTypeOK
  <1>7. QED
    BY <1>1, <1>3, <1>5, <1>6, CheckStepKeeps

LEMMA ListDirectoryWalks ==
    ASSUME IndInv, NEW r \in RunIds, pc[r] = "walk", NEW d \in Dirs,
           ListDirectory(r, d), UNCHANGED <<pc, atStart, everLost>>
    PROVE  Walked(r)'
  <1> USE DEF IndInv, TypeOK, StoreTypeOK, WalkTypeOK
  <1>1. Walked(r) /\ Seen(r) /\ Tables(r)
    BY DEF Knows
  <1>2. d \in pending[r] /\ pending'[r] = pending[r] \ {d}
    BY DEF ListDirectory
  <1>3. listed[r] \subseteq listed'[r] /\ \A f \in listed'[r] \ listed[r] : DirOf[f] = d
    BY DEF ListDirectory, RegularIn
  <1>4. traversal[r] \subseteq traversal'[r]
    BY DEF ListDirectory
  <1>5. ASSUME NEW f \in Files
        PROVE  /\ f \in listed'[r] => DirOf[f] \notin pending'[r]
               /\ \/ f \in listed'[r] \/ DirOf[f] \in pending'[r]
                  \/ WalkBroken(r)' \/ DirOf[f] \in hidden'[r] \/ Gone(r, f)'
    <2>1. WalkBroken(r) => WalkBroken(r)'
      BY <1>4 DEF WalkBroken
    <2>2. Gone(r, f) => Gone(r, f)'
      BY DEF Gone, ListDirectory, observed
    <2>3. CASE DirOf[f] # d
      BY <1>1, <1>2, <1>3, <2>1, <2>2, <2>3 DEF Walked, ListDirectory, observed
    <2>4. CASE DirOf[f] = d /\ d \in unreadable
      BY <1>1, <1>2, <2>4 DEF Seen, ListDirectory, observed
    <2>5. CASE DirOf[f] = d /\ d \notin unreadable /\ tree[f] \in Content
      BY <1>2, <2>5 DEF ListDirectory, RegularIn
    <2>6. CASE DirOf[f] = d /\ tree[f] \notin Content
      <3>1. <<f, tree[f]>> \in during[r] /\ tree[f] \in FileState \ Content
        BY <1>1, <2>6 DEF Seen
      <3>2. Registered(f, atStart[r]) => f \in everLost
        BY <1>1, <2>6 DEF Tables, Registered, Together
      <3>3. Gone(r, f)
        BY <3>1, <3>2 DEF Gone
      <3>4. QED
        BY <2>2, <2>6, <3>3, <1>2
    <2>7. QED
      BY <2>3, <2>4, <2>5, <2>6
  <1>6. ASSUME NEW n \in traversal'[r]
        PROVE  \/ n = Note(Root, "UNKNOWN", "DIRECTORY_READ_ERROR")
               \/ \E f \in Files : /\ n = Note(f, "UNKNOWN", "SYMLINK_SKIPPED")
                                   /\ f \notin listed'[r] /\ DirOf[f] \notin pending'[r]
    <2>1. CASE n \in traversal[r]
      BY <1>1, <1>2, <1>3, <2>1 DEF Walked
    <2>2. CASE n \notin traversal[r]
      <3>1. PICK f \in SymlinksIn(d) : n = Note(f, "UNKNOWN", "SYMLINK_SKIPPED")
        BY <2>2 DEF ListDirectory
      <3>2. f \in Files /\ DirOf[f] = d /\ tree[f] = Symlink
        BY DEF SymlinksIn
      <3>3. f \notin listed[r]
        BY <1>1, <1>2, <3>2 DEF Walked
      <3>4. f \notin listed'[r]
        BY <3>2, <3>3, TreeAssumption DEF ListDirectory, RegularIn
      <3>5. QED
        BY <3>1, <3>2, <3>4, <1>2
    <2>3. QED
      BY <2>1, <2>2
  <1>7. QED
    BY <1>5, <1>6 DEF Walked

LEMMA WalkAbortsWalks ==
    ASSUME IndInv, NEW r \in RunIds, WalkAborts(r) PROVE Walked(r)'
  <1> USE DEF IndInv, TypeOK, StoreTypeOK, WalkTypeOK
  <1> DEFINE N == Note(Root, "UNKNOWN", "DIRECTORY_READ_ERROR")
  <1>1. pending'[r] = {} /\ listed' = listed /\ traversal'[r] = traversal[r] \cup {N}
    BY DEF WalkAborts
  <1>2. WalkBroken(r)'
    <2>1. N.code = "DIRECTORY_READ_ERROR"
      BY DEF Note
    <2>2. QED
      BY <1>1, <2>1 DEF WalkBroken
  <1>3. Walked(r)
    BY DEF Knows
  <1>4. \A f \in Files : DirOf[f] \notin pending'[r]
    BY <1>1
  <1>5. QED
    BY <1>1, <1>2, <1>3, <1>4 DEF Walked

LEMMA WalkKeeps ==
    ASSUME IndInv, NEW r \in RunIds, Walk(r) PROVE IndInv'
  <1> USE DEF IndInv, TypeOK, StoreTypeOK, WalkTypeOK
  <1>1. TypeOK'
    BY WalkType
  <1>2. /\ pc[r] = "walk" /\ UNCHANGED <<pc, runs, results, rows, noted, complete, atStart>>
        /\ UNCHANGED <<baselines, everLost>>
    BY DEF Walk, storeVars, locals
  <1>3. UNCHANGED <<world, during, hidden>>
    BY DEF Walk, WalkStep, WalkAborts, ListDirectory, observed
  <1>4. \A q \in RunIds \ {r} : /\ pending'[q] = pending[q] /\ listed'[q] = listed[q]
                                /\ traversal'[q] = traversal[q]
    BY DEF Walk, WalkStep, WalkAborts, ListDirectory
  <1>5. Walked(r)'
    BY <1>2, ListDirectoryWalks, WalkAbortsWalks DEF Walk, WalkStep
  <1>6. Knows(r)'
    <2>1. Phase(r) /\ Seen(r) /\ Tables(r) /\ noted[r] = {} /\ results[r] = {}
             /\ ~runs[r].complete
      BY <1>2 DEF Knows, Phase
    <2>2. Phase(r)' /\ Notes(r)'
      BY <1>2, <2>1 DEF Phase, Notes, AfterWalk
    <2>3. Seen(r)' /\ Tables(r)'
      BY <1>2, <1>3, <2>1 DEF Seen, Tables, AfterWalk, world
    <2>4. QED
      BY <1>5, <2>2, <2>3 DEF Knows
  <1>7. ASSUME NEW q \in RunIds \ {r}
        PROVE  Same(q) /\ during'[q] = during[q] /\ hidden'[q] = hidden[q]
    <2>1. pc[q] = "idle" => during[q] = {}
      BY DEF Knows, Phase
    <2>2. QED
      BY <1>2, <1>3, <1>4, <2>1 DEF Same
  <1> HIDE DEF IndInv, TypeOK, StoreTypeOK, WalkTypeOK
  <1>8. QED
    BY <1>1, <1>2, <1>3, <1>6, <1>7, CheckStepKeeps

LEMMA ReadBaselinesKeeps ==
    ASSUME IndInv, NEW r \in RunIds, ReadBaselines(r) PROVE IndInv'
  <1> USE DEF IndInv, TypeOK, StoreTypeOK, WalkTypeOK
  <1>1. TypeOK'
    BY ReadBaselinesType
  <1>2. /\ pc[r] = "walk" /\ pc'[r] = "hash" /\ pending[r] = {}
        /\ rows'[r] = baselines /\ noted'[r] = traversal[r]
        /\ complete'[r] = (traversal[r] = {})
        /\ UNCHANGED <<baselines, runs, results, atStart, everLost>>
        /\ UNCHANGED <<pending, listed, traversal, during, hidden, world>>
    BY DEF ReadBaselines, GoTo, CompleteAfterWalk, storeVars, walkVars, walk, observed
  <1>3. Knows(r)'
    <2>1. Phase(r) /\ Seen(r) /\ Tables(r) /\ Walked(r) /\ results[r] = {} /\ ~runs[r].complete
      BY <1>2 DEF Knows, Phase
    <2>2. Phase(r)' /\ Seen(r)' /\ Tables(r)'
      BY <1>2, <2>1 DEF Phase, Seen, Tables, AfterWalk, world
    <2>3. Walked(r)'
      <3>1. \A f \in Files : Gone(r, f) => Gone(r, f)'
        BY <1>2 DEF Gone
      <3>2. WalkBroken(r) => WalkBroken(r)'
        BY <1>2 DEF WalkBroken
      <3>3. QED
        BY <1>2, <2>1, <3>1, <3>2 DEF Walked
    <2>4. Notes(r)'
      <3>1. \A n \in traversal[r] : n.code \notin FileCodes
        <4>1. \A p : /\ Note(p, "UNKNOWN", "DIRECTORY_READ_ERROR").code \notin FileCodes
                     /\ Note(p, "UNKNOWN", "SYMLINK_SKIPPED").code \notin FileCodes
          BY DEF Note, FileCodes
        <4>2. QED
          BY <2>1, <4>1 DEF Walked
      <3>2. QED
        BY <1>2, <2>1, <3>1 DEF Notes, AfterWalk
    <2>5. QED
      BY <2>2, <2>3, <2>4 DEF Knows
  <1>4. ASSUME NEW q \in RunIds \ {r}
        PROVE  Same(q) /\ during'[q] = during[q] /\ hidden'[q] = hidden[q]
    <2>1. pc[q] = "idle" => during[q] = {}
      BY DEF Knows, Phase
    <2>2. rows'[q] = rows[q] /\ noted'[q] = noted[q] /\ complete'[q] = complete[q]
             /\ pc'[q] = pc[q]
      BY DEF ReadBaselines, GoTo
    <2>3. QED
      BY <1>2, <2>1, <2>2 DEF Same
  <1> HIDE DEF IndInv, TypeOK, StoreTypeOK, WalkTypeOK
  <1>5. QED
    BY <1>1, <1>2, <1>3, <1>4, CheckStepKeeps

\* What the judgement of a file rests on.
LEMMA JudgementOfFile ==
    ASSUME IndInv, NEW r \in RunIds, NEW f \in Files, pc[r] = "hash", f \in listed[r],
           NEW n \in Judgement(f, {b \in rows[r] : b.path = f}, tree[f])
    PROVE  OfFile(r, n) /\ n.path = f /\ n.code \in FileCodes
              /\ (n.code # "FILE_READ_ERROR" => n.status # "UNKNOWN")
  <1> DEFINE known == {b \in rows[r] : b.path = f}
  <1>1. <<f, tree[f]>> \in during[r]
    BY DEF IndInv, Knows, Seen
  <1>2. n = Note(f, "WARNING", "NO_BASELINE") \/ n = Note(f, "UNKNOWN", "FILE_READ_ERROR")
           \/ n = Note(f, "PASS", "") \/ n = Note(f, "FAIL", "CHECKSUM_MISMATCH")
    BY DEF Judgement
  <1>3. n.path = f /\ n.code \in FileCodes /\ (n.code # "FILE_READ_ERROR" => n.status # "UNKNOWN")
    <2>1. CASE n = Note(f, "WARNING", "NO_BASELINE")
      BY <2>1 DEF Note, FileCodes
    <2>2. CASE n = Note(f, "UNKNOWN", "FILE_READ_ERROR")
      BY <2>2 DEF Note, FileCodes
    <2>3. CASE n = Note(f, "PASS", "")
      BY <2>3 DEF Note, FileCodes
    <2>4. CASE n = Note(f, "FAIL", "CHECKSUM_MISMATCH")
      BY <2>4 DEF Note, FileCodes
    <2>5. QED
      BY <1>2, <2>1, <2>2, <2>3, <2>4
  <1>4. CASE n = Note(f, "WARNING", "NO_BASELINE") \/ n = Note(f, "UNKNOWN", "FILE_READ_ERROR")
    BY <1>3, <1>4 DEF OfFile
  <1>5. CASE n = Note(f, "PASS", "")
    <2>1. tree[f] \in Content /\ \E b \in known : Matches(b, tree[f])
      BY <1>5 DEF Judgement, Note
    <2>2. PICK b \in rows[r] : b.path = f /\ Matches(b, tree[f])
      BY <2>1
    <2>3. tree[f] = [checksum |-> b.checksum, size |-> b.size]
      BY <2>1, <2>2 DEF Content, Matches
    <2>4. QED
      BY <1>1, <1>3, <1>5, <2>2, <2>3 DEF OfFile
  <1>6. CASE n = Note(f, "FAIL", "CHECKSUM_MISMATCH")
    <2>1. known # {} /\ tree[f] \in Content /\ ~\E b \in known : Matches(b, tree[f])
      BY <1>6 DEF Judgement, Note
    <2>2. PICK b \in rows[r] : b.path = f /\ ~Matches(b, tree[f])
      BY <2>1
    <2>3. tree[f] # [checksum |-> b.checksum, size |-> b.size]
      BY <2>2 DEF Matches
    <2>4. \E b1 \in rows[r], c \in Content :
             /\ b1.path = n.path /\ <<n.path, c>> \in during[r]
             /\ c # [checksum |-> b1.checksum, size |-> b1.size]
      BY <1>1, <1>3, <2>1, <2>2, <2>3
    <2>5. n = Note(n.path, "FAIL", "CHECKSUM_MISMATCH") /\ n.path \in listed[r]
      BY <1>3, <1>6
    <2>6. QED
      BY <1>3, <2>4, <2>5 DEF OfFile
  <1>7. QED
    BY <1>2, <1>3, <1>4, <1>5, <1>6

LEMMA CheckFileKeeps ==
    ASSUME IndInv, NEW r \in RunIds, NEW f \in Files, CheckFile(r, f) PROVE IndInv'
  <1> USE DEF IndInv, TypeOK, StoreTypeOK, WalkTypeOK
  <1>1. TypeOK'
    BY CheckFileType
  <1>2. PICK n \in Judgement(f, {b \in rows[r] : b.path = f}, tree[f]) :
            /\ noted' = [noted EXCEPT ![r] = @ \cup {n}]
            /\ complete' = [complete EXCEPT ![r] = @ /\ n.code # "FILE_READ_ERROR"]
    BY DEF CheckFile
  <1>3. /\ pc[r] = "hash" /\ f \in listed[r] /\ f \notin Examined(r)
        /\ UNCHANGED <<baselines, runs, results, pc, rows, atStart, everLost>>
        /\ UNCHANGED <<pending, listed, traversal, during, hidden, world>>
    BY DEF CheckFile, storeVars, walkVars, walk, observed
  <1>4. /\ noted'[r] = noted[r] \cup {n}
        /\ complete'[r] = (complete[r] /\ n.code # "FILE_READ_ERROR")
    BY <1>2
  <1>5. OfFile(r, n) /\ n.path = f /\ n.code \in FileCodes
           /\ (n.code # "FILE_READ_ERROR" => n.status # "UNKNOWN")
    BY <1>2, <1>3, JudgementOfFile
  <1>6. Knows(r)'
    <2>1. Phase(r) /\ Seen(r) /\ Tables(r) /\ Walked(r) /\ Notes(r) /\ results[r] = {}
             /\ ~runs[r].complete
      BY <1>3 DEF Knows, Phase
    <2>2. Phase(r)' /\ Seen(r)' /\ Tables(r)'
      BY <1>3, <2>1 DEF Phase, Seen, Tables, AfterWalk, world
    <2>3. Walked(r)'
      <3>1. \A g \in Files : Gone(r, g) => Gone(r, g)'
        BY <1>3 DEF Gone
      <3>2. WalkBroken(r) => WalkBroken(r)'
        BY <1>3 DEF WalkBroken
      <3>3. QED
        BY <1>3, <2>1, <3>1, <3>2 DEF Walked
    <2>4. Notes(r)'
      <3>1. \A m \in noted'[r] : m \in traversal'[r] \/ OfFile(r, m)' \/ OfRow(r, m)'
        <4>1. \A m \in noted'[r] : m \in traversal[r] \/ OfFile(r, m) \/ OfRow(r, m)
          BY <1>4, <1>5, <2>1 DEF Notes
        <4>2. \A m \in noted'[r] : OfFile(r, m) => OfFile(r, m)'
          BY <1>3 DEF OfFile
        <4>3. \A m \in noted'[r] : OfRow(r, m) => OfRow(r, m)'
          BY <1>3 DEF OfRow
        <4>4. QED
          BY <1>3, <4>1, <4>2, <4>3
      <3>2. \A k, m \in noted'[r] :
              k.path = m.path /\ k.code \in FileCodes /\ m.code \in FileCodes => k = m
        <4>1. \A m \in noted[r] : m.path # f
          BY <1>3 DEF Examined
        <4>2. QED
          BY <1>4, <1>5, <2>1, <4>1 DEF Notes
      <3>3. complete'[r] => traversal'[r] = {} /\ \A m \in noted'[r] : m.status # "UNKNOWN"
        BY <1>3, <1>4, <1>5, <2>1 DEF Notes, AfterWalk
      <3>4. QED
        BY <1>3, <2>1, <3>1, <3>2, <3>3 DEF Notes
    <2>5. QED
      BY <2>2, <2>3, <2>4 DEF Knows
  <1>7. ASSUME NEW q \in RunIds \ {r}
        PROVE  Same(q) /\ during'[q] = during[q] /\ hidden'[q] = hidden[q]
    <2>1. pc[q] = "idle" => during[q] = {}
      BY DEF Knows, Phase
    <2>2. noted'[q] = noted[q] /\ complete'[q] = complete[q]
      BY <1>2
    <2>3. QED
      BY <1>3, <2>1, <2>2 DEF Same
  <1> HIDE DEF IndInv, TypeOK, StoreTypeOK, WalkTypeOK
  <1>8. QED
    BY <1>1, <1>3, <1>6, <1>7, CheckStepKeeps

LEMMA SaveResultsKeeps ==
    ASSUME IndInv, NEW r \in RunIds, SaveResults(r) PROVE IndInv'
  <1> USE DEF IndInv, TypeOK, StoreTypeOK, WalkTypeOK
  <1>1. TypeOK'
    BY SaveResultsType
  <1>2. /\ pc[r] = "hash" /\ pc'[r] = "finish" /\ listed[r] \subseteq Examined(r)
        /\ noted'[r] = noted[r] \cup Missing(r) /\ results'[r] = noted'[r]
        /\ UNCHANGED <<baselines, runs, rows, complete, atStart, everLost>>
        /\ UNCHANGED <<pending, listed, traversal, during, hidden, world>>
    BY DEF SaveResults, GoTo, storeVars, walkVars, walk, observed
  <1>3. ASSUME NEW n \in Missing(r)
        PROVE  /\ OfRow(r, n) /\ n.path \notin listed[r]
               /\ n.code \notin FileCodes /\ n.status # "UNKNOWN"
    <2>1. PICK b \in rows[r] : b.path \notin listed[r] /\ n = Note(b.path, "FAIL", "FILE_MISSING")
      BY DEF Missing
    <2>2. n.path = b.path /\ n.status = "FAIL" /\ n.code = "FILE_MISSING"
      BY <2>1 DEF Note
    <2>3. QED
      BY <2>1, <2>2 DEF OfRow, FileCodes
  <1>4. Knows(r)'
    <2>1. Phase(r) /\ Seen(r) /\ Tables(r) /\ Walked(r) /\ Notes(r) /\ ~runs[r].complete
             /\ pending[r] = {}
      BY <1>2 DEF Knows, Phase, AfterWalk
    <2>2. Phase(r)' /\ Seen(r)' /\ Tables(r)'
      BY <1>2, <2>1 DEF Phase, Seen, Tables, AfterWalk, world
    <2>3. Walked(r)'
      <3>1. \A g \in Files : Gone(r, g) => Gone(r, g)'
        BY <1>2 DEF Gone
      <3>2. WalkBroken(r) => WalkBroken(r)'
        BY <1>2 DEF WalkBroken
      <3>3. QED
        BY <1>2, <2>1, <3>1, <3>2 DEF Walked
    <2>4. Notes(r)'
      <3>1. \A m \in noted'[r] : m \in traversal'[r] \/ OfFile(r, m)' \/ OfRow(r, m)'
        <4>1. \A m \in noted'[r] : m \in traversal[r] \/ OfFile(r, m) \/ OfRow(r, m)
          BY <1>2, <1>3, <2>1 DEF Notes
        <4>2. \A m \in noted'[r] : OfFile(r, m) => OfFile(r, m)'
          BY <1>2 DEF OfFile
        <4>3. \A m \in noted'[r] : OfRow(r, m) => OfRow(r, m)'
          BY <1>2 DEF OfRow
        <4>4. QED
          BY <1>2, <4>1, <4>2, <4>3
      <3>2. \A k, m \in noted'[r] :
              k.path = m.path /\ k.code \in FileCodes /\ m.code \in FileCodes => k = m
        BY <1>2, <1>3, <2>1 DEF Notes
      <3>3. complete'[r] => traversal'[r] = {} /\ \A m \in noted'[r] : m.status # "UNKNOWN"
        BY <1>2, <1>3, <2>1 DEF Notes, AfterWalk
      <3>4. \A f \in listed'[r] : \E n \in noted'[r] : n.path = f
        BY <1>2 DEF Examined
      <3>5. ASSUME NEW b \in rows'[r]
            PROVE  b.path \in listed'[r] \/ \E n \in noted'[r] : n.path = b.path
        <4>1. CASE b.path \notin listed[r]
          <5>1. Note(b.path, "FAIL", "FILE_MISSING") \in Missing(r)
            BY <1>2, <4>1 DEF Missing
          <5>2. Note(b.path, "FAIL", "FILE_MISSING").path = b.path
            BY DEF Note
          <5>3. QED
            BY <1>2, <5>1, <5>2
        <4>2. QED
          BY <1>2, <4>1
      <3>6. QED
        BY <3>1, <3>2, <3>3, <3>4, <3>5 DEF Notes
    <2>5. QED
      BY <2>2, <2>3, <2>4 DEF Knows
  <1>5. ASSUME NEW q \in RunIds \ {r}
        PROVE  Same(q) /\ during'[q] = during[q] /\ hidden'[q] = hidden[q]
    <2>1. pc[q] = "idle" => during[q] = {}
      BY DEF Knows, Phase
    <2>2. noted'[q] = noted[q] /\ results'[q] = results[q] /\ pc'[q] = pc[q]
      BY DEF SaveResults, GoTo
    <2>3. QED
      BY <1>2, <2>1, <2>2 DEF Same
  <1> HIDE DEF IndInv, TypeOK, StoreTypeOK, WalkTypeOK
  <1>6. QED
    BY <1>1, <1>2, <1>4, <1>5, CheckStepKeeps

\* However a check ends.
LEMMA EndKeeps ==
    ASSUME IndInv, NEW r \in RunIds,
           FinishCheck(r) \/ FailCheck(r) \/ CheckRaises(r) \/ Crash(r)
    PROVE  IndInv'
  <1> USE DEF IndInv, TypeOK, StoreTypeOK, WalkTypeOK
  <1>1. TypeOK'
    BY EndType
  <1>2. /\ UNCHANGED <<baselines, results, rows, noted, complete, atStart, everLost>>
        /\ UNCHANGED <<pending, listed, traversal, during, hidden, world>>
    BY DEF FinishCheck, FailCheck, CheckRaises, Crash, finish_run, registry, storeVars,
       walkVars, walk, observed, locals
  <1>3. /\ pc[r] \in {"walk", "hash", "finish", "fail"} /\ pc'[r] \in {"done", "fail", "dead"}
        /\ pc'[r] # "done" => runs'[r] = runs[r]
        /\ pc'[r] = "done" =>
              \/ /\ pc[r] = "finish" /\ runs'[r].complete = complete[r]
                 /\ runs'[r].status = Verdict(noted[r], complete[r])
              \/ runs'[r].status = "FAIL" /\ runs'[r].complete = FALSE
    BY DEF FinishCheck, FailCheck, CheckRaises, Crash, GoTo, finish_run, storeVars, CheckStep
  <1>4. Knows(r)'
    <2>1. /\ Phase(r) /\ Seen(r) /\ Tables(r) /\ Walked(r) /\ Notes(r)
          /\ ~runs[r].complete /\ runs[r].status = "RUNNING"
      BY <1>3 DEF Knows, Phase
    <2>2. AfterWalk(r)' => AfterWalk(r)
      BY <1>3, <2>1 DEF AfterWalk
    <2>3. Phase(r)'
      BY <1>2, <1>3, <2>1, <2>2 DEF Phase, AfterWalk, Verdict
    <2>4. Seen(r)' /\ Tables(r)'
      BY <1>2, <1>3, <2>1, <2>2 DEF Seen, Tables, world
    <2>5. Walked(r)'
      <3>1. \A g \in Files : Gone(r, g) => Gone(r, g)'
        BY <1>2 DEF Gone
      <3>2. WalkBroken(r) => WalkBroken(r)'
        BY <1>2 DEF WalkBroken
      <3>3. QED
        BY <1>2, <1>3, <2>1, <3>1, <3>2 DEF Walked
    <2>6. Notes(r)'
      <3>1. \A m \in noted[r] : OfFile(r, m) => OfFile(r, m)'
        BY <1>2 DEF OfFile
      <3>2. \A m \in noted[r] : OfRow(r, m) => OfRow(r, m)'
        BY <1>2 DEF OfRow
      <3>3. runs'[r].complete => pc[r] = "finish"
        BY <1>3, <2>1
      <3>4. QED
        BY <1>2, <1>3, <2>1, <2>2, <3>1, <3>2, <3>3 DEF Notes
    <2>7. QED
      BY <2>3, <2>4, <2>5, <2>6 DEF Knows
  <1>5. ASSUME NEW q \in RunIds \ {r}
        PROVE  Same(q) /\ during'[q] = during[q] /\ hidden'[q] = hidden[q]
    <2>1. pc[q] = "idle" => during[q] = {}
      BY DEF Knows, Phase
    <2>2. pc'[q] = pc[q] /\ runs'[q] = runs[q]
      BY DEF FinishCheck, FailCheck, CheckRaises, Crash, GoTo, finish_run, storeVars
    <2>3. QED
      BY <1>2, <2>1, <2>2 DEF Same
  <1> HIDE DEF IndInv, TypeOK, StoreTypeOK, WalkTypeOK
  <1>6. QED
    BY <1>1, <1>2, <1>4, <1>5, CheckStepKeeps

-----------------------------------------------------------------------------
(* The world around the checks.                                            *)

\* A step of the world disturbs no check the observers have followed.
LEMMA WorldStepKeeps ==
    ASSUME IndInv, TypeOK', Together', baselines \subseteq baselines',
           everLost \subseteq everLost', \A q \in RunIds : Same(q) /\ Seen(q)'
    PROVE  IndInv'
  BY SameKeeps DEF IndInv

LEMMA FileChangesKeeps ==
    ASSUME IndInv, NEW f \in Files, NEW s \in FileState, FileChanges(f, s) PROVE IndInv'
  <1> USE DEF IndInv, TypeOK, StoreTypeOK, WalkTypeOK
  <1>1. TypeOK'
    BY WorldType
  <1>2. /\ tree' = [tree EXCEPT ![f] = s]
        /\ during' = [r \in RunIds |->
              IF Begun(r) THEN during[r] \cup {<<f, s>>} ELSE {}]
        /\ UNCHANGED <<baselines, runs, results, pc, rows, noted, complete, atStart>>
        /\ UNCHANGED <<unreadable, pending, listed, traversal, hidden>>
        /\ everLost' = IF s \notin Content /\ Registered(f, baselines)
                       THEN everLost \cup {f} ELSE everLost
    BY DEF FileChanges, ChangeFile, storeVars, walk, locals
  <1>3. everLost \subseteq everLost'
    BY <1>2
  <1>4. Together'
    <2>1. ASSUME NEW g \in Files, tree'[g] \notin Content, Registered(g, baselines)
          PROVE  g \in everLost'
      <3>1. CASE g = f
        BY <1>2, <2>1, <3>1
      <3>2. CASE g # f
        BY <1>2, <1>3, <2>1, <3>2 DEF Together
      <3>3. QED
        BY <3>1, <3>2
    <2>2. QED
      BY <1>2, <2>1 DEF Together, Registered
  <1>5. ASSUME NEW q \in RunIds PROVE Same(q) /\ Seen(q)'
    <2>1. pc[q] = "idle" => during[q] = {}
      BY DEF Knows, Phase
    <2>2. pc[q] # "idle" => Begun(q)
      BY DEF Knows, Seen, Begun
    <2>3. during'[q] = IF Begun(q) THEN during[q] \cup {<<f, s>>} ELSE {}
      BY <1>2
    <2>4. Same(q)
      BY <1>2, <2>1, <2>3 DEF Same, Begun
    <2>5. Seen(q)'
      <3>1. ASSUME pc[q] # "idle", NEW g \in Files PROVE <<g, tree'[g]>> \in during'[q]
        <4>1. CASE g = f
          BY <1>2, <2>2, <2>3, <3>1, <4>1
        <4>2. CASE g # f
          BY <1>2, <2>2, <2>3, <3>1, <4>2 DEF Knows, Seen
        <4>3. QED
          BY <4>1, <4>2
      <3>2. QED
        BY <1>2, <3>1 DEF Knows, Seen
    <2>6. QED
      BY <2>4, <2>5
  <1> HIDE DEF IndInv, TypeOK, StoreTypeOK, WalkTypeOK
  <1>6. baselines \subseteq baselines'
    BY <1>2
  <1>7. QED
    BY <1>1, <1>3, <1>4, <1>5, <1>6, WorldStepKeeps

LEMMA PermissionsChangeKeeps ==
    ASSUME IndInv, NEW d \in Dirs, PermissionsChange(d) PROVE IndInv'
  <1> USE DEF IndInv, TypeOK, StoreTypeOK, WalkTypeOK
  <1>1. TypeOK'
    BY WorldType
  <1>2. /\ hidden' = [r \in RunIds |-> IF Begun(r) THEN hidden[r] \cup unreadable' ELSE {}]
        /\ UNCHANGED <<baselines, runs, results, pc, rows, noted, complete, atStart, everLost>>
        /\ UNCHANGED <<tree, pending, listed, traversal, during>>
    BY DEF PermissionsChange, ChangePermissions, storeVars, walk, locals
  <1>3. Together'
    BY <1>2 DEF Together, Registered
  <1>4. ASSUME NEW q \in RunIds PROVE Same(q) /\ Seen(q)'
    <2>1. pc[q] = "idle" => during[q] = {}
      BY DEF Knows, Phase
    <2>2. pc[q] # "idle" => \A f \in Files : Begun(q)
      BY DEF Knows, Seen, Begun
    <2>3. hidden'[q] = IF Begun(q) THEN hidden[q] \cup unreadable' ELSE {}
      BY <1>2
    <2>4. Same(q)
      BY <1>2, <2>1, <2>2, <2>3 DEF Same
    <2>5. Seen(q)'
      BY <1>2, <2>2, <2>3 DEF Knows, Seen
    <2>6. QED
      BY <2>4, <2>5
  <1> HIDE DEF IndInv, TypeOK, StoreTypeOK, WalkTypeOK
  <1>5. baselines \subseteq baselines' /\ everLost \subseteq everLost'
    BY <1>2
  <1>6. QED
    BY <1>1, <1>3, <1>4, <1>5, WorldStepKeeps

LEMMA BaselineAppearsKeeps ==
    ASSUME IndInv, NEW p \in Paths, NEW c \in Content, BaselineAppears(p, c) PROVE IndInv'
  <1> USE DEF IndInv, TypeOK, StoreTypeOK, WalkTypeOK
  <1> DEFINE row == [path |-> p, checksum |-> c.checksum, size |-> c.size]
  <1>1. TypeOK'
    BY WorldType
  <1>2. /\ ~PathTaken(p) /\ baselines' = baselines \cup {row}
        /\ everLost' = everLost \cup {f \in {p} \cap Files : tree[f] \notin Content}
        /\ UNCHANGED <<runs, results, pc, rows, noted, complete, atStart>>
        /\ UNCHANGED <<world, pending, listed, traversal, during, hidden>>
    BY DEF BaselineAppears, add_baseline, InsertOrIgnore, PathTaken, walkVars, walk,
       observed, locals
  <1>3. Together'
    <2>1. \A a, b \in baselines' : a.path = b.path => a = b
      BY <1>2 DEF Together, PathTaken
    <2>2. ASSUME NEW f \in Files, tree[f] \notin Content, Registered(f, baselines')
          PROVE  f \in everLost'
      <3>1. Registered(f, baselines) \/ f = p
        BY <1>2, <2>2 DEF Registered
      <3>2. QED
        BY <1>2, <2>2, <3>1 DEF Together
    <2>3. QED
      BY <1>2, <2>1, <2>2 DEF Together, world
  <1>4. ASSUME NEW q \in RunIds PROVE Same(q) /\ Seen(q)'
    <2>1. pc[q] = "idle" => during[q] = {}
      BY DEF Knows, Phase
    <2>2. Same(q)
      BY <1>2, <2>1 DEF Same
    <2>3. Seen(q)'
      BY <1>2 DEF Knows, Seen, world
    <2>4. QED
      BY <2>2, <2>3
  <1> HIDE DEF IndInv, TypeOK, StoreTypeOK, WalkTypeOK
  <1>5. baselines \subseteq baselines' /\ everLost \subseteq everLost'
    BY <1>2
  <1>6. QED
    BY <1>1, <1>3, <1>4, <1>5, WorldStepKeeps

LEMMA StepKeeps == IndInv /\ [Next]_vars => IndInv'
  <1> SUFFICES ASSUME IndInv, [Next]_vars PROVE IndInv'
    OBVIOUS
  <1>1. CASE UNCHANGED vars
    <2>1. /\ UNCHANGED <<baselines, runs, results, pc, rows, noted, complete, atStart, everLost>>
          /\ UNCHANGED <<tree, unreadable, pending, listed, traversal, during, hidden>>
      BY <1>1 DEF vars, storeVars, walkVars, world, walk, observed, locals
    <2>2. TypeOK'
      BY TypeStep DEF IndInv
    <2>3. Together'
      BY <2>1 DEF IndInv, Together, Registered
    <2>4. \A q \in RunIds : Same(q) /\ Seen(q)'
      BY <2>1 DEF IndInv, Knows, Phase, Seen, Same
    <2>5. QED
      BY <2>1, <2>2, <2>3, <2>4, WorldStepKeeps
  <1>2. ASSUME NEW r \in RunIds, Check(r) \/ Crash(r) PROVE IndInv'
    <2>1. ASSUME NEW f \in Files, CheckFile(r, f) PROVE IndInv'
      BY <2>1, CheckFileKeeps
    <2>2. QED
      BY <1>2, <2>1, StartKeeps, WalkKeeps, ReadBaselinesKeeps, SaveResultsKeeps, EndKeeps
         DEF Check
  <1>3. QED
    BY <1>1, <1>2, FileChangesKeeps, PermissionsChangeKeeps, BaselineAppearsKeeps DEF Next

LEMMA InvariantHolds == Spec => []IndInv
  BY InitIndInv, StepKeeps, PTL DEF Spec

-----------------------------------------------------------------------------
(* What follows.                                                           *)

\* Whatever the files, the permissions and the registry do meanwhile, the
\* variables keep to their types: every result has a status and a code of the
\* code's own, and is of a path or of the root (integrity.py: check).
THEOREM TypesHold == Spec => []TypeOK
  <1>1. IndInv => TypeOK
    BY DEF IndInv
  <1>2. QED
    BY <1>1, InvariantHolds, PTL

\* What the row of a run says once it has a verdict.
LEMMA AtTheVerdict ==
    ASSUME IndInv, NEW r \in RunIds, runs[r].status \in {"PASS", "WARNING"} \/ runs[r].complete
    PROVE  /\ pc[r] = "done" /\ runs[r].complete /\ results[r] = noted[r]
           /\ runs[r].status = Verdict(noted[r], TRUE) /\ traversal[r] = {}
           /\ pending[r] = {} /\ atStart[r] \subseteq rows[r] /\ rows[r] \subseteq baselines
           /\ \A n \in noted[r] : OfFile(r, n) \/ OfRow(r, n)
           /\ \A f \in listed[r] : \E n \in noted[r] : n.path = f
           /\ \A b \in rows[r] : \E n \in noted[r] : n.path = b.path
  <1>1. Phase(r) /\ Tables(r) /\ Notes(r) /\ pc[r] \in CheckStep
    BY DEF IndInv, Knows, TypeOK
  <1>2. pc[r] = "done"
    BY <1>1 DEF Phase, CheckStep
  <1>3. runs[r].complete /\ runs[r].status = Verdict(noted[r], TRUE)
    BY <1>1, <1>2 DEF Phase
  <1>4. complete[r] /\ pending[r] = {} /\ results[r] = noted[r] /\ AfterWalk(r)
    BY <1>1, <1>3 DEF Phase, AfterWalk
  <1>5. traversal[r] = {}
    BY <1>1, <1>4 DEF Notes
  <1>6. atStart[r] \subseteq rows[r] /\ rows[r] \subseteq baselines
    BY <1>1, <1>4 DEF Tables
  <1>7. \A n \in noted[r] : OfFile(r, n) \/ OfRow(r, n)
    BY <1>1, <1>5 DEF Notes
  <1>8. \A f \in listed[r] : \E n \in noted[r] : n.path = f
    BY <1>1, <1>3 DEF Notes
  <1>9. \A b \in rows[r] : b.path \in listed[r] \/ \E n \in noted[r] : n.path = b.path
    BY <1>1, <1>3 DEF Notes
  <1>10. \A b \in rows[r] : \E n \in noted[r] : n.path = b.path
    BY <1>8, <1>9
  <1>11. QED
    BY <1>2, <1>3, <1>4, <1>5, <1>6, <1>7, <1>8, <1>10

LEMMA StatusOfNote ==
    ASSUME NEW r \in RunIds, NEW n
    PROVE  /\ OfRow(r, n) => n.status = "FAIL"
           /\ OfFile(r, n) /\ n.status = "PASS" =>
                 \E b \in rows[r] :
                    /\ b.path = n.path
                    /\ <<n.path, [checksum |-> b.checksum, size |-> b.size]>> \in during[r]
  <1>1. \A p, s, c : Note(p, s, c).status = s
    BY DEF Note
  <1>2. OfRow(r, n) => n.status = "FAIL"
    BY <1>1 DEF OfRow
  <1>3. ASSUME OfFile(r, n), n.status = "PASS"
        PROVE  n = Note(n.path, "PASS", "") /\ \E b \in rows[r] :
                    /\ b.path = n.path
                    /\ <<n.path, [checksum |-> b.checksum, size |-> b.size]>> \in during[r]
    <2>1. n # Note(n.path, "WARNING", "NO_BASELINE")
      BY <1>1, <1>3
    <2>2. n # Note(n.path, "UNKNOWN", "FILE_READ_ERROR")
      BY <1>1, <1>3
    <2>3. n # Note(n.path, "FAIL", "CHECKSUM_MISMATCH")
      BY <1>1, <1>3
    <2>4. QED
      BY <1>3, <2>1, <2>2, <2>3 DEF OfFile
  <1>4. QED
    BY <1>2, <1>3

\* A run in PASS has seen every file that had a baseline when it started hold
\* the content of that baseline while it ran (integrity.py: check).
THEOREM PassIsVerified == Spec => []PassMeansVerified
  <1>1. IndInv => PassMeansVerified
    <2>1. ASSUME IndInv, NEW r \in RunIds, runs[r].status = "PASS", NEW b \in atStart[r]
          PROVE  <<b.path, [checksum |-> b.checksum, size |-> b.size]>> \in during[r]
      <3>1. /\ Verdict(noted[r], TRUE) = "PASS" /\ b \in rows[r] /\ rows[r] \subseteq baselines
            /\ \A n \in noted[r] : OfFile(r, n) \/ OfRow(r, n)
            /\ \E n \in noted[r] : n.path = b.path
        BY <2>1, AtTheVerdict
      <3>2. PICK n \in noted[r] : n.path = b.path
        BY <3>1
      <3>3. n.status \in {"PASS", "FAIL", "WARNING", "UNKNOWN"}
        <4>1. n \in Result
          BY <2>1 DEF IndInv, TypeOK
        <4>2. QED
          BY <4>1 DEF Result
      <3>4. n.status = "PASS"
        BY <3>1, <3>3 DEF Verdict
      <3>5. PICK a \in rows[r] :
                /\ a.path = n.path
                /\ <<n.path, [checksum |-> a.checksum, size |-> a.size]>> \in during[r]
        BY <3>1, <3>4, StatusOfNote
      <3>6. a = b
        BY <2>1, <3>1, <3>2, <3>5 DEF IndInv, Together
      <3>7. QED
        BY <3>2, <3>5, <3>6
    <2>2. QED
      BY <2>1 DEF PassMeansVerified
  <1>2. QED
    BY <1>1, InvariantHolds, PTL

LEMMA CodeOfNote ==
    ASSUME NEW r \in RunIds, NEW n, n \in traversal[r] \/ OfFile(r, n) \/ OfRow(r, n),
           Walked(r)
    PROVE  /\ n.code = "CHECKSUM_MISMATCH" => \E b \in rows[r], c \in Content :
                 /\ b.path = n.path /\ <<n.path, c>> \in during[r]
                 /\ c # [checksum |-> b.checksum, size |-> b.size]
           /\ n.code = "FILE_MISSING" => OfRow(r, n)
           /\ n.code \in FileCodes => OfFile(r, n)
           /\ n.code \notin {"SYMLINK_SKIPPED", "DIRECTORY_READ_ERROR"} => n \notin traversal[r]
  <1>1. \A s, c : n = Note(n.path, s, c) => n.code = c
    BY DEF Note
  <1>2. n \in traversal[r] => n.code \in {"SYMLINK_SKIPPED", "DIRECTORY_READ_ERROR"}
    BY DEF Walked, Note
  <1>3. OfRow(r, n) => n.code = "FILE_MISSING"
    BY <1>1 DEF OfRow
  <1>4. ASSUME OfFile(r, n) PROVE n.code \in FileCodes
    <2>1. n.code \in {"", "NO_BASELINE", "FILE_READ_ERROR", "CHECKSUM_MISMATCH"}
      <3>1. n = Note(n.path, "PASS", "") \/ n = Note(n.path, "WARNING", "NO_BASELINE")
              \/ n = Note(n.path, "UNKNOWN", "FILE_READ_ERROR")
              \/ n = Note(n.path, "FAIL", "CHECKSUM_MISMATCH")
        BY <1>4 DEF OfFile
      <3>2. QED
        BY <1>1, <3>1
    <2>2. QED
      BY <2>1 DEF FileCodes
  <1>5. ASSUME OfFile(r, n), n.code = "CHECKSUM_MISMATCH"
        PROVE  \E b \in rows[r], c \in Content :
                 /\ b.path = n.path /\ <<n.path, c>> \in during[r]
                 /\ c # [checksum |-> b.checksum, size |-> b.size]
    <2>1. n # Note(n.path, "PASS", "")
      BY <1>1, <1>5
    <2>2. n # Note(n.path, "WARNING", "NO_BASELINE")
      BY <1>1, <1>5
    <2>3. n # Note(n.path, "UNKNOWN", "FILE_READ_ERROR")
      BY <1>1, <1>5
    <2>4. QED
      BY <1>5, <2>1, <2>2, <2>3 DEF OfFile
  <1>6. "CHECKSUM_MISMATCH" \in FileCodes /\ "FILE_MISSING" \notin FileCodes
          /\ "SYMLINK_SKIPPED" \notin FileCodes /\ "DIRECTORY_READ_ERROR" \notin FileCodes
    BY DEF FileCodes
  <1>7. QED
    BY <1>2, <1>3, <1>4, <1>5, <1>6

\* No false alarm: a file reported changed had other content, one reported
\* missing was gone, but for what the check cannot tell from that
\* (integrity.py: check).
THEOREM AlarmsAreReal == Spec => []AlarmIsReal
  <1>1. ASSUME IndInv, NEW r \in RunIds, NEW n \in results[r]
        PROVE  /\ n.code = "CHECKSUM_MISMATCH" => \E b \in rows[r], c \in Content :
                    /\ b.path = n.path /\ <<n.path, c>> \in during[r]
                    /\ c # [checksum |-> b.checksum, size |-> b.size]
               /\ n.code = "FILE_MISSING" =>
                    \/ n.path \in everLost \/ n.path \notin Files
                    \/ n.path \in Files /\ DirOf[n.path] \in hidden[r]
                    \/ WalkBroken(r) \/ ~Registered(n.path, atStart[r])
    <2>1. Phase(r) /\ Walked(r) /\ Notes(r)
      BY <1>1 DEF IndInv, Knows
    <2>2. n \in noted[r] /\ pending[r] = {} /\ pc[r] # "idle"
      BY <2>1 DEF Phase
    <2>3. n \in traversal[r] \/ OfFile(r, n) \/ OfRow(r, n)
      BY <2>1, <2>2 DEF Notes
    <2>4. ASSUME n.code = "FILE_MISSING", n.path \in Files
          PROVE  \/ n.path \in everLost \/ DirOf[n.path] \in hidden[r]
                 \/ WalkBroken(r) \/ ~Registered(n.path, atStart[r])
      <3>1. n.path \notin listed[r]
        BY <2>1, <2>3, <2>4, CodeOfNote DEF OfRow
      <3>2. WalkBroken(r) \/ DirOf[n.path] \in hidden[r] \/ Gone(r, n.path)
        BY <2>1, <2>2, <2>4, <3>1 DEF Walked
      <3>3. QED
        BY <3>2 DEF Gone
    <2>5. QED
      BY <2>1, <2>3, <2>4, CodeOfNote
  <1>2. IndInv => AlarmIsReal
    BY <1>1 DEF AlarmIsReal
  <1>3. QED
    BY <1>2, InvariantHolds, PTL

\* The four kinds of results and where their paths lie.
LEMMA KindOfNote ==
    ASSUME IndInv, NEW r \in RunIds, NEW n \in noted[r]
    PROVE  \/ n = Note(Root, "UNKNOWN", "DIRECTORY_READ_ERROR") /\ n.path \notin Paths
           \/ n = Note(n.path, "UNKNOWN", "SYMLINK_SKIPPED") /\ n.path \in Paths \ listed[r]
                 /\ n.code = "SYMLINK_SKIPPED"
           \/ n.path \in listed[r] /\ n.path \in Paths /\ n.code \in FileCodes
           \/ n = Note(n.path, "FAIL", "FILE_MISSING") /\ n.path \in Paths \ listed[r]
                 /\ n.code = "FILE_MISSING"
  <1>1. Walked(r) /\ Notes(r) /\ listed[r] \subseteq Files /\ rows[r] \subseteq BaselineRow
    BY DEF IndInv, Knows, TypeOK, WalkTypeOK
  <1>2. n \in traversal[r] \/ OfFile(r, n) \/ OfRow(r, n)
    BY <1>1 DEF Notes
  <1>3. \A p, s, c : Note(p, s, c).path = p /\ Note(p, s, c).code = c
    BY DEF Note
  <1>4. CASE n \in traversal[r]
    <2>1. CASE n = Note(Root, "UNKNOWN", "DIRECTORY_READ_ERROR")
      BY <1>3, <2>1, TreeAssumption
    <2>2. CASE \E f \in Files : n = Note(f, "UNKNOWN", "SYMLINK_SKIPPED") /\ f \notin listed[r]
      <3>1. PICK f \in Files : n = Note(f, "UNKNOWN", "SYMLINK_SKIPPED") /\ f \notin listed[r]
        BY <2>2
      <3>2. n.path = f /\ n.code = "SYMLINK_SKIPPED" /\ f \in Paths
        BY <1>3, <3>1, TreeAssumption
      <3>3. QED
        BY <3>1, <3>2
    <2>3. QED
      BY <1>1, <1>4, <2>1, <2>2 DEF Walked
  <1>5. CASE OfFile(r, n)
    <2>1. n.path \in listed[r] /\ n.path \in Paths
      BY <1>1, <1>5, TreeAssumption DEF OfFile
    <2>2. n.code \in FileCodes
      <3>1. n = Note(n.path, "PASS", "") \/ n = Note(n.path, "WARNING", "NO_BASELINE")
              \/ n = Note(n.path, "UNKNOWN", "FILE_READ_ERROR")
              \/ n = Note(n.path, "FAIL", "CHECKSUM_MISMATCH")
        BY <1>5 DEF OfFile
      <3>2. \A s, c : n = Note(n.path, s, c) => n.code = c
        BY DEF Note
      <3>3. n.code \in {"", "NO_BASELINE", "FILE_READ_ERROR", "CHECKSUM_MISMATCH"}
        BY <3>1, <3>2
      <3>4. QED
        BY <3>3 DEF FileCodes
    <2>3. QED
      BY <2>1, <2>2
  <1>6. CASE OfRow(r, n)
    <2>1. n = Note(n.path, "FAIL", "FILE_MISSING") /\ n.path \notin listed[r]
             /\ \E b \in rows[r] : b.path = n.path
      BY <1>6 DEF OfRow
    <2>2. n.path \in Paths
      BY <1>1, <2>1 DEF BaselineRow
    <2>3. n.code = "FILE_MISSING"
      BY <2>1 DEF Note
    <2>4. QED
      BY <2>1, <2>2, <2>3
  <1>7. QED
    BY <1>2, <1>4, <1>5, <1>6

\* A complete run has a result for all that was registered when it began, and for
\* every file that was there all along if every directory could be listed, and no
\* run has two for a path (integrity.py: iter_files, check).
THEOREM Coverage == Spec => []CompleteMeansCovered
  <1>1. ASSUME IndInv, NEW r \in RunIds, runs[r].complete, NEW b \in atStart[r]
        PROVE  \E n \in results[r] : n.path = b.path
    <2>1. results[r] = noted[r] /\ atStart[r] \subseteq rows[r]
             /\ \A row \in rows[r] : \E n \in noted[r] : n.path = row.path
      BY <1>1, AtTheVerdict
    <2>2. b \in rows[r]
      BY <1>1, <2>1
    <2>3. QED
      BY <2>1, <2>2
  <1>2. ASSUME IndInv, NEW r \in RunIds, runs[r].complete, hidden[r] = {},
               NEW f \in Files, ThereAllAlong(r, f)
        PROVE  \E n \in results[r] : n.path = f
    <2>1. Walked(r)
      BY <1>2 DEF IndInv, Knows
    <2>2. pc[r] = "done" /\ results[r] = noted[r] /\ traversal[r] = {} /\ pending[r] = {}
             /\ \A g \in listed[r] : \E n \in noted[r] : n.path = g
      BY <1>2, AtTheVerdict
    <2>3. ~WalkBroken(r)
      BY <2>2 DEF WalkBroken
    <2>4. ~Gone(r, f)
      BY <1>2 DEF Gone, ThereAllAlong
    <2>5. f \in listed[r]
      BY <1>2, <2>1, <2>2, <2>3, <2>4 DEF Walked
    <2>6. QED
      BY <2>2, <2>5
  <1>3. ASSUME IndInv, NEW r \in RunIds, NEW m \in results[r], NEW n \in results[r],
               m.path = n.path, m # n
        PROVE  {m.code, n.code} = {"SYMLINK_SKIPPED", "FILE_MISSING"}
    <2>1. m \in noted[r] /\ n \in noted[r] /\ Notes(r)
      BY <1>3 DEF IndInv, Knows, Phase
    <2>2. ~(m.code \in FileCodes /\ n.code \in FileCodes)
      BY <1>3, <2>1 DEF Notes
    <2>3. QED
      BY <1>3, <2>1, <2>2, KindOfNote
  <1>4. IndInv => CompleteMeansCovered
    BY <1>1, <1>2, <1>3 DEF CompleteMeansCovered
  <1>5. QED
    BY <1>4, InvariantHolds, PTL

-----------------------------------------------------------------------------
(* What readers of a check's row and of its results may rely on.           *)

LEMMA OneEntry ==
    ASSUME NEW r \in RunIds,
           \A q \in RunIds \ {r} : runs'[q] = runs[q] /\ results'[q] = results[q],
           \/ Ledger!Opened(Account(r), Account(r)')
           \/ Ledger!Filled(Account(r), Account(r)')
           \/ Ledger!Closed(Account(r), Account(r)')
    PROVE  Ledger!Next
  <1>1. Book[r] = Account(r) /\ Book'[r] = Account(r)'
    BY DEF Book
  <1>2. Book' = [Book EXCEPT ![r] = Book'[r]]
    BY DEF Book, Account
  <1>3. Ledger!Write(r)
    BY <1>1, <1>2 DEF Ledger!Write
  <1>4. QED
    BY <1>3 DEF Ledger!Next

\* The row that a check closes is one that its results justify.
LEMMA VerdictIsJustified ==
    ASSUME NEW notes \in SUBSET Result, NEW whole \in BOOLEAN,
           whole => \A n \in notes : n.status # "UNKNOWN",
           NEW e, e = [status |-> Verdict(notes, whole), complete |-> whole, rows |-> notes]
    PROVE  Ledger!Justified(e)
  <1> DEFINE found == Ledger!Found(e)
  <1>1. e.status = Verdict(notes, whole) /\ e.complete = whole /\ e.rows = notes
    OBVIOUS
  <1>2. \A status : status \in found <=> \E n \in notes : n.status = status
    BY <1>1 DEF Ledger!Found
  <1> HIDE DEF found
  <1>3. QED
    BY <1>1, <1>2 DEF Ledger!Justified, Verdict, found

LEMMA StepIsAccounted == IndInv /\ [Next]_vars => [Ledger!Next]_Book
  <1> SUFFICES ASSUME IndInv, [Next]_vars PROVE [Ledger!Next]_Book
    OBVIOUS
  <1>1. TypeOK /\ \A r \in RunIds : Phase(r) /\ Notes(r)
    BY DEF IndInv, Knows
  <1>2. CASE UNCHANGED <<runs, results>>
    BY <1>2 DEF Book, Account
  <1>3. ASSUME NEW r \in RunIds, Start(r) PROVE Ledger!Next
    <2>1. /\ pc[r] = "idle" /\ runs' = [runs EXCEPT ![r] =
               [status |-> "RUNNING", complete |-> FALSE]]
          /\ results' = results
      BY <1>3 DEF Start, GoTo, create_run
    <2>2. runs[r].status = "ABSENT" /\ runs[r].complete = FALSE /\ results[r] = {}
      BY <1>1, <2>1 DEF Phase, TypeOK, StoreTypeOK
    <2>3. /\ runs'[r] = [status |-> "RUNNING", complete |-> FALSE]
          /\ \A q \in RunIds \ {r} : runs'[q] = runs[q]
      BY <1>1, <2>1 DEF TypeOK, StoreTypeOK
    <2>4. /\ Account(r) = [status |-> "ABSENT", complete |-> FALSE, rows |-> {}]
          /\ Account(r)' = [status |-> "RUNNING", complete |-> FALSE, rows |-> {}]
      <3>1. runs'[r].status = "RUNNING" /\ runs'[r].complete = FALSE /\ results'[r] = {}
        BY <2>1, <2>2, <2>3
      <3>2. QED
        BY <2>2, <3>1 DEF Account
    <2>5. Ledger!Opened(Account(r), Account(r)')
      BY <2>4 DEF Ledger!Opened, Ledger!NoEntry
    <2>6. QED
      BY <2>1, <2>3, <2>5, OneEntry
  <1>4. ASSUME NEW r \in RunIds, SaveResults(r) PROVE Ledger!Next
    <2>1. pc[r] = "hash" /\ runs' = runs /\ results' = [results EXCEPT ![r] = noted'[r]]
      BY <1>4 DEF SaveResults, GoTo, storeVars
    <2>2. runs[r].status = "RUNNING" /\ results[r] = {}
      BY <1>1, <2>1 DEF Phase
    <2>3. \A q \in RunIds \ {r} : results'[q] = results[q]
      BY <1>1, <2>1 DEF TypeOK
    <2>4. Ledger!Filled(Account(r), Account(r)')
      BY <2>1, <2>2 DEF Account, Ledger!Filled
    <2>5. QED
      BY <2>1, <2>3, <2>4, OneEntry
  <1>5. ASSUME NEW r \in RunIds, FinishCheck(r) PROVE Ledger!Next
    <2>1. /\ pc[r] = "finish" /\ results' = results
          /\ runs' = [runs EXCEPT ![r] =
               [status |-> Verdict(noted[r], complete[r]), complete |-> complete[r]]]
      BY <1>5 DEF FinishCheck, GoTo, finish_run
    <2>2. /\ runs[r].status = "RUNNING" /\ results[r] = noted[r]
          /\ complete[r] => \A n \in noted[r] : n.status # "UNKNOWN"
      BY <1>1, <2>1 DEF Phase, Notes, AfterWalk
    <2>3. noted[r] \in SUBSET Result /\ complete[r] \in BOOLEAN
      BY <1>1 DEF TypeOK
    <2>4. /\ runs'[r] = [status |-> Verdict(noted[r], complete[r]), complete |-> complete[r]]
          /\ \A q \in RunIds \ {r} : runs'[q] = runs[q]
      BY <1>1, <2>1 DEF TypeOK, StoreTypeOK
    <2>5. Account(r)' = [status |-> Verdict(noted[r], complete[r]),
                         complete |-> complete[r], rows |-> noted[r]]
      BY <2>1, <2>2, <2>4 DEF Account
    <2>6. Ledger!Justified(Account(r)')
      BY <2>2, <2>3, <2>5, VerdictIsJustified
    <2>7. Ledger!Closed(Account(r), Account(r)')
      BY <2>1, <2>2, <2>6 DEF Account, Ledger!Closed
    <2>8. QED
      BY <2>1, <2>4, <2>7, OneEntry
  <1>6. ASSUME NEW r \in RunIds, FailCheck(r) PROVE Ledger!Next
    <2>1. /\ pc[r] = "fail" /\ results' = results
          /\ runs' = [runs EXCEPT ![r] = [status |-> "FAIL", complete |-> FALSE]]
      BY <1>6 DEF FailCheck, GoTo, finish_run
    <2>2. runs[r].status = "RUNNING"
      BY <1>1, <2>1 DEF Phase
    <2>3. /\ runs'[r] = [status |-> "FAIL", complete |-> FALSE]
          /\ \A q \in RunIds \ {r} : runs'[q] = runs[q]
      BY <1>1, <2>1 DEF TypeOK, StoreTypeOK
    <2>4. Ledger!Justified(Account(r)')
      BY <2>3 DEF Account, Ledger!Justified
    <2>5. Ledger!Closed(Account(r), Account(r)')
      BY <2>1, <2>2, <2>4 DEF Account, Ledger!Closed
    <2>6. QED
      BY <2>1, <2>3, <2>5, OneEntry
  <1>7. ASSUME NEW r \in RunIds,
               \/ Walk(r) \/ ReadBaselines(r) \/ CheckRaises(r) \/ Crash(r)
               \/ \E f \in Files : CheckFile(r, f)
        PROVE  UNCHANGED <<runs, results>>
    BY <1>7 DEF Walk, ReadBaselines, CheckRaises, Crash, CheckFile, storeVars
  <1>8. ASSUME \/ \E f \in Files, s \in FileState : FileChanges(f, s)
               \/ \E d \in Dirs : PermissionsChange(d)
               \/ \E p \in Paths, c \in Content : BaselineAppears(p, c)
        PROVE  UNCHANGED <<runs, results>>
    BY <1>8 DEF FileChanges, PermissionsChange, BaselineAppears, add_baseline, storeVars
  <1>9. CASE UNCHANGED vars
    BY <1>2, <1>9 DEF vars, storeVars
  <1>10. CASE Next
    BY <1>2, <1>3, <1>4, <1>5, <1>6, <1>7, <1>8, <1>10 DEF Next, Check
  <1>11. QED
    BY <1>9, <1>10

\* The exporter may rely on what a check stores: its row is closed once, with a status
\* that the results stored by then justify, and then neither changes (database.py:
\* create_run, save_results, finish_run; integrity.py: check).
THEOREM ChecksAreAccounted == Spec => RunIsAccounted
  <1>1. Init => Ledger!Init
    BY DEF Init, StoreInit, Ledger!Init, Ledger!NoEntry, Book, Account
  <1>2. QED
    BY <1>1, StepIsAccounted, InvariantHolds, PTL DEF Spec, RunIsAccounted, Ledger!Spec

-----------------------------------------------------------------------------
(***************************************************************************)
(* The baseline command, which writes what a check compares files with.    *)
(***************************************************************************)

\* The tables: the path of an event has a baseline, every baseline was once held,
\* and a row is in the counter of the execution that wrote it or has the event of
\* its receipt.
RegistrySound ==
    /\ \A e \in events : PathTaken(e.path)
    /\ BaselineWasHeld
    /\ FirstWriterWins

\* What an execution relies on when it inserts what it has hashed.
Hashed(r) ==
    pc[r] = "insert" =>
        /\ current[r] \in Files /\ hashed[r] \in Content
        /\ <<current[r], hashed[r]>> \in onceHeld

\* The observers miss nothing: now and since each walk began.
CommandSeen(r) ==
    /\ \A f \in Files : <<f, tree[f]>> \in onceHeld
    /\ pc[r] # "idle" =>
          \A f \in Files : <<f, tree[f]>> \in during[r] /\ unreadable \subseteq hidden[r]

\* Why the walk has not found a file, and what became of the files it has.
CommandWalked(r) ==
    /\ pc[r] = "idle" => during[r] = {}
    /\ pc[r] \in {"hash", "insert", "done"} => pending[r] = {}
    /\ pc[r] # "idle" => \A f \in Files :
          \/ f \in listed[r] \/ DirOf[f] \in pending[r] \/ WalkBroken(r)
          \/ DirOf[f] \in hidden[r] \/ ~ThereAllAlong(r, f)
    /\ \A f \in visited[r] : f \in failed[r] \/ PathTaken(f)
    /\ pc[r] = "done" => listed[r] \subseteq visited[r]

CommandKnows(r) == Hashed(r) /\ CommandSeen(r) /\ CommandWalked(r)

CommandInv == CommandTypeOK /\ RegistrySound /\ \A r \in RunIds : CommandKnows(r)

-----------------------------------------------------------------------------
(* The beginning, and types.                                               *)

LEMMA InitCommandInv == CommandInit => CommandInv
  <1> SUFFICES ASSUME CommandInit PROVE CommandInv
    OBVIOUS
  <1> USE DEF CommandInit, StoreInit, WalkInit
  <1>1. CommandTypeOK
    BY DEF CommandTypeOK, StoreTypeOK, WalkTypeOK, RunStatus
  <1>2. RegistrySound
    BY DEF RegistrySound, BaselineWasHeld, FirstWriterWins
  <1>3. ASSUME NEW r \in RunIds PROVE CommandKnows(r)
    BY DEF CommandKnows, Hashed, CommandSeen, CommandWalked
  <1>4. QED
    BY <1>1, <1>2, <1>3 DEF CommandInv

LEMMA NoteType ==
    ASSUME NEW p \in Paths \cup {Root}
    PROVE  /\ Note(p, "UNKNOWN", "DIRECTORY_READ_ERROR") \in Result
           /\ Note(p, "UNKNOWN", "SYMLINK_SKIPPED") \in Result
  BY DEF Note, Result

LEMMA CommandWalkType ==
    ASSUME CommandTypeOK, NEW r \in RunIds, StartCommand(r) \/ CommandWalk(r)
    PROVE  CommandTypeOK'
  <1> USE DEF CommandTypeOK, StoreTypeOK, WalkTypeOK
  <1>1. CASE StartCommand(r)
    <2>1. {<<f, tree[f]>> : f \in Files} \in SUBSET (Files \X FileState)
      OBVIOUS
    <2>2. during' \in [RunIds -> SUBSET (Files \X FileState)]
      <3>1. during' = [during EXCEPT ![r] = {<<f, tree[f]>> : f \in Files}]
        BY <1>1 DEF StartCommand, BeginWalk
      <3>2. during \in [RunIds -> SUBSET (Files \X FileState)]
        OBVIOUS
      <3> HIDE DEF CommandTypeOK, StoreTypeOK, WalkTypeOK
      <3>3. QED
        BY <2>1, <3>1, <3>2
    <2>3. pending' \in [RunIds -> SUBSET Dirs] /\ hidden' \in [RunIds -> SUBSET Dirs]
      BY <1>1 DEF StartCommand, BeginWalk
    <2>4. /\ UNCHANGED <<baselines, events, evidence, runs, byHand, tree, unreadable>>
          /\ UNCHANGED <<listed, traversal, hashed, current, visited, created, failed,
               onceHeld>>
          /\ pc' = [pc EXCEPT ![r] = "walk"]
      BY <1>1 DEF StartCommand, BeginWalk, GoTo, storeVars, commandLocals, world
    <2>5. QED
      BY <2>2, <2>3, <2>4
  <1>2. CASE CommandWalk(r) /\ WalkAborts(r)
    <2>1. Note(Root, "UNKNOWN", "DIRECTORY_READ_ERROR") \in Result
      BY NoteType
    <2>2. pending' \in [RunIds -> SUBSET Dirs] /\ traversal' \in [RunIds -> SUBSET Result]
      BY <1>2, <2>1 DEF WalkAborts
    <2>3. /\ UNCHANGED <<baselines, events, evidence, runs, byHand, tree, unreadable>>
          /\ UNCHANGED <<listed, during, hidden, hashed, current, visited, created, failed>>
          /\ onceHeld' = onceHeld /\ pc' = [pc EXCEPT ![r] = "walk"]
      BY <1>2 DEF CommandWalk, GoTo, WalkAborts, storeVars, commandLocals, world, observed
    <2>4. QED
      BY <2>2, <2>3
  <1>3. ASSUME NEW d \in Dirs, CommandWalk(r), ListDirectory(r, d) PROVE CommandTypeOK'
    <2>1. \A f \in Files : Note(f, "UNKNOWN", "SYMLINK_SKIPPED") \in Result
      BY TreeAssumption, NoteType
    <2>2. RegularIn(d) \subseteq Files
             /\ {Note(f, "UNKNOWN", "SYMLINK_SKIPPED") : f \in SymlinksIn(d)} \subseteq
                  Result
      BY <2>1 DEF RegularIn, SymlinksIn
    <2>3. listed' \in [RunIds -> SUBSET Files] /\ traversal' \in [RunIds -> SUBSET Result]
      <3>1. CASE d \in unreadable
        BY <1>3, <3>1 DEF ListDirectory
      <3>2. CASE d \notin unreadable
        <4> DEFINE notes == {Note(f, "UNKNOWN", "SYMLINK_SKIPPED") : f \in SymlinksIn(d)}
        <4>1. /\ listed' = [listed EXCEPT ![r] = @ \cup RegularIn(d)]
              /\ traversal' = [traversal EXCEPT ![r] = @ \cup notes]
          BY <1>3, <3>2 DEF ListDirectory
        <4>2. RegularIn(d) \subseteq Files /\ notes \subseteq Result
          BY <2>2
        <4> HIDE DEF notes
        <4>3. QED
          BY <4>1, <4>2
      <3>3. QED
        BY <3>1, <3>2
    <2>4. pending' \in [RunIds -> SUBSET Dirs]
      BY <1>3 DEF ListDirectory
    <2>5. QED
      BY <1>3, <2>3, <2>4 DEF CommandWalk, GoTo, ListDirectory, storeVars, commandLocals,
         world, observed
  <1>4. QED
    BY <1>1, <1>2, <1>3 DEF CommandWalk, WalkStep

LEMMA RowType ==
    ASSUME CommandTypeOK, NEW r \in RunIds, Hashed(r), pc[r] = "insert"
    PROVE  /\ RowHashed(r) \in BaselineRow /\ RowHashed(r).path = current[r]
           /\ [checksum |-> RowHashed(r).checksum, size |-> RowHashed(r).size] = hashed[r]
  BY TreeAssumption DEF Hashed, RowHashed, BaselineRow, Content

LEMMA InsertType ==
    ASSUME CommandTypeOK, NEW r \in RunIds, Hashed(r), Insert(r)
    PROVE  CommandTypeOK'
  <1> USE DEF CommandTypeOK, StoreTypeOK, WalkTypeOK
  <1>1. pc[r] = "insert" /\ current[r] \in Files /\ current[r] \in Paths
    BY TreeAssumption DEF Insert, GoTo, Hashed
  <1>2. RowHashed(r) \in BaselineRow /\ RowHashed(r).path = current[r]
    BY <1>1, RowType
  <1>3. baselines' \subseteq BaselineRow /\ byHand' \subseteq Paths
    BY <1>1, <1>2 DEF Insert, add_baseline, InsertOrIgnore
  <1>4. created' \in [RunIds -> SUBSET BaselineRow]
    BY <1>2 DEF Insert
  <1>5. visited' \in [RunIds -> SUBSET Files]
    BY <1>1 DEF Insert
  <1>6. /\ hashed' \in [RunIds -> Content \cup {Nothing}]
        /\ current' \in [RunIds -> Files \cup {Root}]
        /\ pc' \in [RunIds -> {"idle", "walk", "hash", "insert", "done", "raised", "dead"}]
    BY DEF Insert, GoTo
  <1>7. QED
    BY <1>3, <1>4, <1>5, <1>6 DEF Insert, add_baseline, walkVars, world, walk, observed

LEMMA LoopType ==
    ASSUME CommandTypeOK, NEW r \in RunIds,
           \/ WalkEnds(r) \/ End(r) \/ CommandCrash(r)
           \/ \E f \in Files : HashFile(r, f) \/ ReadFails(r, f) \/ ChangesDuringHash(r, f)
    PROVE  CommandTypeOK'
  <1> USE DEF CommandTypeOK, StoreTypeOK, WalkTypeOK
  <1>1. CASE WalkEnds(r) \/ End(r) \/ CommandCrash(r)
    BY <1>1 DEF WalkEnds, End, CommandCrash, GoTo, storeVars, walkVars, world, walk,
       observed, commandLocals
  <1>2. ASSUME NEW f \in Files, HashFile(r, f) PROVE CommandTypeOK'
    BY <1>2 DEF HashFile, GoTo, storeVars, walkVars, world, walk, observed
  <1>3. ASSUME NEW f \in Files, ReadFails(r, f) PROVE CommandTypeOK'
    BY <1>3 DEF ReadFails, GoTo, storeVars, walkVars, world, walk, observed
  <1>4. ASSUME NEW f \in Files, ChangesDuringHash(r, f) PROVE CommandTypeOK'
    BY <1>4 DEF ChangesDuringHash, GoTo, storeVars, walkVars, world, walk, observed,
       commandLocals
  <1>5. QED
    BY <1>1, <1>2, <1>3, <1>4

LEMMA CommandWorldType ==
    ASSUME CommandTypeOK,
           \/ \E f \in Files, s \in FileState : TreeChanges(f, s)
           \/ \E d \in Dirs : DirectoryChanges(d)
           \/ \E f \in Files : ReceiptRegistered(f)
    PROVE  CommandTypeOK'
  <1> USE DEF CommandTypeOK, StoreTypeOK, WalkTypeOK
  <1>1. ASSUME NEW f \in Files, NEW s \in FileState, TreeChanges(f, s) PROVE CommandTypeOK'
    <2>1. <<f, s>> \in Files \X FileState
      OBVIOUS
    <2>2. onceHeld' \subseteq Files \X FileState
      BY <1>1, <2>1 DEF TreeChanges
    <2>3. tree' \in [Files -> FileState]
      BY <1>1 DEF TreeChanges, ChangeFile
    <2>4. during' \in [RunIds -> SUBSET (Files \X FileState)]
      <3>1. ASSUME NEW r \in RunIds
            PROVE  (IF Begun(r) THEN during[r] \cup {<<f, s>>} ELSE {})
                      \in SUBSET (Files \X FileState)
        BY <2>1
      <3>3. QED
        BY <1>1, <3>1 DEF TreeChanges, ChangeFile
    <2>5. QED
      BY <1>1, <2>2, <2>3, <2>4 DEF TreeChanges, ChangeFile, storeVars, walk, commandLocals
  <1>2. ASSUME NEW d \in Dirs, DirectoryChanges(d) PROVE CommandTypeOK'
    <2>1. unreadable' \subseteq Dirs
      BY <1>2 DEF DirectoryChanges, ChangePermissions
    <2>2. hidden' \in [RunIds -> SUBSET Dirs]
      BY <1>2, <2>1 DEF DirectoryChanges, ChangePermissions
    <2>3. QED
      BY <1>2, <2>1, <2>2 DEF DirectoryChanges, ChangePermissions, storeVars, walk,
         commandLocals
  <1>3. ASSUME NEW f \in Files, ReceiptRegistered(f) PROVE CommandTypeOK'
    <2>1. PICK q \in Registration : Register(q, {})
      BY <1>3 DEF ReceiptRegistered
    <2>2. RowOf(q) \in BaselineRow /\ EventOf(q) \in EventRow
      BY DEF RowOf, EventOf, Registration, BaselineRow, EventRow
    <2>3. baselines' \subseteq BaselineRow /\ events' \subseteq EventRow
      BY <2>1, <2>2 DEF Register, InsertOrIgnore
    <2>4. QED
      BY <1>3, <2>1, <2>3 DEF Register, ReceiptRegistered, walkVars, world, walk, observed,
         commandLocals
  <1>4. QED
    BY <1>1, <1>2, <1>3

LEMMA CommandTypeStep ==
    ASSUME CommandTypeOK, \A r \in RunIds : Hashed(r), [CommandNext]_commandVars
    PROVE  CommandTypeOK'
  <1>1. CASE UNCHANGED commandVars
    BY <1>1 DEF commandVars, storeVars, walkVars, world, walk, observed, commandLocals,
       CommandTypeOK, StoreTypeOK,
       WalkTypeOK
  <1>2. ASSUME NEW r \in RunIds, Command(r) \/ CommandCrash(r) PROVE CommandTypeOK'
    BY <1>2, CommandWalkType, InsertType, LoopType DEF Command
  <1>3. QED
    BY <1>1, <1>2, CommandWorldType DEF CommandNext

-----------------------------------------------------------------------------
(* What a step leaves alone.                                               *)

\* A step of another execution, or of the world.
CommandSame(q) ==
    /\ pc'[q] = pc[q] /\ current'[q] = current[q] /\ hashed'[q] = hashed[q]
    /\ visited'[q] = visited[q] /\ failed'[q] = failed[q]
    /\ pending'[q] = pending[q] /\ listed'[q] = listed[q] /\ traversal'[q] = traversal[q]
    /\ during[q] \subseteq during'[q]
    /\ pc[q] # "idle" => \A f \in Files : hidden[q] \subseteq hidden'[q]
    /\ pc[q] = "idle" => during'[q] = {}

\* The registry and the observer of the world only grow.
Grows == baselines \subseteq baselines' /\ onceHeld \subseteq onceHeld'

LEMMA CommandSameKeeps ==
    ASSUME NEW q \in RunIds, CommandKnows(q), CommandSame(q), CommandSeen(q)', Grows
    PROVE  CommandKnows(q)'
  <1> USE DEF CommandKnows, CommandSame, Grows
  <1>1. Hashed(q)'
    BY DEF Hashed
  <1>2. CommandWalked(q)'
    <2>1. \A f : PathTaken(f) => PathTaken(f)'
      BY DEF PathTaken
    <2>2. WalkBroken(q) => WalkBroken(q)'
      BY DEF WalkBroken
    <2>3. \A f : ~ThereAllAlong(q, f) => ~ThereAllAlong(q, f)'
      BY DEF ThereAllAlong
    <2>4. QED
      BY <2>1, <2>2, <2>3 DEF CommandWalked
  <1>3. QED
    BY <1>1, <1>2

LEMMA RegistryKept ==
    ASSUME RegistrySound, UNCHANGED <<baselines, events, created>>,
           onceHeld \subseteq onceHeld'
    PROVE  RegistrySound'
  BY DEF RegistrySound, BaselineWasHeld, FirstWriterWins, PathTaken

\* A step of one execution leaves the world and the other executions alone.
LEMMA OneCommandStep ==
    ASSUME CommandInv, NEW r \in RunIds, [CommandNext]_commandVars, RegistrySound',
           CommandKnows(r)', Grows,
           \A q \in RunIds \ {r} : CommandSame(q),
           \A q \in RunIds \ {r} : during'[q] = during[q] /\ hidden'[q] = hidden[q],
           UNCHANGED world
    PROVE  CommandInv'
  <1>1. CommandTypeOK'
    BY CommandTypeStep DEF CommandInv, CommandKnows
  <1>2. ASSUME NEW q \in RunIds PROVE CommandKnows(q)'
    <2>1. CASE q = r
      BY <2>1
    <2>2. CASE q # r
      <3>1. CommandSame(q) /\ during'[q] = during[q] /\ hidden'[q] = hidden[q] /\
              CommandKnows(q)
        BY <2>2 DEF CommandInv
      <3>2. CommandSeen(q)'
        BY <3>1 DEF CommandKnows, CommandSeen, CommandSame, world, Grows
      <3>3. QED
        BY <3>1, <3>2, CommandSameKeeps
    <2>3. QED
      BY <2>1, <2>2
  <1>3. QED
    BY <1>1, <1>2 DEF CommandInv

\* A step of the world leaves every execution where it is.
LEMMA CommandWorldStepKeeps ==
    ASSUME CommandInv, [CommandNext]_commandVars, RegistrySound', Grows,
           \A q \in RunIds : CommandSame(q) /\ CommandSeen(q)'
    PROVE  CommandInv'
  <1>1. CommandTypeOK'
    BY CommandTypeStep DEF CommandInv, CommandKnows
  <1>2. \A q \in RunIds : CommandKnows(q)'
    BY CommandSameKeeps DEF CommandInv
  <1>3. QED
    BY <1>1, <1>2 DEF CommandInv

-----------------------------------------------------------------------------
(* The walk.                                                               *)

LEMMA CommandStartKeeps ==
    ASSUME CommandInv, NEW r \in RunIds, StartCommand(r)
    PROVE  CommandInv'
  <1> USE DEF StartCommand, GoTo, BeginWalk
  <1>1. /\ CommandTypeOK /\ RegistrySound /\ CommandKnows(r)
        /\ UNCHANGED <<baselines, events, created, world, listed, traversal, onceHeld>>
        /\ UNCHANGED <<current, hashed, visited, failed>>
    BY DEF CommandInv, storeVars, commandLocals
  <1>2. [CommandNext]_commandVars
    BY DEF CommandNext, Command
  <1>3. RegistrySound' /\ Grows
    BY <1>1, RegistryKept DEF Grows
  <1>4. /\ during'[r] = {<<f, tree[f]>> : f \in Files} /\ hidden'[r] = unreadable
        /\ pending'[r] = Dirs /\ pc'[r] = "walk"
    BY <1>1 DEF CommandTypeOK, WalkTypeOK
  <1>5. ASSUME NEW q \in RunIds \ {r}
        PROVE  CommandSame(q) /\ hidden'[q] = hidden[q] /\ during'[q] = during[q]
    BY <1>1 DEF CommandTypeOK, WalkTypeOK, CommandSame, CommandInv, CommandKnows,
       CommandWalked
  <1>6. CommandKnows(r)'
    <2>1. Hashed(r)' /\ CommandSeen(r)'
      BY <1>1, <1>4 DEF CommandKnows, Hashed, CommandSeen, world
    <2>2. \A f \in Files : DirOf[f] \in pending'[r]
      BY <1>4, TreeAssumption
    <2>3. CommandWalked(r)'
      BY <1>1, <1>4, <2>2 DEF CommandKnows, CommandWalked, PathTaken
    <2>4. QED
      BY <2>1, <2>3 DEF CommandKnows
  <1>7. QED
    BY <1>1, <1>2, <1>3, <1>5, <1>6, OneCommandStep

LEMMA CommandWalkKeeps ==
    ASSUME CommandInv, NEW r \in RunIds, CommandWalk(r)
    PROVE  CommandInv'
  <1> USE DEF CommandWalk, GoTo
  <1>1. /\ CommandTypeOK /\ RegistrySound /\ CommandKnows(r)
        /\ UNCHANGED <<baselines, events, created, world, during, hidden, onceHeld>>
        /\ UNCHANGED <<current, hashed, visited, failed>>
        /\ pc[r] = "walk" /\ pc'[r] = "walk"
        /\ \A q \in RunIds \ {r} : pc'[q] = pc[q]
    BY DEF CommandInv, storeVars, commandLocals, CommandTypeOK, WalkStep, WalkAborts,
       ListDirectory, observed
  <1>2. [CommandNext]_commandVars
    BY DEF CommandNext, Command
  <1>3. RegistrySound' /\ Grows
    BY <1>1, RegistryKept DEF Grows
  <1>4. ASSUME NEW q \in RunIds \ {r} PROVE CommandSame(q)
    <2>1. pending'[q] = pending[q] /\ listed'[q] = listed[q] /\ traversal'[q] = traversal[q]
      <3>1. CASE WalkAborts(r)
        BY <1>1, <3>1 DEF WalkAborts, CommandTypeOK, WalkTypeOK
      <3>2. ASSUME NEW d \in Dirs, ListDirectory(r, d)
            PROVE  pending'[q] = pending[q] /\ listed'[q] = listed[q] /\
                     traversal'[q] = traversal[q]
        BY <1>1, <3>2 DEF ListDirectory, CommandTypeOK, WalkTypeOK
      <3>3. QED
        BY <3>1, <3>2 DEF WalkStep
    <2>2. QED
      BY <1>1, <2>1 DEF CommandSame, CommandInv, CommandKnows, CommandWalked
  <1>5. Hashed(r)' /\ CommandSeen(r)'
    BY <1>1 DEF CommandKnows, Hashed, CommandSeen, world
  <1>6. \A f \in Files :
          \/ f \in listed'[r] \/ DirOf[f] \in pending'[r] \/ WalkBroken(r)'
          \/ DirOf[f] \in hidden[r] \/ ~ThereAllAlong(r, f)
    <2>1. CASE WalkAborts(r)
      <3>1. Note(Root, "UNKNOWN", "DIRECTORY_READ_ERROR") \in traversal'[r]
        BY <1>1, <2>1 DEF WalkAborts, CommandTypeOK, WalkTypeOK
      <3>2. QED
        BY <3>1 DEF WalkBroken, Note
    <2>2. ASSUME NEW d \in Dirs, ListDirectory(r, d), NEW f \in Files
          PROVE  \/ f \in listed'[r] \/ DirOf[f] \in pending'[r] \/ WalkBroken(r)'
                 \/ DirOf[f] \in hidden[r] \/ ~ThereAllAlong(r, f)
      <3>1. /\ pending'[r] = pending[r] \ {d} /\ listed[r] \subseteq listed'[r]
            /\ traversal[r] \subseteq traversal'[r]
            /\ d \notin unreadable => RegularIn(d) \subseteq listed'[r]
        BY <2>2 DEF ListDirectory, CommandTypeOK, WalkTypeOK, CommandInv
      <3>2. WalkBroken(r) => WalkBroken(r)'
        BY <3>1 DEF WalkBroken
      <3>3. ASSUME DirOf[f] = d, d \notin unreadable, tree[f] \notin Content
            PROVE  ~ThereAllAlong(r, f)
        BY <1>1, <3>3 DEF ThereAllAlong, CommandKnows, CommandSeen, CommandTypeOK,
           WalkTypeOK
      <3>4. ASSUME DirOf[f] = d, d \notin unreadable, tree[f] \in Content
            PROVE  f \in listed'[r]
        BY <3>1, <3>4 DEF RegularIn
      <3>5. ASSUME DirOf[f] = d, d \in unreadable
            PROVE  DirOf[f] \in hidden[r]
        BY <1>1, <3>5 DEF CommandKnows, CommandSeen
      <3>6. CASE DirOf[f] = d
        BY <3>3, <3>4, <3>5, <3>6
      <3>7. CASE DirOf[f] # d
        BY <1>1, <3>1, <3>2, <3>7 DEF CommandKnows, CommandWalked
      <3>8. QED
        BY <3>6, <3>7
    <2>3. QED
      BY <2>1, <2>2 DEF WalkStep
  <1>7. CommandWalked(r)'
    <2>1. \A f \in Files : ThereAllAlong(r, f)' = ThereAllAlong(r, f)
      BY <1>1 DEF ThereAllAlong
    <2>2. \A f : PathTaken(f)' = PathTaken(f)
      BY <1>1 DEF PathTaken
    <2>3. QED
      BY <1>1, <1>6, <2>1, <2>2 DEF CommandWalked, CommandKnows
  <1>8. QED
    BY <1>1, <1>2, <1>3, <1>4, <1>5, <1>7, OneCommandStep DEF CommandKnows

-----------------------------------------------------------------------------
(* The files it found, one after another.                                  *)

\* Steps of the loop that write nothing to the registry.
LEMMA LoopKeeps ==
    ASSUME CommandInv, NEW r \in RunIds,
           \/ WalkEnds(r) \/ End(r) \/ CommandCrash(r)
           \/ \E f \in Files : HashFile(r, f) \/ ReadFails(r, f) \/ ChangesDuringHash(r, f)
    PROVE  CommandInv'
  <1>1. /\ CommandTypeOK /\ RegistrySound /\ CommandKnows(r)
        /\ UNCHANGED <<baselines, events, created, onceHeld>>
        /\ UNCHANGED <<world, tree, unreadable, pending, listed, traversal, during, hidden>>
    BY DEF CommandInv, storeVars, walkVars, world, walk, observed, commandLocals, WalkEnds,
       End, CommandCrash,
       HashFile, ReadFails, ChangesDuringHash
  <1>2. [CommandNext]_commandVars
    BY DEF CommandNext, Command
  <1>3. RegistrySound' /\ Grows
    BY <1>1, RegistryKept DEF Grows
  <1>4. ASSUME NEW q \in RunIds \ {r} PROVE CommandSame(q)
    <2>1. /\ pc'[q] = pc[q] /\ current'[q] = current[q] /\ hashed'[q] = hashed[q]
          /\ visited'[q] = visited[q] /\ failed'[q] = failed[q]
      <3> USE <1>1 DEF CommandTypeOK, GoTo, commandLocals
      <3>1. CASE WalkEnds(r) \/ End(r) \/ CommandCrash(r)
        BY <3>1 DEF WalkEnds, End, CommandCrash
      <3>2. CASE \E f \in Files : HashFile(r, f)
        BY <3>2 DEF HashFile
      <3>3. CASE \E f \in Files : ReadFails(r, f)
        BY <3>3 DEF ReadFails
      <3>4. CASE \E f \in Files : ChangesDuringHash(r, f)
        BY <3>4 DEF ChangesDuringHash
      <3>5. QED
        BY <3>1, <3>2, <3>3, <3>4
    <2>2. QED
      BY <1>1, <2>1 DEF CommandSame, CommandInv, CommandKnows, CommandWalked
  <1>5. /\ \A f : PathTaken(f)' = PathTaken(f)
        /\ WalkBroken(r)' = WalkBroken(r)
        /\ \A f : ThereAllAlong(r, f)' = ThereAllAlong(r, f)
    BY <1>1 DEF PathTaken, WalkBroken, ThereAllAlong
  <1>6. CommandKnows(r)'
    <2> USE <1>1, <1>5 DEF CommandTypeOK, GoTo, CommandKnows, Hashed, CommandSeen,
       CommandWalked
    <2>1. CASE WalkEnds(r)
      BY <2>1 DEF WalkEnds, commandLocals
    <2>2. CASE End(r)
      BY <2>2 DEF End, commandLocals
    <2>3. CASE CommandCrash(r)
      BY <2>3 DEF CommandCrash, commandLocals
    <2>4. ASSUME NEW f \in Files, HashFile(r, f) PROVE CommandKnows(r)'
      <3>1. hashed'[r] = tree[f] /\ current'[r] = f /\ pc[r] = "hash" /\ pc'[r] = "insert"
              /\ tree[f] \in Content /\ UNCHANGED <<visited, failed>>
        BY <2>4 DEF HashFile
      <3>2. QED
        BY <3>1
    <2>5. ASSUME NEW f \in Files, ReadFails(r, f) PROVE CommandKnows(r)'
      <3>1. pc[r] = "hash" /\ pc'[r] = "hash" /\ visited'[r] = visited[r] \cup {f}
              /\ failed'[r] = failed[r] \cup {f}
        BY <2>5 DEF ReadFails
      <3>2. QED
        BY <3>1
    <2>6. ASSUME NEW f \in Files, ChangesDuringHash(r, f) PROVE CommandKnows(r)'
      <3>1. pc[r] = "hash" /\ pc'[r] = "raised" /\ UNCHANGED <<visited, failed>>
        BY <2>6 DEF ChangesDuringHash, commandLocals
      <3>2. QED
        BY <3>1
    <2>7. QED
      BY <2>1, <2>2, <2>3, <2>4, <2>5, <2>6
  <1>7. QED
    BY <1>1, <1>2, <1>3, <1>4, <1>6, OneCommandStep

\* The row inserted is of what was hashed; only if its path had none is it counted.
LEMMA InsertRegisters ==
    ASSUME CommandTypeOK, RegistrySound, NEW r \in RunIds, Hashed(r), Insert(r)
    PROVE  /\ RegistrySound'
           /\ baselines \subseteq baselines'
           /\ \A f : f = current[r] => PathTaken(f)'
           /\ UNCHANGED <<events, onceHeld>>
  <1> DEFINE row == RowHashed(r)
  <1>1. /\ pc[r] = "insert" /\ row \in BaselineRow /\ row.path = current[r]
        /\ [checksum |-> row.checksum, size |-> row.size] = hashed[r]
        /\ <<row.path, hashed[r]>> \in onceHeld
    BY RowType DEF Insert, GoTo, Hashed
  <1>2. UNCHANGED <<events, onceHeld>>
    BY DEF Insert, add_baseline
  <1>3. CASE PathTaken(current[r])
    <2>1. UNCHANGED <<baselines, created>>
      BY <1>1, <1>3 DEF Insert, add_baseline, InsertOrIgnore
    <2>2. QED
      BY <1>2, <1>3, <2>1, RegistryKept DEF PathTaken
  <1>4. CASE ~PathTaken(current[r])
    <2>1. /\ baselines' = baselines \cup {row} /\ created'[r] = created[r] \cup {row}
          /\ \A q \in RunIds \ {r} : created'[q] = created[q]
      BY <1>1, <1>4 DEF Insert, add_baseline, InsertOrIgnore, CommandTypeOK
    <2> HIDE DEF row
    <2>2. /\ \A e \in events : e.path # row.path
          /\ \A b \in baselines : b.path # row.path
          /\ \A q \in RunIds : created[q] \subseteq baselines
      BY <1>1, <1>4 DEF PathTaken, RegistrySound, FirstWriterWins
    <2>3. /\ \A e \in events' : \E b \in baselines' : b.path = e.path
          /\ \A f : f = current[r] => PathTaken(f)'
      BY <1>1, <1>2, <2>1 DEF RegistrySound, PathTaken
    <2>4. BaselineWasHeld'
      BY <1>1, <1>2, <2>1 DEF RegistrySound, BaselineWasHeld
    <2>5. FirstWriterWins'
      <3>1. UNION {created'[q] : q \in RunIds} = (UNION {created[q] : q \in RunIds}) \cup
              {row}
        <4>1. ASSUME NEW x
              PROVE  (\E q \in RunIds : x \in created'[q]) <=>
                       x = row \/ \E q \in RunIds : x \in created[q]
          BY <2>1
        <4> DEFINE before == UNION {created[q] : q \in RunIds}
                   after == UNION {created'[q] : q \in RunIds}
        <4>2. /\ \A x : x \in before <=> \E q \in RunIds : x \in created[q]
              /\ \A x : x \in after <=> \E q \in RunIds : x \in created'[q]
          OBVIOUS
        <4> HIDE DEF before, after
        <4>3. after = before \cup {row}
          BY <4>1, <4>2
        <4>4. QED
          BY <4>3 DEF before, after
      <3>2. {b \in baselines' : \A e \in events' : e.path # b.path}
               = {b \in baselines : \A e \in events : e.path # b.path} \cup {row}
        BY <1>2, <2>1, <2>2
      <3>3. ASSUME NEW p \in RunIds, NEW q \in RunIds, NEW b \in created'[p],
                   NEW c \in created'[q],
                   b.path = c.path
            PROVE  p = q
        <4>1. CASE b = row /\ c = row
          <5>1. \A s \in RunIds : row \notin created[s]
            BY <2>2
          <5>2. QED
            BY <2>1, <4>1, <5>1
        <4>2. CASE b # row /\ c # row
          <5>1. b \in created[p] /\ c \in created[q]
            BY <2>1, <4>2
          <5>2. QED
            BY <3>3, <5>1 DEF RegistrySound, FirstWriterWins
        <4>3. CASE b = row /\ c # row
          <5>1. c \in created[q]
            BY <2>1, <4>3
          <5>2. QED
            BY <2>2, <3>3, <4>3, <5>1
        <4>4. CASE b # row /\ c = row
          <5>1. b \in created[p]
            BY <2>1, <4>4
          <5>2. QED
            BY <2>2, <3>3, <4>4, <5>1
        <4>5. QED
          BY <4>1, <4>2, <4>3, <4>4
      <3>4. UNION {created[q] : q \in RunIds} =
              {b \in baselines : \A e \in events : e.path # b.path}
        BY DEF RegistrySound, FirstWriterWins
      <3>5. UNION {created'[q] : q \in RunIds} =
              {b \in baselines' : \A e \in events' : e.path # b.path}
        BY <3>1, <3>2, <3>4
      <3>6. QED
        BY <3>3, <3>5 DEF FirstWriterWins
    <2>6. QED
      BY <1>2, <2>1, <2>3, <2>4, <2>5 DEF RegistrySound, PathTaken
  <1>5. QED
    BY <1>3, <1>4

LEMMA InsertKeeps ==
    ASSUME CommandInv, NEW r \in RunIds, Insert(r)
    PROVE  CommandInv'
  <1>1. /\ CommandTypeOK /\ RegistrySound /\ CommandKnows(r)
        /\ UNCHANGED <<world, tree, unreadable, pending, listed, traversal, during, hidden,
             failed>>
    BY DEF CommandInv, walkVars, world, walk, observed, Insert
  <1>2. [CommandNext]_commandVars
    BY DEF CommandNext, Command
  <1>3. /\ RegistrySound' /\ Grows /\ \A f : f = current[r] => PathTaken(f)'
    BY <1>1, InsertRegisters DEF CommandKnows, Grows
  <1>4. ASSUME NEW q \in RunIds \ {r} PROVE CommandSame(q)
    <2>1. /\ pc'[q] = pc[q] /\ current'[q] = current[q] /\ hashed'[q] = hashed[q]
          /\ visited'[q] = visited[q]
      BY <1>1 DEF CommandTypeOK, Insert, GoTo
    <2>2. QED
      BY <1>1, <2>1 DEF CommandSame, CommandInv, CommandKnows, CommandWalked
  <1>5. /\ \A f : PathTaken(f) => PathTaken(f)'
        /\ WalkBroken(r)' = WalkBroken(r)
        /\ \A f : ThereAllAlong(r, f)' = ThereAllAlong(r, f)
    BY <1>1, <1>3 DEF PathTaken, WalkBroken, ThereAllAlong, Grows
  <1>6. pc[r] = "insert" /\ pc'[r] = "hash" /\ visited'[r] = visited[r] \cup {current[r]}
    BY <1>1 DEF CommandTypeOK, Insert, GoTo
  <1>7. Hashed(r)' /\ CommandSeen(r)'
    BY <1>1, <1>3, <1>6 DEF CommandKnows, Hashed, CommandSeen, Grows
  <1>8. CommandWalked(r)'
    BY <1>1, <1>3, <1>5, <1>6 DEF CommandKnows, CommandWalked
  <1>9. QED
    BY <1>1, <1>2, <1>3, <1>4, <1>7, <1>8, OneCommandStep DEF CommandKnows

-----------------------------------------------------------------------------
(* The world and the receipts.                                             *)

LEMMA CommandFileChangesKeeps ==
    ASSUME CommandInv, NEW f \in Files, NEW s \in FileState, TreeChanges(f, s)
    PROVE  CommandInv'
  <1> USE DEF TreeChanges, ChangeFile
  <1>1. /\ CommandTypeOK /\ RegistrySound
        /\ UNCHANGED <<baselines, events, created, unreadable, pending, listed, traversal,
             hidden>>
        /\ UNCHANGED <<pc, current, hashed, visited, failed>>
        /\ onceHeld' = onceHeld \cup {<<f, s>>} /\ tree' = [tree EXCEPT ![f] = s]
    BY DEF CommandInv, storeVars, commandLocals, walk
  <1>2. [CommandNext]_commandVars
    BY DEF CommandNext
  <1>3. RegistrySound' /\ Grows
    BY <1>1, RegistryKept DEF Grows
  <1>4. ASSUME NEW q \in RunIds PROVE CommandSame(q) /\ CommandSeen(q)'
    <2>1. CommandKnows(q)
      BY DEF CommandInv
    <2>2. pc[q] # "idle" => Begun(q)
      BY <2>1 DEF CommandKnows, CommandSeen, Begun
    <2>3. pc[q] = "idle" => ~Begun(q)
      BY <2>1 DEF CommandKnows, CommandWalked, Begun
    <2>4. during'[q] = IF Begun(q) THEN during[q] \cup {<<f, s>>} ELSE {}
      OBVIOUS
    <2>5. CommandSame(q)
      BY <1>1, <2>2, <2>3, <2>4 DEF CommandSame, Begun
    <2>6. \A g \in Files : tree'[g] = IF g = f THEN s ELSE tree[g]
      BY <1>1 DEF CommandTypeOK, WalkTypeOK
    <2>7. CommandSeen(q)'
      BY <1>1, <2>1, <2>2, <2>4, <2>6 DEF CommandKnows, CommandSeen
    <2>8. QED
      BY <2>5, <2>7
  <1>5. QED
    BY <1>2, <1>3, <1>4, CommandWorldStepKeeps

LEMMA CommandPermissionsChangeKeeps ==
    ASSUME CommandInv, NEW d \in Dirs, DirectoryChanges(d)
    PROVE  CommandInv'
  <1> USE DEF DirectoryChanges, ChangePermissions
  <1>1. /\ CommandTypeOK /\ RegistrySound
        /\ UNCHANGED <<baselines, events, created, tree, pending, listed, traversal,
             during>>
        /\ UNCHANGED <<pc, current, hashed, visited, failed, onceHeld>>
        /\ hidden' = [r \in RunIds |-> IF Begun(r) THEN hidden[r] \cup unreadable' ELSE {}]
    BY DEF CommandInv, storeVars, commandLocals, walk
  <1>2. [CommandNext]_commandVars
    BY DEF CommandNext
  <1>3. RegistrySound' /\ Grows
    BY <1>1, RegistryKept DEF Grows
  <1>4. ASSUME NEW q \in RunIds PROVE CommandSame(q) /\ CommandSeen(q)'
    <2>1. CommandKnows(q)
      BY DEF CommandInv
    <2>2. ASSUME NEW f \in Files, pc[q] # "idle"
          PROVE  hidden'[q] = hidden[q] \cup unreadable'
      <3>1. Begun(q)
        BY <2>1, <2>2 DEF CommandKnows, CommandSeen, Begun
      <3>2. QED
        BY <1>1, <3>1
    <2>3. CommandSame(q)
      BY <1>1, <2>1, <2>2 DEF CommandSame, CommandKnows, CommandWalked
    <2>4. CommandSeen(q)'
      BY <1>1, <2>1, <2>2 DEF CommandKnows, CommandSeen
    <2>5. QED
      BY <2>3, <2>4
  <1>5. QED
    BY <1>2, <1>3, <1>4, CommandWorldStepKeeps

\* The row of a receipt has the event of the receipt: it is in no counter.
LEMMA ReceiptKeeps ==
    ASSUME CommandInv, NEW f \in Files, ReceiptRegistered(f)
    PROVE  CommandInv'
  <1>1. /\ CommandTypeOK /\ RegistrySound
        /\ UNCHANGED <<created, tree, unreadable, pending, listed, traversal, during,
             hidden>>
        /\ UNCHANGED <<pc, current, hashed, visited, failed, onceHeld>>
    BY DEF CommandInv, ReceiptRegistered, commandLocals, walkVars, world, walk, observed
  <1>2. PICK c \in Content, q \in Registration :
            /\ <<f, c>> \in onceHeld
            /\ q.path = f /\ q.checksum = c.checksum /\ q.size = c.size
            /\ Register(q, {})
    BY DEF ReceiptRegistered
  <1>3. ~PathTaken(q.path) /\ baselines' = baselines \cup {RowOf(q)}
          /\ events' = events \cup {EventOf(q)}
    <2>1. RowOf(q).path = q.path
      BY DEF RowOf
    <2>2. QED
      BY <1>2, <2>1 DEF Register, InsertOrIgnore
  <1>4. RowOf(q).path = q.path /\ EventOf(q).path = q.path
          /\ [checksum |-> RowOf(q).checksum, size |-> RowOf(q).size] = c
    BY <1>2 DEF RowOf, EventOf, Content
  <1>5. RegistrySound'
    <2>1. \A e \in events' : \E b \in baselines' : b.path = e.path
      BY <1>1, <1>3, <1>4 DEF RegistrySound, PathTaken
    <2>2. BaselineWasHeld'
      BY <1>1, <1>2, <1>3, <1>4 DEF RegistrySound, BaselineWasHeld
    <2>3. {b \in baselines' : \A e \in events' : e.path # b.path}
             = {b \in baselines : \A e \in events : e.path # b.path}
      <3>1. \A b \in baselines : b.path # q.path
        BY <1>3 DEF PathTaken
      <3>2. QED
        BY <1>3, <1>4, <3>1
    <2>4. FirstWriterWins'
      BY <1>1, <2>3 DEF RegistrySound, FirstWriterWins
    <2>5. QED
      BY <2>1, <2>2, <2>4 DEF RegistrySound, PathTaken
  <1>6. [CommandNext]_commandVars /\ Grows
    BY <1>1, <1>3 DEF CommandNext, Grows
  <1>7. ASSUME NEW p \in RunIds PROVE CommandSame(p) /\ CommandSeen(p)'
    BY <1>1 DEF CommandInv, CommandKnows, CommandSeen, CommandWalked, CommandSame
  <1>8. QED
    BY <1>5, <1>6, <1>7, CommandWorldStepKeeps

LEMMA CommandStepKeeps == CommandInv /\ [CommandNext]_commandVars => CommandInv'
  <1> SUFFICES ASSUME CommandInv, [CommandNext]_commandVars PROVE CommandInv'
    OBVIOUS
  <1>1. CASE UNCHANGED commandVars
    <2>1. /\ UNCHANGED <<baselines, events, created, onceHeld, pc, current, hashed, visited,
               failed>>
          /\ UNCHANGED <<tree, unreadable, pending, listed, traversal, during, hidden>>
      BY <1>1 DEF commandVars, storeVars, walkVars, world, walk, observed, commandLocals
    <2>2. RegistrySound' /\ Grows
      BY <2>1, RegistryKept DEF CommandInv, Grows
    <2>3. \A q \in RunIds : CommandSame(q) /\ CommandSeen(q)'
      BY <2>1 DEF CommandInv, CommandKnows, CommandSeen, CommandWalked, CommandSame
    <2>4. QED
      BY <2>2, <2>3, CommandWorldStepKeeps
  <1>2. ASSUME NEW r \in RunIds, Command(r) \/ CommandCrash(r) PROVE CommandInv'
    BY <1>2, CommandStartKeeps, CommandWalkKeeps, LoopKeeps, InsertKeeps DEF Command
  <1>3. QED
    BY <1>1, <1>2, CommandFileChangesKeeps, CommandPermissionsChangeKeeps, ReceiptKeeps
       DEF CommandNext

LEMMA CommandInvariantHolds == CommandSpec => []CommandInv
  BY InitCommandInv, CommandStepKeeps, PTL DEF CommandSpec

-----------------------------------------------------------------------------
(* What follows.                                                           *)

\* However executions of the command overlap, the variables keep to their types:
\* what is inserted is a row of the table (integrity.py: create_baseline).
THEOREM CommandTypesHold == CommandSpec => []CommandTypeOK
  <1>1. CommandInv => CommandTypeOK
    BY DEF CommandInv
  <1>2. QED
    BY <1>1, CommandInvariantHolds, PTL

\* Every baseline is a content its file has held, whatever happens to the file
\* between its hash and its insertion (integrity.py: create_baseline; hashing.py).
THEOREM BaselinesWereHeld == CommandSpec => []BaselineWasHeld
  <1>1. CommandInv => BaselineWasHeld
    BY DEF CommandInv, RegistrySound
  <1>2. QED
    BY <1>1, CommandInvariantHolds, PTL

\* A row is in the counter of the one execution that wrote it, or is a receipt's
\* (database.py: add_baseline, add_automatic_baseline).
THEOREM OneAuthor == CommandSpec => []FirstWriterWins
  <1>1. CommandInv => FirstWriterWins
    BY DEF CommandInv, RegistrySound
  <1>2. QED
    BY <1>1, CommandInvariantHolds, PTL

\* Exit status 0 vouches for every file that was there all along, if every
\* directory could be listed (integrity.py: create_baseline; cli.py).
THEOREM CleanRegisters == CommandSpec => []CleanMeansRegistered
  <1>1. ASSUME CommandInv, NEW r \in RunIds, pc[r] = "done", Clean(r), hidden[r] = {},
               NEW f \in Files, ThereAllAlong(r, f)
        PROVE  PathTaken(f)
    <2>1. CommandWalked(r)
      BY <1>1 DEF CommandInv, CommandKnows
    <2>2. failed[r] = {} /\ ~WalkBroken(r) /\ pending[r] = {}
      BY <1>1, <2>1 DEF Clean, WalkBroken, CommandWalked
    <2>3. f \in visited[r]
      BY <1>1, <2>1, <2>2 DEF CommandWalked
    <2>4. QED
      BY <2>1, <2>2, <2>3 DEF CommandWalked
  <1>2. CommandInv => CleanMeansRegistered
    BY <1>1 DEF CleanMeansRegistered
  <1>3. QED
    BY <1>2, CommandInvariantHolds, PTL
=============================================================================
