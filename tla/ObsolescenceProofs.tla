-------------------------- MODULE ObsolescenceProofs --------------------------
(***************************************************************************)
(* Proofs about Obsolescence, for any files, formats and policies.         *)
(***************************************************************************)
EXTENDS Obsolescence, AuditRunProofs, WellFoundedInduction

\* What the audit relies on as it goes from stage to stage: a policy that could
\* be loaded, and a report of its own that it can still find.
Stages ==
    /\ pc = "idle" => stage = "policy"
    /\ pc = "gather" => stage # "over" /\ noted = {}
    /\ pc \in {"save", "finish", "done"} => stage \in {"load", "over"}
    /\ stage \in {"policy", "generate"} => own = None /\ ~generated
    /\ stage \in {"generate", "identify"} => given = None /\ ~generated
    /\ stage \in {"generate", "identify", "load"} => policy # Invalid
    /\ noted # {} => policy # Invalid
    /\ stage = "identify" /\ pc = "gather" => own # None
    /\ stage = "identify" /\ pc # "gather" /\ pc # "dead" => own = None
    /\ stage = "load" => (given = None <=> generated)
    /\ stage = "load" => (given = None <=> own # None)
    /\ stage = "load" /\ given = None => todo = {}
    /\ stage = "over" => own = None

\* What Siegfried has not listed was not there, or was in an archive it could not
\* read.
Overlooked(x) == x \in absent \/ (x \in Members /\ ~Readable(ArchiveOf[x]))

\* The observers miss nothing, and the report says what they have seen.
Seen ==
    /\ pc # "idle" => \A x \in Items :
          IF tree[x] = Absent THEN x \in absent ELSE <<x, tree[x]>> \in during
    /\ own # None => \A x \in Items :
          /\ own[x] # Absent => <<x, own[x]>> \in during
          /\ own[x] = Absent /\ x \notin todo => Overlooked(x)

\* What a result rests on.
Grounded(n) ==
    /\ n.status = "PASS" =>
          \E i \in SaidOf(n.item) :
             ~Unidentified(i) /\ ~i.warning /\ RatedAmong(n.item, i, {"minimal", "low"})
    /\ n.status = "FAIL" =>
          \E i \in SaidOf(n.item) : RatedAmong(n.item, i, {"high", "critical"})

\* The payload that was there all along has its results, unless its archive could
\* not be read.
Covered ==
    pc \in {"save", "finish", "done"} /\ given = None =>
        \A x \in Members : ~Overlooked(x) => \E n \in noted : n.item = x

IndInv ==
    /\ TypeOK /\ RunInv /\ Stages /\ Seen /\ Covered
    /\ \A n \in noted : Grounded(n)

-----------------------------------------------------------------------------
LEMMA FirstOne ==
    ASSUME NEW S \in SUBSET Nat, S # {}
    PROVE  \E k \in S : \A j \in S : k <= j
  <1>1. PICK k \in S : \A j \in S : ~(<<j, k>> \in OpToRel(<, Nat))
    BY WFMin, NatLessThanWellFounded, Zenon
  <1>2. \A j \in S : ~(j < k)
    BY <1>1, Zenon DEF OpToRel
  <1>3. QED
    BY <1>2

\* The risk of a format is the one its first rule gives it.
LEMMA RiskIsRated ==
    ASSUME TypeOK, policy # Invalid, NEW x \in Items, NEW i \in Identified,
           RiskOf(x, i) # "unclassified"
    PROVE  RiskOf(x, i) \in Risks /\ RatedAmong(x, i, {RiskOf(x, i)})
  <1> DEFINE covering == {k \in DOMAIN policy : Covers(policy[k], x, i)}
             first == CHOOSE k \in covering : \A j \in covering : k <= j
  <1>1. policy \in Seq(Rule)
    BY ObsolescenceAssumption DEF TypeOK
  <1>2. DOMAIN policy = 1..Len(policy) /\ covering \subseteq Nat
    BY <1>1
  <1>3. covering # {} /\ RiskOf(x, i) = policy[first].risk
    BY DEF RiskOf
  <1>4. first \in covering /\ \A j \in covering : first <= j
    <2> HIDE DEF covering
    <2>1. QED
      BY <1>2, <1>3, FirstOne
  <1>5. policy[first] \in Rule
    BY <1>1, <1>2, <1>4
  <1>6. \A j \in 1..(first - 1) : j \in DOMAIN policy /\ j \notin covering
    BY <1>1, <1>2, <1>4
  <1> HIDE DEF first
  <1>7. \A j \in 1..(first - 1) : ~Covers(policy[j], x, i)
    BY <1>6
  <1>8. first \in DOMAIN policy /\ Covers(policy[first], x, i)
    BY <1>4
  <1> HIDE DEF covering
  <1>9. RatedAmong(x, i, {RiskOf(x, i)})
    BY <1>3, <1>7, <1>8 DEF RatedAmong, Covers
  <1>10. QED
    BY <1>3, <1>5, <1>9 DEF Rule

LEMMA RatedMore ==
    ASSUME NEW x, NEW i, NEW r, NEW risks, r \in risks, RatedAmong(x, i, {r})
    PROVE  RatedAmong(x, i, risks)
  BY DEF RatedAmong

\* What is said of a file is what Siegfried and the policy say of it.
LEMMA ClassifiedRightly ==
    ASSUME TypeOK, policy # Invalid, NEW x \in Items, NEW i \in Identified
    PROVE  LET n == classify_record(x, i) IN
           /\ n \in Result /\ n.item = x
           /\ n.status = "PASS" =>
                 ~Unidentified(i) /\ ~i.warning /\ RatedAmong(x, i, {"minimal", "low"})
           /\ n.status = "FAIL" => RatedAmong(x, i, {"high", "critical"})
  <1> DEFINE risk == RiskOf(x, i)
             flagged == {w \in {"FORMAT_UNCLASSIFIED"} : risk = "unclassified"}
                   \cup {w \in {"FORMAT_OBSOLESCENCE_WARNING"} : risk = "medium"}
                   \cup {w \in {"FORMAT_IDENTIFICATION_WEAK"} :
                           risk \in {"minimal", "low"} /\ i.warning}
             errors == {e \in {"FORMAT_OBSOLESCENCE_RISK"} : risk \in {"high", "critical"}}
             n == classify_record(x, i)
  <1>1. errors \in SUBSET Codes /\ flagged \in SUBSET Codes
    BY ObsolescenceAssumption
  <1>2. n = IF Unidentified(i) THEN Inconclusive(x) ELSE Judged(x, errors, flagged)
    BY DEF classify_record
  <1>3. risk # "unclassified" => risk \in Risks /\ RatedAmong(x, i, {risk})
    BY RiskIsRated
  <1> HIDE DEF risk
  <1>4. n \in Result
    <2> HIDE DEF errors, flagged, n
    <2>1. QED
      BY <1>1, <1>2, JudgedType, InconclusiveType
  <1>5. n.item = x
    BY <1>2 DEF Judged, Inconclusive
  <1>6. n.status = "PASS" => /\ ~Unidentified(i) /\ errors = {} /\ flagged = {}
    <2> HIDE DEF errors, flagged, n
    <2>1. QED
      BY <1>2 DEF Judged, Inconclusive
  <1>7. n.status = "FAIL" => errors # {}
    <2> HIDE DEF errors, flagged, n
    <2>1. QED
      BY <1>2 DEF Judged, Inconclusive
  <1>8. n.status = "PASS" => ~Unidentified(i) /\ ~i.warning /\ risk \in {"minimal", "low"}
    <2>1. errors = {} /\ flagged = {} =>
              risk \notin {"unclassified", "medium", "high", "critical"}
              /\ ~(risk \in {"minimal", "low"} /\ i.warning)
      OBVIOUS
    <2>2. QED
      BY <1>3, <1>6, <2>1 DEF Risks
  <1>9. n.status = "FAIL" => risk \in {"high", "critical"}
    BY <1>7
  <1>10. QED
    <2> HIDE DEF errors, flagged, n
    <2>1. n.status = "PASS" => RatedAmong(x, i, {"minimal", "low"})
      BY <1>3, <1>8, RatedMore
    <2>2. n.status = "FAIL" => RatedAmong(x, i, {"high", "critical"})
      BY <1>3, <1>9, RatedMore
    <2>3. QED
      BY <1>4, <1>5, <1>8, <2>1, <2>2 DEF n

\* Results stay grounded, as what the observers have seen only grows.
LEMMA GroundedKept ==
    ASSUME NEW n, Grounded(n), during \subseteq during', policy' = policy, given' = given
    PROVE  Grounded(n)'
  <1>1. \A i, risks : RatedAmong(n.item, i, risks)' = RatedAmong(n.item, i, risks)
    BY DEF RatedAmong
  <1>2. \A i : Unidentified(i)' = Unidentified(i)
    BY DEF Unidentified
  <1>3. SaidOf(n.item) \subseteq SaidOf(n.item)'
    BY DEF SaidOf
  <1>4. QED
    BY <1>1, <1>2, <1>3 DEF Grounded

\* What was overlooked stays so.
LEMMA OverlookedKept ==
    ASSUME NEW x, Overlooked(x), during \subseteq during', absent \subseteq absent'
    PROVE  Overlooked(x)'
  <1>1. \A i : Unidentified(i)' = Unidentified(i)
    BY DEF Unidentified
  <1>2. \A y : ~Readable(y) => ~Readable(y)'
    BY <1>1 DEF Readable
  <1>3. QED
    BY <1>2 DEF Overlooked

LEMMA OverlookedSame ==
    ASSUME UNCHANGED observed
    PROVE  \A x : Overlooked(x)' = Overlooked(x)
  <1>1. \A i : Unidentified(i)' = Unidentified(i)
    BY DEF Unidentified
  <1>2. \A y : Readable(y)' = Readable(y)
    BY <1>1 DEF Readable, observed
  <1>3. QED
    BY <1>2 DEF Overlooked, observed

LEMMA InitIndInv == Init => IndInv
  <1>1. SUFFICES ASSUME Init PROVE IndInv
    OBVIOUS
  <1>2. RunTypeOK /\ RunInv
    BY <1>1, InitRun DEF Init
  <1>3. TypeOK
    BY <1>1, <1>2 DEF Init, TypeOK
  <1>4. QED
    BY <1>1, <1>2, <1>3 DEF Init, IndInv, Stages, Seen, Covered, RunInit

LEMMA StartKeeps == ASSUME IndInv, Start PROVE IndInv'
  <1> USE DEF IndInv, StartRun
  <1>1. pc = "idle" /\ pc' = "gather" /\ UNCHANGED <<noted, saved, world, local>>
    BY DEF Start, GoTo
  <1>2. RunTypeOK' /\ RunInv'
    <2>1. FALSE => ~Has(noted, "UNKNOWN")
      OBVIOUS
    <2>2. QED
      BY <2>1, ClosingSteps DEF Start, TypeOK
  <1>3. noted = {} /\ own = None /\ stage = "policy"
    BY <1>1 DEF RunInv, Stages
  <1>4. tree \in Reports
    BY DEF TypeOK
  <1>5. during' \subseteq Items \X Identified /\ absent' \subseteq Items
    BY <1>4 DEF Start, There, Reports
  <1>6. TypeOK'
    BY <1>1, <1>2, <1>5 DEF TypeOK, world, local
  <1>7. Seen'
    BY <1>1, <1>3 DEF Start, Seen, There, world, local
  <1>8. QED
    BY <1>1, <1>2, <1>3, <1>6, <1>7 DEF Stages, Covered, world, local

\* The steps by which the audit goes on, or fails, before it has a result.
LEMMA StagesKeep ==
    ASSUME IndInv, LoadPolicy \/ BeginReport \/ NoExecutable \/ EndReport
                   \/ SiegfriedFails \/ LoadFails \/ (\E x \in Items : Identify(x))
    PROVE  IndInv'
  <1> USE DEF IndInv, At, Fails, GoTo
  <1>1. /\ pc = "gather" /\ pc' \in {"gather", "fail"}
        /\ UNCHANGED <<run, noted, saved, world, observed>>
    BY DEF LoadPolicy, BeginReport, NoExecutable, EndReport, SiegfriedFails, LoadFails,
           Identify, runVars
  <1>2. noted = {} /\ noted' = {} /\ \A y : Overlooked(y)' = Overlooked(y)
    BY <1>1, OverlookedSame DEF Stages
  <1>3. RunTypeOK' /\ RunInv'
    BY <1>1, <1>2, GatheringStep DEF TypeOK, OneEach
  <1>4. own \in Reports \cup {None} /\ tree \in Reports /\ None \notin Reports
    BY ObsolescenceAssumption DEF TypeOK
  <1>5. CASE LoadPolicy
    <2>1. TypeOK'
      BY <1>1, <1>3, <1>5 DEF TypeOK, LoadPolicy, world, observed, local
    <2>2. Stages'
      BY <1>1, <1>2, <1>5 DEF Stages, LoadPolicy, world
    <2>3. Seen'
      BY <1>1, <1>2, <1>5 DEF Seen, Stages, LoadPolicy, world, observed
    <2>4. QED
      BY <1>1, <1>2, <1>3, <2>1, <2>2, <2>3 DEF Covered
  <1>6. CASE BeginReport
    <2>1. own' = Empty /\ Empty \in Reports /\ todo' = Items /\ stage' = "identify"
          /\ pc' = "gather" /\ generated' = generated
      BY <1>6 DEF BeginReport, Empty, Reports, runVars
    <2>2. TypeOK'
      BY <1>1, <1>3, <2>1 DEF TypeOK, world, observed
    <2>3. Stages'
      BY <1>1, <1>2, <1>4, <1>6, <2>1 DEF Stages, BeginReport, world
    <2>4. Seen'
      BY <1>1, <1>2, <2>1 DEF Seen, Empty, world, observed
    <2>5. QED
      BY <1>1, <1>2, <1>3, <2>2, <2>3, <2>4 DEF Covered
  <1>7. CASE NoExecutable \/ LoadFails
    <2>1. UNCHANGED <<own, todo, stage, generated>> /\ pc' = "fail"
          /\ stage \in {"generate", "load"}
      BY <1>7 DEF NoExecutable, LoadFails
    <2>2. TypeOK'
      BY <1>1, <1>3, <2>1 DEF TypeOK, world, observed
    <2>3. Stages'
      BY <1>1, <1>2, <2>1 DEF Stages, world
    <2>4. Seen'
      BY <1>1, <1>2, <2>1 DEF Seen, world, observed
    <2>5. QED
      BY <1>1, <1>2, <1>3, <2>1, <2>2, <2>3, <2>4 DEF Covered
  <1>8. CASE EndReport
    <2>1. own' = own /\ todo' = todo /\ todo = {} /\ stage = "identify" /\ stage' = "load"
          /\ generated' = TRUE /\ pc' = "gather"
      BY <1>8 DEF EndReport, runVars
    <2>2. TypeOK'
      BY <1>1, <1>3, <2>1 DEF TypeOK, world, observed
    <2>3. Stages'
      BY <1>1, <1>2, <2>1 DEF Stages, world
    <2>4. Seen'
      BY <1>1, <1>2, <2>1 DEF Seen, world, observed
    <2>5. QED
      BY <1>1, <1>2, <1>3, <2>1, <2>2, <2>3, <2>4 DEF Covered
  <1>9. CASE SiegfriedFails
    <2>1. own' = None /\ UNCHANGED <<todo, stage, generated>> /\ stage = "identify" /\ pc' = "fail"
      BY <1>9 DEF SiegfriedFails
    <2>2. TypeOK'
      BY <1>1, <1>3, <2>1 DEF TypeOK, world, observed
    <2>3. Stages'
      BY <1>1, <1>2, <2>1 DEF Stages, world
    <2>4. Seen'
      BY <1>1, <1>2, <2>1 DEF Seen, world, observed
    <2>5. QED
      BY <1>1, <1>2, <1>3, <2>1, <2>2, <2>3, <2>4 DEF Covered
  <1>10. ASSUME NEW x \in Items, Identify(x)
         PROVE  IndInv'
    <2>1. PICK lost \in SUBSET Unread(x) :
            /\ own' = [own EXCEPT ![x] = tree[x]] /\ todo' = todo \ ({x} \cup lost)
            /\ UNCHANGED <<stage, generated>> /\ stage = "identify" /\ pc' = "gather"
      BY <1>10 DEF Identify, runVars
    <2>2. own \in Reports
      BY <1>1, <1>4, <2>1 DEF Stages
    <2>3. own' \in Reports
      BY <1>4, <2>1, <2>2 DEF Reports
    <2>4. TypeOK'
      BY <1>1, <1>3, <2>1, <2>3 DEF TypeOK, world, observed
    <2>5. Stages'
      BY <1>1, <1>2, <1>4, <2>1, <2>3 DEF Stages, world
    <2>6. \A y \in Items : own'[y] = IF y = x THEN tree[x] ELSE own[y]
      BY <2>1, <2>2 DEF Reports
    <2>7. \A y \in lost : Overlooked(y)
      <3>1. SUFFICES ASSUME NEW y \in lost PROVE Overlooked(y)
        OBVIOUS
      <3>2. /\ tree[x] # Absent /\ Unidentified(tree[x])
            /\ y \in Members /\ ArchiveOf[y] = x
        BY <2>1 DEF Unread, Within, There
      <3>3. tree[x] \in Identified /\ <<x, tree[x]>> \in during
        BY <1>1, <1>4, <3>2 DEF Seen, Reports
      <3>4. QED
        BY <3>2, <3>3 DEF Readable, Overlooked
    <2>9. Overlooked(x) \/ tree[x] # Absent
      BY <1>1 DEF Seen, Overlooked
    <2>10. Seen'
      <3>1. \A y \in Items : IF tree[y] = Absent THEN y \in absent ELSE <<y, tree[y]>> \in during
        BY <1>1 DEF Seen
      <3>2. \A y \in Items : own'[y] # Absent => <<y, own'[y]>> \in during
        BY <1>4, <2>2, <2>6, <3>1 DEF Seen
      <3>3. \A y \in Items : own'[y] = Absent /\ y \notin todo' => Overlooked(y)
        BY <1>4, <2>1, <2>2, <2>6, <2>7, <2>9 DEF Seen
      <3>4. QED
        BY <1>1, <1>2, <3>1, <3>2, <3>3 DEF Seen, world, observed
    <2>8. QED
      BY <1>1, <1>2, <1>3, <2>1, <2>4, <2>5, <2>10 DEF Covered
  <1>11. QED
    BY <1>5, <1>6, <1>7, <1>8, <1>9, <1>10

\* The report at hand when results are made.
LEMMA LoadReportKeeps == ASSUME IndInv, LoadReport PROVE IndInv'
  <1> USE DEF IndInv, At, GoTo
  <1> DEFINE report == IF given = None THEN own ELSE given
  <1>1. /\ pc = "gather" /\ pc' = "save" /\ stage = "load"
        /\ UNCHANGED <<run, saved, world, local, observed>>
        /\ report # Invalid /\ noted' = Classified(report)
    BY DEF LoadReport
  <1>2. report \in Reports /\ policy # Invalid
    BY <1>1, ObsolescenceAssumption DEF TypeOK, Stages
  <1>3. \A x \in There(report) : x \in Items /\ report[x] \in Identified /\ report[x] \in SaidOf(x)
    <2>1. \A x \in There(report) : x \in Items /\ report[x] \in Identified
      BY <1>2 DEF There, Reports
    <2>2. CASE given = None
      <3>1. own # None
        BY <1>1, <2>2 DEF Stages
      <3>2. QED
        BY <2>1, <2>2, <3>1 DEF Seen, SaidOf, There
    <2>3. CASE given # None
      BY <2>1, <2>3 DEF SaidOf
    <2>4. QED
      BY <2>2, <2>3
  <1> HIDE DEF report
  <1>4. \A n \in noted' : \E x \in There(report) \cap Members : n = classify_record(x, report[x])
    BY <1>1 DEF Classified
  <1>5. ASSUME NEW x \in There(report)
        PROVE  /\ classify_record(x, report[x]) \in Result
               /\ classify_record(x, report[x]).item = x
               /\ Grounded(classify_record(x, report[x]))
    BY <1>2, <1>3, ClassifiedRightly DEF Grounded
  <1>6. noted' \subseteq Result /\ OneEach(noted')
    BY <1>4, <1>5 DEF OneEach
  <1>7. RunTypeOK' /\ RunInv'
    BY <1>1, <1>6, GatheringStep DEF TypeOK
  <1>8. TypeOK'
    BY <1>1, <1>7 DEF TypeOK, world, local, observed
  <1>9. Stages' /\ Seen' /\ \A y : Overlooked(y)' = Overlooked(y)
    BY <1>1, <1>2, OverlookedSame DEF Stages, Seen, world, local, observed
  <1>10. ASSUME NEW n \in noted' PROVE Grounded(n)'
    <2>1. Grounded(n)
      BY <1>4, <1>5
    <2>2. QED
      BY <1>1, <2>1, GroundedKept DEF world, observed
  <1>11. Covered'
    <2>1. SUFFICES ASSUME given = None, NEW x \in Members, ~Overlooked(x)
                   PROVE  \E n \in noted' : n.item = x
      BY <1>1, <1>9 DEF Covered, world
    <2>2. report = own /\ own # None /\ todo = {} /\ x \in Items
      BY <1>1, <2>1, ObsolescenceAssumption DEF Stages, report
    <2>3. own[x] # Absent
      BY <2>1, <2>2 DEF Seen
    <2>4. x \in There(report)
      BY <2>2, <2>3 DEF There
    <2>5. classify_record(x, report[x]) \in noted'
      BY <1>1, <2>1, <2>4 DEF Classified
    <2>6. QED
      BY <1>5, <2>4, <2>5
  <1>12. QED
    BY <1>7, <1>8, <1>9, <1>10, <1>11

LEMMA CloseKeeps == ASSUME IndInv, Close PROVE IndInv'
  <1> USE DEF IndInv
  <1>1. UNCHANGED <<world, local, observed>>
    BY DEF Close
  <1>2. Whole \in BOOLEAN /\ (Whole => ~Has(noted, "UNKNOWN"))
    BY DEF Whole
  <1>3. RunTypeOK' /\ RunInv' /\ noted' = noted
    BY <1>2, ClosingSteps DEF Close, TypeOK
  <1>4. TypeOK'
    BY <1>1, <1>3 DEF TypeOK, world, local, observed
  <1>5. /\ pc # "idle" /\ pc' \notin {"idle", "gather"}
        /\ pc = "gather" => pc' = "dead"
        /\ pc' \in {"save", "finish", "done"} => pc \in {"save", "finish", "done"}
        /\ pc' = "done" => pc = "finish"
        /\ pc' = "dead" \/ pc # "gather"
        /\ pc # "dead"
    BY DEF Close, SaveResults, FinishRun, DatabaseRaises, FailRun, Crash, GoTo
  <1>6. Stages'
    BY <1>1, <1>3, <1>5 DEF Stages, world, local
  <1>7. Seen' /\ Covered'
    BY <1>1, <1>3, <1>5, OverlookedSame DEF Seen, Covered, world, local, observed
  <1>8. \A n \in noted' : Grounded(n)'
    BY <1>1, <1>3, GroundedKept DEF world, observed
  <1>9. QED
    BY <1>3, <1>4, <1>6, <1>7, <1>8

LEMMA CleanupKeeps == ASSUME IndInv, Cleanup PROVE IndInv'
  <1> USE DEF IndInv
  <1>1. /\ pc \in {"done", "raised"} /\ stage # "over" /\ stage' = "over"
        /\ own' = (IF generated THEN None ELSE own)
        /\ UNCHANGED <<pc, run, noted, saved, tree, policy, given, todo, generated, during, absent>>
    BY DEF Cleanup, runVars, world, observed
  <1>2. own' = None
    <2>1. stage \in {"policy", "generate", "identify", "load"} /\ generated \in BOOLEAN
      BY <1>1 DEF TypeOK
    <2>2. ~generated => own = None
      BY <1>1, <2>1 DEF Stages
    <2>3. QED
      BY <1>1, <2>2
  <1>3. RunTypeOK' /\ RunInv'
    <2>1. UNCHANGED runVars
      BY DEF Cleanup
    <2>2. QED
      BY <2>1, IdleStep DEF TypeOK
  <1>4. TypeOK'
    BY <1>1, <1>2, <1>3 DEF TypeOK
  <1>5. Stages' /\ Seen' /\ Covered'
    BY <1>1, <1>2, OverlookedSame DEF Stages, Seen, Covered, observed
  <1>6. \A n \in noted' : Grounded(n)'
    BY <1>1, GroundedKept
  <1>7. QED
    BY <1>3, <1>4, <1>5, <1>6

LEMMA FileChangesKeeps == ASSUME IndInv, NEW x \in Items, FileChanges(x) PROVE IndInv'
  <1> USE DEF IndInv
  <1>1. PICK i \in Identified \cup {Absent} :
            LET gone == IF i = Absent THEN {x} \cup Within(x) ELSE {} IN
            /\ tree' = [y \in Items |->
                  IF y \in gone THEN Absent ELSE IF y = x THEN i ELSE tree[y]]
            /\ IF pc = "idle" THEN UNCHANGED observed
               ELSE /\ during' = IF i = Absent THEN during ELSE during \cup {<<x, i>>}
                    /\ absent' = absent \cup gone
            /\ UNCHANGED <<runVars, policy, given, local>>
    BY DEF FileChanges
  <1> DEFINE gone == IF i = Absent THEN {x} \cup Within(x) ELSE {}
  <1>10. gone \subseteq Items
    BY ObsolescenceAssumption DEF Within
  <1>2. tree' \in Reports /\ \A y \in Items :
           tree'[y] = IF y \in gone THEN Absent ELSE IF y = x THEN i ELSE tree[y]
    BY <1>1 DEF TypeOK, Reports
  <1>3. during \subseteq during' /\ absent \subseteq absent'
        /\ during' \subseteq Items \X Identified /\ absent' \subseteq Items
    BY <1>1, <1>10 DEF TypeOK, observed
  <1>4. RunTypeOK' /\ RunInv'
    BY <1>1, IdleStep DEF TypeOK
  <1>5. TypeOK'
    BY <1>1, <1>2, <1>3, <1>4 DEF TypeOK, local
  <1>6. Stages' /\ Covered'
    BY <1>1, <1>3, OverlookedKept DEF Stages, Covered, runVars, local
  <1>7. Seen'
    <2>1. pc # "idle" => \A y \in Items :
              IF tree'[y] = Absent THEN y \in absent' ELSE <<y, tree'[y]>> \in during'
      BY <1>1, <1>2, ObsolescenceAssumption DEF Seen
    <2>2. QED
      BY <1>1, <1>3, <2>1, OverlookedKept DEF Seen, runVars, local
  <1>8. \A n \in noted' : Grounded(n)'
    BY <1>1, <1>3, GroundedKept DEF runVars
  <1>9. QED
    BY <1>4, <1>5, <1>6, <1>7, <1>8

LEMMA StepKeeps == IndInv /\ [Next]_vars => IndInv'
  <1>1. SUFFICES ASSUME IndInv, [Next]_vars PROVE IndInv'
    OBVIOUS
  <1>2. CASE UNCHANGED vars
    <2>1. UNCHANGED <<runVars, tree, policy, given, own, stage, todo, generated, during, absent>>
      BY <1>2 DEF vars, world, local, observed
    <2>2. RunTypeOK' /\ RunInv'
      BY <1>1, <2>1, IdleStep DEF IndInv, TypeOK
    <2>3. \A y : Overlooked(y)' = Overlooked(y)
      BY <2>1, OverlookedSame DEF observed
    <2>6. TypeOK' /\ Stages' /\ Seen' /\ Covered'
      BY <1>1, <2>1, <2>2, <2>3 DEF IndInv, TypeOK, Stages, Seen, Covered, runVars
    <2>4. \A n \in noted' : Grounded(n)'
      BY <1>1, <2>1, GroundedKept DEF IndInv, runVars
    <2>5. QED
      BY <2>2, <2>4, <2>6 DEF IndInv
  <1>3. ASSUME NEW x \in Items, Identify(x) PROVE IndInv'
    BY <1>1, <1>3, StagesKeep
  <1>4. ASSUME NEW x \in Items, FileChanges(x) PROVE IndInv'
    BY <1>1, <1>4, FileChangesKeeps
  <1>5. CASE LoadPolicy \/ BeginReport \/ NoExecutable \/ EndReport
             \/ SiegfriedFails \/ LoadFails
    BY <1>1, <1>5, StagesKeep
  <1>6. CASE Start \/ LoadReport \/ Close \/ Cleanup
    BY <1>1, <1>6, StartKeeps, LoadReportKeeps, CloseKeeps, CleanupKeeps
  <1>7. QED
    BY <1>1, <1>2, <1>3, <1>4, <1>5, <1>6 DEF Next

LEMMA InvariantHolds == Spec => []IndInv
  BY InitIndInv, StepKeeps, PTL DEF Spec

\* Whatever happens to files, reports and Siegfried, the variables keep to their
\* types: in particular, the run's row has no status of its own (obsolescence.py:
\* check).
THEOREM TypesHold == Spec => []TypeOK
  <1>1. IndInv => TypeOK
    BY DEF IndInv
  <1>2. QED
    BY <1>1, InvariantHolds, PTL

\* A file that passes was rated low or minimal by the first rule for what
\* Siegfried said of it, and one that fails high or critical, for any policy
\* (obsolescence.py: classify_record, load_policy).
THEOREM FirstRuleRates == Spec => []RatedByFirstRule
  <1>1. IndInv => RatedByFirstRule
    BY DEF IndInv, Grounded, RatedByFirstRule
  <1>2. QED
    BY <1>1, InvariantHolds, PTL

\* An audit that succeeds has passed over no payload but that of archives which
\* Siegfried could not read (obsolescence.py: check, classify_record).
THEOREM SuccessCovers == Spec => []PayloadCovered
  <1>1. IndInv => PayloadCovered
    <2>1. SUFFICES ASSUME IndInv, run.status \in {"PASS", "WARNING"}, given = None,
                          NEW x \in Members \ absent, Readable(ArchiveOf[x])
                   PROVE  \E n \in saved : n.item = x
      BY DEF PayloadCovered
    <2>2. pc = "done" /\ saved = noted
      BY <2>1 DEF IndInv, RunInv, TypeOK, RunTypeOK
    <2>3. ~Overlooked(x)
      BY <2>1 DEF Overlooked
    <2>4. QED
      BY <2>1, <2>2, <2>3 DEF IndInv, Covered
  <1>2. QED
    BY <1>1, InvariantHolds, PTL

\* The temporary report is gone when the audit ends, however it ends
\* (obsolescence.py: generate_siegfried_report, check).
THEOREM NothingLeftBehind == Spec => []ReportRemoved
  <1>1. IndInv => ReportRemoved
    BY DEF IndInv, Stages, ReportRemoved
  <1>2. QED
    BY <1>1, InvariantHolds, PTL

\* Exit status, row and results of an audit of formats agree (obsolescence.py:
\* check; cli.py: main).
THEOREM AccountsHold == Spec => []AccountsAgree
  <1>1. IndInv => AccountsAgree
    BY AccountsFromInv DEF IndInv, TypeOK
  <1>2. QED
    BY <1>1, InvariantHolds, PTL

-----------------------------------------------------------------------------
(* What readers of the run's row and of its results may rely on.           *)

LEMMA StepIsAccounted == IndInv /\ [Next]_vars => [Ledger!Next]_Book
  <1> SUFFICES ASSUME IndInv, [Next]_vars PROVE [Ledger!Next]_Book
    OBVIOUS
  <1>1. Whole \in BOOLEAN /\ (Whole => ~Has(noted, "UNKNOWN")) /\ RunTypeOK /\ RunInv
    BY DEF Whole, IndInv, TypeOK
  <1>2. CASE Start \/ Close
    BY <1>1, <1>2, ClosingIsAccounted DEF Start, Close
  <1>3. CASE ~(Start \/ Close)
    <2>1. UNCHANGED <<run, saved>>
      BY <1>3 DEF Next, LoadPolicy, BeginReport, NoExecutable, Identify, FileChanges,
         EndReport, SiegfriedFails, LoadReport, LoadFails, Cleanup, Fails, GoTo, vars,
         runVars
    <2>2. QED
      BY <2>1, GatheringIsAccounted
  <1>4. QED
    BY <1>2, <1>3

\* The exporter may rely on what an audit of formats stores: its row is closed once, with a
\* status that the results stored by then justify, and then neither changes.
THEOREM WellAccounted == Spec => RunIsAccounted
  <1>1. Init => Ledger!Init
    BY LedgerBegins DEF Init
  <1>2. QED
    BY <1>1, StepIsAccounted, InvariantHolds, PTL DEF Spec, RunIsAccounted, Ledger!Spec

===============================================================================
