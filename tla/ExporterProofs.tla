---------------------------- MODULE ExporterProofs ----------------------------
(***************************************************************************)
(* Proofs about Exporter, for any number of executions, any time explored, *)
(* any age at which an audit is stale and any number of replicas.          *)
(***************************************************************************)
EXTENDS Exporter, TLAPS

Statuses == {"PASS", "WARNING", "FAIL"}

\* What the row of an execution that ended normally says: of an audit, what was
\* saved; of a job, what its check found and that the check ended first.
EndedWell(r, e) ==
    /\ e.finished \in 1..now
    /\ kind[r] # "baseline_auto" => e.status = Verdict(r) /\ e.complete = Whole(r)
    /\ kind[r] = "baseline_auto" =>
          /\ check[r] \in RunIds
          /\ stage[check[r]] = "done"
          /\ runs[check[r]].finished <= e.finished
          /\ e.status = JobVerdict(check[r])

EndedBadly(e) == e.status = "FAIL" /\ ~e.complete /\ e.finished \in 1..now

\* Where an execution stands, and what its row and its results say then.
Stands(r) ==
    /\ stage[r] = "idle" => runs[r] = NoEnding /\ check[r] = NoRun
    /\ stage[r] \in {"idle", "work"} => saved[r] = {}
    /\ stage[r] \notin {"idle", "done", "raised"} =>
          runs[r].status = "RUNNING" /\ runs[r].finished = 0
    /\ stage[r] = "finishing" => EndedWell(r, ending[r])
    /\ stage[r] = "failing" => EndedBadly(ending[r])
    /\ stage[r] = "done" => EndedWell(r, runs[r])
    /\ stage[r] = "raised" => EndedBadly(runs[r])
    /\ stage[r] = "saved" => kind[r] # "baseline_auto"
    /\ stage[r] = "registered" => kind[r] = "baseline_auto"
    /\ check[r] # NoRun => kind[check[r]] = "integrity" /\ stage[check[r]] # "idle"

SuccessOf(k) ==
    IF k \in {"integrity", "replica_integrity"} THEN {"PASS"} ELSE {"PASS", "WARNING"}

\* A time shown is that of a run that ended.
TimeOf(k, statuses, time) ==
    time # 0 => \E r \in RunIds : /\ kind[r] = k
                                  /\ runs[r].status \in statuses
                                  /\ runs[r].finished = time

\* What a sample says of the run it is about is what its row says.
IsAbout(k, s) ==
    s.run # NoRun =>
        /\ kind[s.run] = k
        /\ stage[s.run] \in {"done", "raised"}
        /\ s.status = runs[s.run].status
        /\ s.complete = runs[s.run].complete
        /\ s.last = runs[s.run].finished

\* A result is in a class of those the metrics show.
CountedAs(k, n) ==
    CASE n.status = "PASS" -> {"valid"}
      [] n.status # "PASS" /\ k \in {"integrity", "replica_integrity"} ->
            IF CodeClasses(n.code) = {} THEN {"unknown"} ELSE CodeClasses(n.code)
      [] n.status # "PASS" /\ k \in ContentKinds ->
            CodeClasses(n.code)
            \cup ({[WARNING |-> "warnings", FAIL |-> "invalid", UNKNOWN |-> "unknown"][n.status]}
                   \ {c \in {"invalid"} : k = "obsolescence"})

Counted(k, s) ==
    s.run # NoRun /\ k # "baseline_auto" =>
        s.classes = UNION {CountedAs(k, n) : n \in saved[s.run]}

\* What the exporter has read of a kind.
ReadOf(k, s) ==
    /\ IsAbout(k, s)
    /\ TimeOf(k, Statuses, s.last)
    /\ TimeOf(k, SuccessOf(k), s.success)

TotalsAgree(s) == s.evidence >= Copies * s.events

Shows ==
    \A k \in Kinds :
        ReadOf(k, shown[k]) /\ Counted(k, shown[k]) /\ TotalsAgree(shown[k])

Reads ==
    /\ step = "idle" => sample = Nothing
    /\ step # "idle" => ReadOf(query, sample) /\ sample.last >= shown[query].last
    /\ step = "success" => sample.success = 0
    /\ step \notin {"idle", "success"} => sample.success >= shown[query].success
    /\ step = "rows" => sample.run # NoRun /\ query # "baseline_auto"
    /\ step = "show" => Counted(query, sample)
    /\ step \in {"events", "evidence"} => query = "baseline_auto"
    /\ step = "evidence" => sample.events <= tables.events
    /\ step # "evidence" => TotalsAgree(sample)

ExportInv ==
    /\ TypeOK
    /\ saved = [r \in RunIds |-> saved[r]]
    /\ tables.evidence = Copies * tables.events
    /\ \A r \in RunIds : Stands(r)
    /\ Reads
    /\ Shows
-----------------------------------------------------------------------------
(* Types, and what never changes once an execution has ended.              *)

\* What an execution is and has.
Same(q) ==
    /\ kind'[q] = kind[q]
    /\ runs'[q] = runs[q]
    /\ saved'[q] = saved[q]
    /\ stage'[q] = stage[q]
    /\ check'[q] = check[q]
    /\ ending'[q] = ending[q]

\* What is for ever: the kind of an execution that has begun, the check of a job,
\* and all of one that has ended.
Kept ==
    /\ now' \in Nat /\ now' >= now
    /\ tables'.events \in Nat /\ tables'.events >= tables.events
    /\ \A q \in RunIds : stage[q] # "idle" => kind'[q] = kind[q] /\ stage'[q] # "idle"
    /\ \A q \in RunIds : stage[q] \in {"done", "raised"} =>
          stage'[q] = stage[q] /\ runs'[q] = runs[q] /\ saved'[q] = saved[q]
    /\ \A q \in RunIds : check[q] # NoRun => check'[q] = check[q]

LEMMA VerdictType ==
    ASSUME NEW r
    PROVE  Verdict(r) \in Statuses /\ JobVerdict(r) \in Statuses /\ Whole(r) \in BOOLEAN
  BY DEF Verdict, JobVerdict, Whole, Statuses

LEMMA InitExport == Init => ExportInv
  <1> SUFFICES ASSUME Init PROVE ExportInv
    OBVIOUS
  <1>1. Nothing \in Sample
    BY ExporterAssumption DEF Nothing, Sample, Status
  <1>2. NoEnding \in Ending
    BY ExporterAssumption DEF NoEnding, Ending, Status
  <1>3. TypeOK
    BY <1>1, <1>2, ExporterAssumption DEF Init, TypeOK, Kinds
  <1>4. TotalsAgree(Nothing)
    BY ExporterAssumption DEF TotalsAgree, Nothing
  <1>5. \A k \in Kinds : ReadOf(k, Nothing) /\ Counted(k, Nothing)
    BY DEF ReadOf, IsAbout, TimeOf, Counted, Nothing
  <1>6. Reads /\ Shows
    BY <1>4, <1>5 DEF Reads, Shows, Init
  <1>7. \A r \in RunIds : Stands(r)
    BY DEF Init, Stands
  <1>8. tables.evidence = Copies * tables.events
    BY ExporterAssumption DEF Init
  <1>9. saved = [r \in RunIds |-> saved[r]]
    BY DEF Init
  <1>10. QED
    BY <1>3, <1>6, <1>7, <1>8, <1>9 DEF ExportInv

\* A run whose row has a time has ended.
LEMMA TimedHasEnded ==
    ASSUME NEW r \in RunIds, Stands(r), runs[r].finished # 0
    PROVE  stage[r] \in {"done", "raised"}
  BY DEF Stands, NoEnding

LEMMA SameStands ==
    ASSUME TypeOK, NEW q \in RunIds, Stands(q), Kept, Same(q)
    PROVE  Stands(q)'
  <1>1. now' \in Nat /\ now' >= now /\ now \in Nat
    BY DEF Kept, TypeOK
  <1>2. /\ Verdict(q)' = Verdict(q)
        /\ Whole(q)' = Whole(q)
    BY DEF Verdict, Whole, Has, Same
  <1>3. ASSUME check[q] # NoRun
        PROVE  /\ check[q] \in RunIds
               /\ stage[check[q]] # "idle"
               /\ kind'[check[q]] = kind[check[q]]
               /\ stage'[check[q]] # "idle"
    BY <1>3 DEF Stands, Kept, TypeOK
  <1>4. ASSUME check[q] \in RunIds, stage[check[q]] = "done"
        PROVE  /\ stage'[check[q]] = "done"
               /\ runs'[check[q]] = runs[check[q]]
               /\ JobVerdict(check[q])' = JobVerdict(check[q])
    BY <1>4 DEF Kept, JobVerdict, Has, Same
  <1>5. ASSUME NEW e, EndedWell(q, e)
        PROVE  \A f : f = e => EndedWell(q, f)'
    BY <1>1, <1>2, <1>4, <1>5 DEF EndedWell, Same
  <1>6. ASSUME NEW e, EndedBadly(e)
        PROVE  \A f : f = e => EndedBadly(f)'
    BY <1>1, <1>6 DEF EndedBadly
  <1>7. QED
    BY <1>3, <1>5, <1>6 DEF Stands, Same

\* What the exporter has read and shown stays true of the rows.
LEMMA ReaderKept ==
    ASSUME ExportInv, Kept, UNCHANGED reader
    PROVE  Reads' /\ Shows'
  <1>1. ASSUME NEW k, NEW s, s.run \in RunIds \cup {NoRun}, ReadOf(k, s)
        PROVE  \A t : t = s => ReadOf(k, t)'
    <2>1. IsAbout(k, s) => \A t : t = s => IsAbout(k, t)'
      BY <1>1 DEF IsAbout, Kept
    <2>2. ASSUME NEW statuses, NEW time, TimeOf(k, statuses, time)
          PROVE  \A t : t = time => TimeOf(k, statuses, t)'
      BY <2>2, TimedHasEnded DEF TimeOf, Kept, ExportInv
    <2>3. QED
      BY <1>1, <2>1, <2>2 DEF ReadOf
  <1>2. ASSUME NEW k, NEW s, s.run \in RunIds \cup {NoRun}, ReadOf(k, s), Counted(k, s)
        PROVE  \A t : t = s => Counted(k, t)'
    BY <1>2 DEF Counted, ReadOf, IsAbout, Kept, CountedAs
  <1>3. /\ \A k \in Kinds : shown[k].run \in RunIds \cup {NoRun}
        /\ sample.run \in RunIds \cup {NoRun}
        /\ sample.events \in Nat /\ tables.events \in Nat
    BY DEF ExportInv, TypeOK, Sample
  <1>4. Shows'
    BY <1>1, <1>2, <1>3 DEF ExportInv, Shows, reader, TotalsAgree
  <1>5. Reads'
    <2>1. step # "idle" => ReadOf(query, sample)'
      BY <1>1, <1>3 DEF ExportInv, Reads, reader
    <2>2. step = "show" => Counted(query, sample)'
      BY <1>2, <1>3 DEF ExportInv, Reads, reader
    <2>3. step = "evidence" => sample.events <= tables'.events
      <3>1. step = "evidence" => sample.events <= tables.events
        BY DEF ExportInv, Reads
      <3>2. tables'.events \in Nat /\ tables'.events >= tables.events
        BY DEF Kept
      <3>3. QED
        BY <1>3, <3>1, <3>2
    <2>4. QED
      BY <2>1, <2>2, <2>3 DEF ExportInv, Reads, reader, TotalsAgree
  <1>6. QED
    BY <1>4, <1>5
-----------------------------------------------------------------------------
(* The steps of an execution.                                              *)

WritersOK ==
    /\ TypeOK
    /\ saved = [r \in RunIds |-> saved[r]]
    /\ tables.evidence = Copies * tables.events
    /\ \A r \in RunIds : Stands(r)

LEMMA RunningRow ==
    ASSUME NEW row, row = [NoEnding EXCEPT !.status = "RUNNING"]
    PROVE  row \in Ending /\ row.status = "RUNNING" /\ row.finished = 0
  <1>1. row = [status |-> "RUNNING", complete |-> FALSE, finished |-> 0]
    BY DEF NoEnding
  <1>2. [status |-> "RUNNING", complete |-> FALSE, finished |-> 0] \in Ending
    BY ExporterAssumption DEF Ending, Status
  <1>3. row.status = "RUNNING" /\ row.finished = 0
    BY <1>1
  <1>4. QED
    BY <1>1, <1>2, <1>3

LEMMA BeginKeeps ==
    ASSUME WritersOK, NEW r \in RunIds, NEW k \in Kinds, Begin(r, k)
    PROVE  WritersOK' /\ Kept /\ UNCHANGED reader
  <1>1. /\ stage[r] = "idle" /\ stage' = [stage EXCEPT ![r] = "work"]
        /\ kind' = [kind EXCEPT ![r] = k]
        /\ runs' = [runs EXCEPT ![r].status = "RUNNING"]
        /\ UNCHANGED <<now, saved, tables, check, ending, reader>>
    BY DEF Begin, CreateRun, GoTo
  <1>2. runs[r] = NoEnding /\ saved[r] = {} /\ check[r] = NoRun
    BY <1>1 DEF WritersOK, Stands
  <1>3. /\ stage' \in [RunIds -> {"idle", "work", "registered", "saved", "finishing",
                                  "failing", "done", "raised", "dead"}]
        /\ kind' \in [RunIds -> Kinds]
        /\ stage'[r] = "work" /\ kind'[r] = k
    BY <1>1 DEF WritersOK, TypeOK
  <1>4. /\ runs' \in [RunIds -> Ending]
        /\ runs'[r].status = "RUNNING" /\ runs'[r].finished = 0
    <2>1. runs' = [runs EXCEPT ![r] = [NoEnding EXCEPT !.status = "RUNNING"]]
      BY <1>1, <1>2
    <2>2. runs \in [RunIds -> Ending]
      BY DEF WritersOK, TypeOK
    <2>3. QED
      BY <2>1, <2>2, RunningRow
  <1>5. ASSUME NEW q \in RunIds \ {r}
        PROVE  Same(q)
    BY <1>1 DEF WritersOK, TypeOK, Same
  <1>6. \A q \in RunIds : saved'[q] \subseteq Rows[kind'[q]]
    BY <1>1, <1>2, <1>5 DEF WritersOK, TypeOK, Same
  <1>7. TypeOK'
    BY <1>1, <1>3, <1>4, <1>6 DEF WritersOK, TypeOK, reader
  <1>8. Kept
    BY <1>1, <1>3, <1>5 DEF WritersOK, TypeOK, Kept, Same
  <1>9. Stands(r)'
    BY <1>1, <1>2, <1>3, <1>4 DEF Stands
  <1>10. \A q \in RunIds : Stands(q)'
    BY <1>5, <1>8, <1>9, SameStands DEF WritersOK
  <1>11. QED
    BY <1>1, <1>7, <1>8, <1>10 DEF WritersOK
\* A step that moves one execution on, and adds to the tables at most, leaves it
\* to that execution to show that it stands.
LEMMA MovesOn ==
    ASSUME WritersOK, NEW r \in RunIds, TypeOK', Kept, Stands(r)',
           saved' = [q \in RunIds |-> saved'[q]],
           tables'.evidence = Copies * tables'.events,
           \A q \in RunIds \ {r} : Same(q)
    PROVE  WritersOK'
  <1>1. \A q \in RunIds : Stands(q)'
    BY SameStands DEF WritersOK
  <1>2. QED
    BY <1>1 DEF WritersOK

LEMMA GoesTo ==
    ASSUME WritersOK, NEW r \in RunIds, NEW from, NEW to, GoTo(r, from, to),
           to \in {"work", "registered", "saved", "finishing", "failing", "done", "raised"}
    PROVE  /\ stage[r] = from /\ stage'[r] = to
           /\ stage' = [stage EXCEPT ![r] = to]
           /\ stage' \in [RunIds -> {"idle", "work", "registered", "saved", "finishing",
                                     "failing", "done", "raised", "dead"}]
           /\ \A q \in RunIds \ {r} : stage'[q] = stage[q]
  BY DEF GoTo, WritersOK, TypeOK

LEMMA RegisterKeeps ==
    ASSUME WritersOK, NEW r \in RunIds, NEW created \in BOOLEAN, Register(r, created)
    PROVE  WritersOK' /\ Kept /\ UNCHANGED reader
  <1>1. /\ kind[r] = "baseline_auto"
        /\ GoTo(r, "work", "registered")
        /\ UNCHANGED <<now, kind, runs, saved, check, ending, reader>>
    BY DEF Register
  <1>2. /\ tables' \in [events : Nat, evidence : Nat]
        /\ tables'.events >= tables.events
        /\ tables'.evidence = Copies * tables'.events
    <2>1. /\ tables.events \in Nat /\ tables.evidence \in Nat
          /\ tables.evidence = Copies * tables.events
          /\ Copies \in Nat
      BY ExporterAssumption DEF WritersOK, TypeOK
    <2>2. CASE tables' = tables
      BY <2>1, <2>2 DEF WritersOK, TypeOK
    <2>3. CASE tables' = [events |-> tables.events + 1,
                          evidence |-> tables.evidence + Copies]
      <3>1. tables'.events = tables.events + 1 /\ tables'.evidence = tables.evidence + Copies
        BY <2>3
      <3>2. \A n \in Nat : Copies * (n + 1) = Copies * n + Copies
        BY <2>1
      <3>3. QED
        BY <2>1, <2>3, <3>1, <3>2
    <2>4. QED
      BY <2>2, <2>3 DEF Register
  <1>3. \A q \in RunIds \ {r} : Same(q)
    BY <1>1, GoesTo DEF Same
  <1>4. TypeOK'
    BY <1>1, <1>2, GoesTo DEF WritersOK, TypeOK, reader
  <1>5. Kept
    BY <1>1, <1>2, GoesTo DEF WritersOK, TypeOK, Kept
  <1>6. Stands(r)'
    <2>1. Stands(r) /\ stage[r] = "work" /\ stage'[r] = "registered"
      BY <1>1, GoesTo DEF WritersOK
    <2>2. check[r] # NoRun => stage'[check[r]] # "idle"
      BY <2>1, <1>5 DEF Stands, Kept, WritersOK, TypeOK
    <2>3. QED
      BY <1>1, <2>1, <2>2 DEF Stands
  <1>7. QED
    BY <1>1, <1>2, <1>3, <1>4, <1>5, <1>6, MovesOn DEF WritersOK

LEMMA BeginCheckKeeps ==
    ASSUME WritersOK, NEW j \in RunIds, NEW r \in RunIds, BeginCheck(j, r)
    PROVE  WritersOK' /\ Kept /\ UNCHANGED reader
  <1>1. /\ stage[j] = "registered" /\ check[j] = NoRun /\ GoTo(r, "idle", "work")
        /\ kind' = [kind EXCEPT ![r] = "integrity"]
        /\ runs' = [runs EXCEPT ![r].status = "RUNNING"]
        /\ check' = [check EXCEPT ![j] = r]
        /\ UNCHANGED <<now, saved, tables, ending, reader>>
    BY DEF BeginCheck, CreateRun
  <1>2. runs[r] = NoEnding /\ saved[r] = {} /\ check[r] = NoRun /\ r # j
    BY <1>1, GoesTo DEF WritersOK, Stands
  <1>3. /\ kind' \in [RunIds -> Kinds] /\ kind'[r] = "integrity"
        /\ check' \in [RunIds -> RunIds \cup {NoRun}] /\ check'[j] = r
        /\ \A q \in RunIds \ {j} : check'[q] = check[q]
        /\ \A q \in RunIds \ {r} : kind'[q] = kind[q]
    BY <1>1 DEF WritersOK, TypeOK, Kinds
  <1>4. /\ runs' \in [RunIds -> Ending]
        /\ runs'[r].status = "RUNNING" /\ runs'[r].finished = 0
        /\ \A q \in RunIds \ {r} : runs'[q] = runs[q]
    <2>1. runs' = [runs EXCEPT ![r] = [NoEnding EXCEPT !.status = "RUNNING"]]
      BY <1>1, <1>2
    <2>2. runs \in [RunIds -> Ending]
      BY DEF WritersOK, TypeOK
    <2>3. QED
      BY <2>1, <2>2, RunningRow
  <1>5. \A q \in RunIds \ {r, j} : Same(q)
    BY <1>1, <1>3, <1>4, GoesTo DEF Same
  <1>6. \A q \in RunIds : saved'[q] \subseteq Rows[kind'[q]]
    BY <1>1, <1>2, <1>3 DEF WritersOK, TypeOK
  <1>7. TypeOK'
    BY <1>1, <1>3, <1>4, <1>6, GoesTo DEF WritersOK, TypeOK, reader
  <1>8. Kept
    BY <1>1, <1>3, <1>4, GoesTo DEF WritersOK, TypeOK, Kept
  <1>9. Stands(r)'
    BY <1>1, <1>2, <1>3, <1>4, GoesTo DEF Stands
  <1>10. Stands(j)'
    <2>1. /\ Stands(j) /\ stage'[j] = "registered" /\ stage'[r] = "work"
          /\ runs'[j] = runs[j] /\ kind'[j] = kind[j]
      BY <1>1, <1>2, <1>3, <1>4, GoesTo DEF WritersOK
    <2>2. QED
      BY <1>1, <1>3, <2>1 DEF Stands
  <1>11. \A q \in RunIds : Stands(q)'
    BY <1>5, <1>8, <1>9, <1>10, SameStands DEF WritersOK
  <1>12. QED
    BY <1>1, <1>7, <1>8, <1>11 DEF WritersOK

LEMMA SaveRowsKeeps ==
    ASSUME WritersOK, NEW r \in RunIds, NEW rows \in SUBSET Rows[kind[r]], SaveRows(r, rows)
    PROVE  WritersOK' /\ Kept /\ UNCHANGED reader
  <1>1. /\ kind[r] # "baseline_auto" /\ GoTo(r, "work", "saved")
        /\ saved' = [saved EXCEPT ![r] = rows]
        /\ UNCHANGED <<now, kind, runs, tables, check, ending, reader>>
    BY DEF SaveRows
  <1>2. saved' = [q \in RunIds |-> IF q = r THEN rows ELSE saved[q]]
    BY <1>1 DEF WritersOK
  <1>3. /\ saved' = [q \in RunIds |-> saved'[q]]
        /\ \A q \in RunIds : saved'[q] \subseteq Rows[kind[q]]
        /\ \A q \in RunIds \ {r} : saved'[q] = saved[q]
    BY <1>2 DEF WritersOK, TypeOK
  <1>4. \A q \in RunIds \ {r} : Same(q)
    BY <1>1, <1>3, GoesTo DEF Same
  <1>5. TypeOK'
    BY <1>1, <1>3, GoesTo DEF WritersOK, TypeOK, reader
  <1>6. Kept
    BY <1>1, <1>3, GoesTo DEF WritersOK, TypeOK, Kept
  <1>7. Stands(r)'
    <2>1. Stands(r) /\ stage[r] = "work" /\ stage'[r] = "saved"
      BY <1>1, GoesTo DEF WritersOK
    <2>2. check[r] # NoRun => stage'[check[r]] # "idle"
      BY <2>1, <1>6 DEF Stands, Kept, WritersOK, TypeOK
    <2>3. QED
      BY <1>1, <2>1, <2>2 DEF Stands
  <1>8. QED
    BY <1>1, <1>3, <1>4, <1>5, <1>6, <1>7, MovesOn DEF WritersOK
\* The row finish_run is about to write is a row.
LEMMA EndingType ==
    ASSUME TypeOK, NEW status \in Statuses, NEW whole \in BOOLEAN
    PROVE  /\ EndingNow(status, whole) \in Ending
           /\ EndingNow(status, whole).status = status
           /\ EndingNow(status, whole).complete = whole
           /\ EndingNow(status, whole).finished = now
           /\ now \in 1..now
  <1>1. now \in 0..MaxTime /\ now \in 1..now
    BY ExporterAssumption DEF TypeOK
  <1>2. QED
    BY <1>1 DEF EndingNow, Ending, Status, Statuses

LEMMA FinishKeeps ==
    ASSUME WritersOK, NEW r \in RunIds, Finish(r)
    PROVE  WritersOK' /\ Kept /\ UNCHANGED reader
  <1>1. PICK from \in {"saved", "registered"}, status \in Statuses, whole \in BOOLEAN :
        /\ GoTo(r, from, "finishing")
        /\ ending' = [ending EXCEPT ![r] = EndingNow(status, whole)]
        /\ from = "saved" => status = Verdict(r) /\ whole = Whole(r)
        /\ from = "registered" => /\ check[r] # NoRun /\ stage[check[r]] = "done"
                                  /\ status = JobVerdict(check[r])
    BY VerdictType DEF Finish
  <1>2. UNCHANGED <<now, kind, runs, saved, tables, check, reader>>
    BY DEF Finish
  <1>3. /\ EndingNow(status, whole) \in Ending
        /\ EndingNow(status, whole).status = status
        /\ EndingNow(status, whole).complete = whole
        /\ EndingNow(status, whole).finished = now
        /\ now \in 1..now
    BY EndingType DEF WritersOK
  <1>4. /\ ending' \in [RunIds -> Ending]
        /\ ending'[r] = EndingNow(status, whole)
        /\ \A q \in RunIds \ {r} : ending'[q] = ending[q]
    BY <1>1, <1>3 DEF WritersOK, TypeOK
  <1>5. \A q \in RunIds \ {r} : Same(q)
    BY <1>1, <1>2, <1>4, GoesTo DEF Same
  <1>6. TypeOK'
    BY <1>1, <1>2, <1>4, GoesTo DEF WritersOK, TypeOK, reader
  <1>7. Kept
    BY <1>1, <1>2, GoesTo DEF WritersOK, TypeOK, Kept
  <1>8. Stands(r)'
    <2>1. Stands(r) /\ stage[r] = from /\ stage'[r] = "finishing"
      BY <1>1, GoesTo DEF WritersOK
    <2>2. check[r] # NoRun => check[r] \in RunIds /\ stage'[check[r]] # "idle"
      BY <2>1, <1>7 DEF Stands, Kept, WritersOK, TypeOK
    <2>3. EndedWell(r, ending[r])'
      <3>1. CASE from = "saved"
        <4>1. kind'[r] # "baseline_auto"
          BY <1>2, <2>1, <3>1 DEF Stands
        <4>2. Verdict(r)' = Verdict(r) /\ Whole(r)' = Whole(r)
          BY <1>2 DEF Verdict, Whole, Has
        <4>3. QED
          BY <1>1, <1>2, <1>3, <1>4, <3>1, <4>1, <4>2 DEF EndedWell
      <3>2. CASE from = "registered"
        <4>1. kind'[r] = "baseline_auto"
          BY <1>2, <2>1, <3>2 DEF Stands
        <4>2. /\ check[r] \in RunIds /\ stage[check[r]] = "done" /\ check'[r] = check[r]
              /\ stage'[check[r]] = "done"
          BY <1>1, <1>2, <1>7, <2>2, <3>2 DEF Kept
        <4>3. runs[check[r]].finished <= now
          BY <4>2 DEF WritersOK, Stands, EndedWell
        <4>4. JobVerdict(check[r])' = JobVerdict(check[r])
          BY <1>2 DEF JobVerdict, Has
        <4>5. QED
          BY <1>1, <1>2, <1>3, <1>4, <3>2, <4>1, <4>2, <4>3, <4>4 DEF EndedWell
      <3>3. QED
        BY <3>1, <3>2
    <2>4. QED
      BY <1>2, <2>1, <2>2, <2>3 DEF Stands
  <1>9. QED
    BY <1>1, <1>2, <1>5, <1>6, <1>7, <1>8, MovesOn DEF WritersOK

LEMMA RaiseKeeps ==
    ASSUME WritersOK, NEW r \in RunIds, Raise(r)
    PROVE  WritersOK' /\ Kept /\ UNCHANGED reader
  <1>1. /\ stage[r] \in {"work", "saved", "finishing", "registered"}
        /\ stage' = [stage EXCEPT ![r] = "failing"]
        /\ ending' = [ending EXCEPT ![r] = EndingNow("FAIL", FALSE)]
        /\ UNCHANGED <<now, kind, runs, saved, tables, check, reader>>
    BY DEF Raise, MayRaise, FailedEnding
  <1>2. GoTo(r, stage[r], "failing")
    BY <1>1 DEF GoTo
  <1>3. /\ EndingNow("FAIL", FALSE) \in Ending
        /\ EndedBadly(EndingNow("FAIL", FALSE))
    BY EndingType DEF WritersOK, Statuses, EndedBadly
  <1>4. /\ ending' \in [RunIds -> Ending]
        /\ ending'[r] = EndingNow("FAIL", FALSE)
        /\ \A q \in RunIds \ {r} : ending'[q] = ending[q]
    BY <1>1, <1>3 DEF WritersOK, TypeOK
  <1>5. \A q \in RunIds \ {r} : Same(q)
    BY <1>1, <1>2, <1>4, GoesTo DEF Same
  <1>6. TypeOK'
    BY <1>1, <1>2, <1>4, GoesTo DEF WritersOK, TypeOK, reader
  <1>7. Kept
    BY <1>1, <1>2, GoesTo DEF WritersOK, TypeOK, Kept
  <1>8. Stands(r)'
    <2>1. Stands(r) /\ stage'[r] = "failing"
      BY <1>2, GoesTo DEF WritersOK
    <2>2. check[r] # NoRun => stage'[check[r]] # "idle"
      BY <2>1, <1>7 DEF Stands, Kept, WritersOK, TypeOK
    <2>3. EndedBadly(ending[r])'
      BY <1>1, <1>3, <1>4 DEF EndedBadly
    <2>4. QED
      BY <1>1, <2>1, <2>2, <2>3 DEF Stands
  <1>9. QED
    BY <1>1, <1>5, <1>6, <1>7, <1>8, MovesOn DEF WritersOK

LEMMA CommitFinishKeeps ==
    ASSUME WritersOK, NEW r \in RunIds, CommitFinish(r)
    PROVE  WritersOK' /\ Kept /\ UNCHANGED reader
  <1>1. PICK from \in {"finishing", "failing"} :
        GoTo(r, from, IF from = "finishing" THEN "done" ELSE "raised")
    BY DEF CommitFinish
  <1>2. /\ runs' = [runs EXCEPT ![r] = ending[r]]
        /\ UNCHANGED <<now, kind, saved, tables, check, ending, reader>>
    BY DEF CommitFinish
  <1>3. /\ runs' \in [RunIds -> Ending]
        /\ runs'[r] = ending[r]
        /\ \A q \in RunIds \ {r} : runs'[q] = runs[q]
    BY <1>2 DEF WritersOK, TypeOK
  <1>4. \A q \in RunIds \ {r} : Same(q)
    BY <1>1, <1>2, <1>3, GoesTo DEF Same
  <1>5. TypeOK'
    BY <1>1, <1>2, <1>3, GoesTo DEF WritersOK, TypeOK, reader
  <1>6. Kept
    BY <1>1, <1>2, <1>3, GoesTo DEF WritersOK, TypeOK, Kept
  <1>7. Stands(r)'
    <2>1. Stands(r) /\ stage[r] = from
      BY <1>1, GoesTo DEF WritersOK
    <2>2. check[r] # NoRun => check[r] \in RunIds /\ stage'[check[r]] # "idle"
      BY <2>1, <1>6 DEF Stands, Kept, WritersOK, TypeOK
    <2>3. CASE from = "finishing"
      <3>1. EndedWell(r, ending[r]) /\ stage'[r] = "done"
        BY <1>1, <2>1, <2>3, GoesTo DEF Stands
      <3>2. Verdict(r)' = Verdict(r) /\ Whole(r)' = Whole(r)
        BY <1>2 DEF Verdict, Whole, Has
      <3>3. JobVerdict(check[r])' = JobVerdict(check[r])
        BY <1>2 DEF JobVerdict, Has
      <3>4. kind[r] = "baseline_auto" =>
              /\ stage'[check[r]] = "done"
              /\ runs'[check[r]] = runs[check[r]]
        BY <3>1, <1>6 DEF EndedWell, Kept
      <3>5. EndedWell(r, runs[r])'
        BY <1>2, <1>3, <3>1, <3>2, <3>3, <3>4 DEF EndedWell
      <3>6. QED
        BY <1>2, <2>1, <2>2, <3>1, <3>5 DEF Stands
    <2>4. CASE from = "failing"
      <3>1. EndedBadly(ending[r]) /\ stage'[r] = "raised"
        BY <1>1, <2>1, <2>4, GoesTo DEF Stands
      <3>2. EndedBadly(runs[r])'
        BY <1>2, <1>3, <3>1 DEF EndedBadly
      <3>3. QED
        BY <1>2, <2>1, <2>2, <3>1, <3>2 DEF Stands
    <2>5. QED
      BY <2>3, <2>4
  <1>8. QED
    BY <1>2, <1>4, <1>5, <1>6, <1>7, MovesOn DEF WritersOK

LEMMA CrashKeeps ==
    ASSUME WritersOK, NEW r \in RunIds, Crash(r)
    PROVE  WritersOK' /\ Kept /\ UNCHANGED reader
  <1>1. /\ stage' = [q \in RunIds |->
              IF stage[q] \notin Ended /\ (q = r \/ q = check[r] \/ r = check[q])
              THEN "dead" ELSE stage[q]]
        /\ UNCHANGED <<now, kind, runs, saved, tables, check, ending, reader>>
    BY DEF Crash
  <1>2. \A q \in RunIds : \/ stage'[q] = stage[q]
                          \/ stage[q] \notin Ended /\ stage'[q] = "dead"
    BY <1>1
  <1>3. stage' \in [RunIds -> {"idle", "work", "registered", "saved", "finishing",
                               "failing", "done", "raised", "dead"}]
    BY <1>1 DEF WritersOK, TypeOK
  <1>4. TypeOK'
    BY <1>1, <1>3 DEF WritersOK, TypeOK, reader
  <1>5. Kept
    BY <1>1, <1>2 DEF WritersOK, TypeOK, Kept, Ended
  <1>6. ASSUME NEW q \in RunIds
        PROVE  Stands(q)'
    <2>1. CASE stage'[q] = stage[q]
      BY <1>1, <1>5, <2>1, SameStands DEF Same, WritersOK
    <2>2. CASE stage[q] \notin Ended /\ stage'[q] = "dead"
      <3>1. check[q] # NoRun => stage'[check[q]] # "idle" /\ kind[check[q]] = "integrity"
        BY <1>5 DEF Stands, Kept, WritersOK, TypeOK
      <3>2. runs[q].status = "RUNNING" /\ runs[q].finished = 0
        BY <2>2 DEF Stands, WritersOK, Ended
      <3>3. QED
        BY <1>1, <2>2, <3>1, <3>2 DEF Stands
    <2>3. QED
      BY <1>2, <2>1, <2>2
  <1>7. QED
    BY <1>1, <1>4, <1>5, <1>6 DEF WritersOK

LEMMA TickKeeps ==
    ASSUME WritersOK, Tick
    PROVE  WritersOK' /\ Kept /\ UNCHANGED reader
  <1>1. /\ now < MaxTime /\ now' = now + 1
        /\ UNCHANGED <<kind, runs, saved, tables, stage, check, ending>>
        /\ UNCHANGED reader
    BY DEF Tick, writers
  <1>2. now' \in 1..MaxTime /\ now' \in Nat /\ now' >= now
    BY <1>1, ExporterAssumption DEF WritersOK, TypeOK
  <1>3. TypeOK' /\ Kept
    BY <1>1, <1>2 DEF WritersOK, TypeOK, reader, Kept
  <1>4. \A q \in RunIds : Stands(q)'
    BY <1>1, <1>3, SameStands DEF Same, WritersOK
  <1>5. QED
    BY <1>1, <1>3, <1>4 DEF WritersOK
-----------------------------------------------------------------------------
(* The steps of the exporter.                                              *)

LEMMA SuccessByKind == Success = SuccessOf(query)
  BY DEF Success, SuccessOf

LEMMA ClassesByKind == \A n : ClassesOf(n) = CountedAs(query, n)
  BY DEF ClassesOf, CountedAs

\* They leave the executions alone, and what those rely on.
LEMMA ScrapeKeepsWriters ==
    ASSUME WritersOK, UNCHANGED <<now, writers>>, step' \in {"idle", "success", "events",
           "evidence", "rows", "show"}, query' \in Kinds, sample' \in Sample,
           shown' \in [Kinds -> Sample]
    PROVE  WritersOK' /\ Kept
  <1>1. /\ TypeOK'
        /\ UNCHANGED <<now, kind, runs, saved, tables, stage, check, ending>>
    BY DEF WritersOK, TypeOK, writers
  <1>2. Kept
    BY <1>1, ExporterAssumption DEF WritersOK, TypeOK, Kept
  <1>3. \A q \in RunIds : Stands(q)'
    BY <1>1, <1>2, SameStands DEF Same, WritersOK
  <1>4. QED
    BY <1>1, <1>2, <1>3 DEF WritersOK

\* What was shown is about the rows as they are after the step as well.
LEMMA ShownKept ==
    ASSUME ExportInv, Kept, shown' = shown
    PROVE  Shows'
  <1>1. ASSUME NEW k \in Kinds
        PROVE  ReadOf(k, shown[k])' /\ Counted(k, shown[k])' /\ TotalsAgree(shown[k])'
    <2>1. /\ ReadOf(k, shown[k]) /\ Counted(k, shown[k]) /\ TotalsAgree(shown[k])
          /\ shown[k].run \in RunIds \cup {NoRun}
      BY DEF ExportInv, Shows, TypeOK, Sample
    <2>2. IsAbout(k, shown[k])'
      BY <2>1 DEF ReadOf, IsAbout, Kept
    <2>3. ASSUME NEW statuses, NEW time, TimeOf(k, statuses, time)
          PROVE  \A t : t = time => TimeOf(k, statuses, t)'
      BY <2>3, TimedHasEnded DEF TimeOf, Kept, ExportInv
    <2>4. Counted(k, shown[k])'
      BY <2>1 DEF Counted, ReadOf, IsAbout, Kept, CountedAs
    <2>5. QED
      BY <2>1, <2>2, <2>3, <2>4 DEF ReadOf, TotalsAgree
  <1>2. QED
    BY <1>1 DEF Shows

\* The latest of the runs that ended is no older than the time shown.
LEMMA LatestIsNoOlder ==
    ASSUME WritersOK, NEW k \in Kinds, NEW statuses, NEW time \in Nat,
           TimeOf(k, statuses, time),
           NEW ended, ended = {r \in RunIds : /\ kind[r] = k
                                              /\ runs[r].status \in statuses
                                              /\ runs[r].finished # 0}
    PROVE  /\ ended = {} => time = 0
           /\ \A r \in Latest(ended) : runs[r].finished >= time
  <1>1. \A r \in RunIds : runs[r].finished \in Nat
    BY ExporterAssumption DEF WritersOK, TypeOK, Ending
  <1>2. CASE time = 0
    BY <1>1, <1>2 DEF Latest
  <1>3. CASE time # 0
    <2>1. PICK r \in RunIds : kind[r] = k /\ runs[r].status \in statuses /\ runs[r].finished = time
      BY <1>3 DEF TimeOf
    <2>2. r \in ended
      BY <2>1, <1>3
    <2>3. QED
      BY <1>1, <2>1, <2>2 DEF Latest
  <1>4. QED
    BY <1>2, <1>3

LEMMA NothingRead ==
    /\ Nothing \in Sample /\ TotalsAgree(Nothing)
    /\ \A k : ReadOf(k, Nothing) /\ Counted(k, Nothing)
    /\ Nothing.last = 0 /\ Nothing.success = 0 /\ Nothing.run = NoRun
  <1>1. Nothing \in Sample
    BY ExporterAssumption DEF Nothing, Sample, Status
  <1>2. TotalsAgree(Nothing)
    BY ExporterAssumption DEF TotalsAgree, Nothing
  <1>3. \A k : ReadOf(k, Nothing) /\ Counted(k, Nothing)
    BY DEF ReadOf, IsAbout, TimeOf, Counted, Nothing
  <1>4. QED
    BY <1>1, <1>2, <1>3 DEF Nothing

LEMMA ReadRunKeeps ==
    ASSUME ExportInv, NEW k \in Kinds, ReadRun(k)
    PROVE  ExportInv'
  <1> DEFINE ended == {r \in RunIds : /\ kind[r] = k
                                      /\ runs[r].status \in Statuses
                                      /\ runs[r].finished # 0}
  <1>1. /\ step' = "success" /\ query' = k /\ UNCHANGED <<now, writers, shown>>
        /\ Finished({"PASS", "WARNING", "FAIL"}) = ended
        /\ \/ ended = {} /\ sample' = Nothing
           \/ \E r \in Latest(ended) :
                sample' = [Nothing EXCEPT !.run = r, !.status = runs[r].status,
                              !.complete = runs[r].complete, !.last = runs[r].finished]
    BY DEF ReadRun, Finished, Statuses
  <1>2. WritersOK
    BY DEF ExportInv, WritersOK
  <1>3. /\ sample' \in Sample /\ ReadOf(k, sample') /\ TotalsAgree(sample')
        /\ sample'.success = 0
        /\ sample'.last >= shown[k].last
    <2>1. /\ TimeOf(k, Statuses, shown[k].last) /\ shown[k].last \in Nat
      BY ExporterAssumption DEF ExportInv, Shows, ReadOf, TypeOK, Sample
    <2>2. /\ ended = {} => shown[k].last = 0
          /\ \A r \in Latest(ended) : runs[r].finished >= shown[k].last
      BY <1>2, <2>1, LatestIsNoOlder
    <2>3. CASE ended = {} /\ sample' = Nothing
      BY <2>2, <2>3, NothingRead
    <2>4. ASSUME NEW r \in Latest(ended),
                 sample' = [Nothing EXCEPT !.run = r, !.status = runs[r].status,
                              !.complete = runs[r].complete, !.last = runs[r].finished]
          PROVE  /\ sample' \in Sample /\ ReadOf(k, sample') /\ TotalsAgree(sample')
                 /\ sample'.success = 0
                 /\ sample'.last >= shown[k].last
      <3>1. /\ r \in RunIds /\ kind[r] = k /\ runs[r].status \in Statuses
            /\ runs[r].finished # 0 /\ runs[r] \in Ending
            /\ stage[r] \in {"done", "raised"}
        BY <1>2, TimedHasEnded DEF Latest, WritersOK, TypeOK
      <3>2. sample' = [run |-> r, status |-> runs[r].status, complete |-> runs[r].complete,
                       last |-> runs[r].finished, success |-> 0, classes |-> {},
                       events |-> 0, evidence |-> 0]
        BY <2>4 DEF Nothing
      <3>3. /\ sample'.run = r /\ sample'.status = runs[r].status
            /\ sample'.complete = runs[r].complete
            /\ sample'.last = runs[r].finished /\ sample'.success = 0
            /\ sample'.events = 0 /\ sample'.evidence = 0
        BY <3>2
      <3>4. sample' \in Sample
        BY <3>1, <3>2, ExporterAssumption DEF Sample, Ending
      <3>5. IsAbout(k, sample')
        BY <3>1, <3>3 DEF IsAbout
      <3>6. TimeOf(k, Statuses, sample'.last)
        BY <3>1, <3>3 DEF TimeOf
      <3>7. TimeOf(k, SuccessOf(k), sample'.success)
        BY <3>3 DEF TimeOf
      <3>8. TotalsAgree(sample')
        BY <3>3, ExporterAssumption DEF TotalsAgree
      <3>9. QED
        BY <2>2, <2>4, <3>3, <3>4, <3>5, <3>6, <3>7, <3>8 DEF ReadOf
    <2>5. QED
      BY <1>1, <2>3, <2>4
  <1>4. WritersOK' /\ Kept
    BY <1>1, <1>2, <1>3, ScrapeKeepsWriters DEF WritersOK, TypeOK
  <1>5. Shows'
    BY <1>1, <1>4, ShownKept
  <1>6. ReadOf(query, sample)' /\ TotalsAgree(sample)'
    BY <1>1, <1>3 DEF ReadOf, IsAbout, TimeOf, TotalsAgree, writers
  <1>7. Reads'
    BY <1>1, <1>3, <1>6 DEF Reads
  <1>8. QED
    BY <1>4, <1>5, <1>7 DEF ExportInv, WritersOK
LEMMA ReadSuccessKeeps ==
    ASSUME ExportInv, ReadSuccess
    PROVE  ExportInv'
  <1> DEFINE good == {r \in RunIds : /\ kind[r] = query
                                     /\ runs[r].status \in SuccessOf(query)
                                     /\ runs[r].finished # 0}
  <1>1. /\ step = "success" /\ step' = AfterSuccess
        /\ UNCHANGED <<now, writers, query, shown>>
        /\ \/ good = {} /\ sample' = sample
           \/ \E r \in Latest(good) : sample' = [sample EXCEPT !.success = runs[r].finished]
    BY SuccessByKind DEF ReadSuccess, Finished
  <1>2. /\ WritersOK /\ query \in Kinds /\ sample \in Sample /\ shown \in [Kinds -> Sample]
        /\ ReadOf(query, sample) /\ sample.last >= shown[query].last
        /\ sample.success = 0 /\ TotalsAgree(sample)
    BY <1>1 DEF ExportInv, WritersOK, TypeOK, Reads
  <1>3. /\ sample' \in Sample
        /\ TimeOf(query, SuccessOf(query), sample'.success)
        /\ sample'.success >= shown[query].success
        /\ sample'.run = sample.run /\ sample'.status = sample.status
        /\ sample'.complete = sample.complete /\ sample'.last = sample.last
        /\ sample'.events = sample.events /\ sample'.evidence = sample.evidence
    <2>1. TimeOf(query, SuccessOf(query), shown[query].success) /\ shown[query].success \in Nat
      BY <1>2, ExporterAssumption DEF ExportInv, Shows, ReadOf, Sample
    <2>2. /\ good = {} => shown[query].success = 0
          /\ \A r \in Latest(good) : runs[r].finished >= shown[query].success
      BY <1>2, <2>1, LatestIsNoOlder
    <2>3. CASE good = {} /\ sample' = sample
      BY <1>2, <2>2, <2>3 DEF ReadOf
    <2>4. ASSUME NEW r \in Latest(good), sample' = [sample EXCEPT !.success = runs[r].finished]
          PROVE  /\ sample' \in Sample
                 /\ sample'.success = runs[r].finished
                 /\ TimeOf(query, SuccessOf(query), sample'.success)
                 /\ sample'.run = sample.run /\ sample'.status = sample.status
                 /\ sample'.complete = sample.complete /\ sample'.last = sample.last
                 /\ sample'.events = sample.events /\ sample'.evidence = sample.evidence
      <3>1. /\ r \in RunIds /\ kind[r] = query /\ runs[r].status \in SuccessOf(query)
            /\ runs[r].finished \in 0..MaxTime
        BY <1>2 DEF Latest, WritersOK, TypeOK, Ending
      <3>2. /\ sample' \in Sample
            /\ sample'.success = runs[r].finished
            /\ sample'.run = sample.run /\ sample'.status = sample.status
            /\ sample'.complete = sample.complete /\ sample'.last = sample.last
            /\ sample'.events = sample.events /\ sample'.evidence = sample.evidence
        BY <1>2, <2>4, <3>1 DEF Sample
      <3>3. QED
        BY <3>1, <3>2 DEF TimeOf
    <2>5. QED
      BY <1>1, <2>2, <2>3, <2>4
  <1>4. /\ step' \in {"events", "show", "rows"}
        /\ step' = "events" => query = "baseline_auto"
        /\ step' = "show" => sample.run = NoRun
        /\ step' = "rows" => query # "baseline_auto" /\ sample.run # NoRun
    BY <1>1 DEF AfterSuccess
  <1>5. WritersOK' /\ Kept
    BY <1>1, <1>2, <1>3, <1>4, ScrapeKeepsWriters
  <1>6. Shows'
    BY <1>1, <1>5, ShownKept
  <1>7. ReadOf(query, sample)' /\ TotalsAgree(sample)'
    BY <1>1, <1>2, <1>3 DEF ReadOf, IsAbout, TimeOf, TotalsAgree, writers
  <1>8. step' = "show" => Counted(query, sample)'
    BY <1>3, <1>4 DEF Counted
  <1>9. Reads'
    BY <1>1, <1>2, <1>3, <1>4, <1>7, <1>8 DEF Reads
  <1>10. QED
    BY <1>5, <1>6, <1>9 DEF ExportInv, WritersOK

\* Reading the totals or the results says no more of the runs themselves.
LEMMA ReadsMore ==
    ASSUME ExportInv, NEW to, UNCHANGED <<now, writers, query, shown>>, sample' \in Sample,
           step \notin {"idle", "success"}, step' = to, to \in {"evidence", "show"},
           sample'.run = sample.run, sample'.status = sample.status,
           sample'.complete = sample.complete, sample'.last = sample.last,
           sample'.success = sample.success,
           to = "show" => Counted(query, sample)' /\ TotalsAgree(sample)',
           to = "evidence" => query = "baseline_auto" /\ sample'.events <= tables.events
    PROVE  ExportInv'
  <1>1. WritersOK /\ query \in Kinds /\ shown \in [Kinds -> Sample]
    BY DEF ExportInv, WritersOK, TypeOK
  <1>2. WritersOK' /\ Kept
    BY <1>1, ScrapeKeepsWriters
  <1>3. Shows'
    BY <1>2, ShownKept
  <1>4. ReadOf(query, sample)'
    <2>1. ReadOf(query, sample)
      BY DEF ExportInv, Reads
    <2>2. QED
      BY <2>1 DEF ReadOf, IsAbout, TimeOf, writers
  <1>5. sample'.last >= shown'[query'].last /\ sample'.success >= shown'[query'].success
    BY DEF ExportInv, Reads
  <1>6. Reads'
    BY <1>4, <1>5 DEF Reads, writers
  <1>7. QED
    BY <1>2, <1>3, <1>6 DEF ExportInv, WritersOK

LEMMA CountKeeps ==
    ASSUME ExportInv, Count("events", "evidence") \/ Count("evidence", "show")
    PROVE  ExportInv'
  <1>1. /\ tables.events \in Nat /\ tables.evidence = Copies * tables.events
        /\ tables.evidence \in Nat /\ sample \in Sample /\ Copies \in Nat
        /\ sample.events \in Nat
    BY ExporterAssumption DEF ExportInv, TypeOK, Sample
  <1>2. CASE Count("events", "evidence")
    <2>1. /\ step = "events" /\ step' = "evidence"
          /\ sample' = [sample EXCEPT !.events = tables.events]
          /\ UNCHANGED <<now, writers, query, shown>>
      BY <1>2 DEF Count
    <2>2. /\ sample' \in Sample /\ sample'.events = tables.events
          /\ sample'.run = sample.run /\ sample'.status = sample.status
          /\ sample'.complete = sample.complete /\ sample'.last = sample.last
          /\ sample'.success = sample.success
      BY <1>1, <2>1 DEF Sample
    <2>3. query = "baseline_auto"
      BY <2>1 DEF ExportInv, Reads
    <2>4. QED
      BY <1>1, <2>1, <2>2, <2>3, ReadsMore
  <1>3. CASE Count("evidence", "show")
    <2>1. /\ step = "evidence" /\ step' = "show"
          /\ sample' = [sample EXCEPT !.evidence = tables.evidence]
          /\ UNCHANGED <<now, writers, query, shown>>
      BY <1>3 DEF Count
    <2>2. /\ sample' \in Sample /\ sample'.evidence = tables.evidence
          /\ sample'.run = sample.run /\ sample'.status = sample.status
          /\ sample'.complete = sample.complete /\ sample'.last = sample.last
          /\ sample'.success = sample.success /\ sample'.events = sample.events
      BY <1>1, <2>1 DEF Sample
    <2>3. query = "baseline_auto" /\ sample.events <= tables.events
      BY <2>1 DEF ExportInv, Reads
    <2>4. TotalsAgree(sample)'
      <3>1. \A m, n \in Nat : m <= n => Copies * n >= Copies * m
        BY <1>1
      <3>2. QED
        BY <1>1, <2>2, <2>3, <3>1 DEF TotalsAgree
    <2>5. Counted(query, sample)'
      BY <2>1, <2>3 DEF Counted
    <2>6. QED
      BY <2>1, <2>2, <2>4, <2>5, ReadsMore
  <1>4. QED
    BY <1>2, <1>3

LEMMA ShowKeeps ==
    ASSUME ExportInv, Show
    PROVE  ExportInv'
  <1>1. /\ step = "show" /\ step' = "idle" /\ query' = "integrity" /\ sample' = Nothing
        /\ shown' = [shown EXCEPT ![query] = sample]
        /\ UNCHANGED <<now, writers>>
    BY DEF Show
  <1>2. /\ WritersOK /\ query \in Kinds /\ sample \in Sample /\ shown \in [Kinds -> Sample]
        /\ ReadOf(query, sample) /\ Counted(query, sample) /\ TotalsAgree(sample)
    BY <1>1 DEF ExportInv, WritersOK, TypeOK, Reads
  <1>3. shown' \in [Kinds -> Sample] /\ "integrity" \in Kinds
    BY <1>1, <1>2 DEF Kinds
  <1>4. WritersOK'
    BY <1>1, <1>2, <1>3, NothingRead, ScrapeKeepsWriters
  <1>5. ASSUME NEW k \in Kinds
        PROVE  ReadOf(k, shown[k])' /\ Counted(k, shown[k])' /\ TotalsAgree(shown[k])'
    <2>1. PICK s : s = shown'[k] /\ ReadOf(k, s) /\ Counted(k, s) /\ TotalsAgree(s)
      BY <1>1, <1>2 DEF ExportInv, Shows
    <2>2. QED
      BY <1>1, <2>1 DEF ReadOf, IsAbout, TimeOf, Counted, TotalsAgree, writers
  <1>6. Reads'
    BY <1>1, NothingRead DEF Reads, TotalsAgree, Nothing
  <1>7. QED
    BY <1>4, <1>5, <1>6 DEF ExportInv, WritersOK, Shows
-----------------------------------------------------------------------------
(* The results, by kind.                                                   *)

LEMMA RowFields ==
    \A s, c : Row(s, c).status = s /\ Row(s, c).code = c
  BY DEF Row

LEMMA CleanRow ==
    ASSUME NEW n, n = Row("PASS", "")
    PROVE  n.status = "PASS" /\ n \in Tolerated
  <1>1. n.status = "PASS"
    BY Zenon, RowFields
  <1>2. n \in Tolerated
    BY Zenon DEF Tolerated
  <1>3. QED
    BY <1>1, <1>2

LEMMA IntegrityRows ==
    ASSUME NEW n \in Rows["integrity"]
    PROVE  \/ n.status = "PASS" /\ n \in Tolerated
           \/ n.status = "FAIL" /\ CodeClasses(n.code) \in {{"changed"}, {"missing"}}
           \/ n.status = "WARNING" /\ CodeClasses(n.code) = {"without_baseline"}
           \/ n.status = "UNKNOWN" /\ CodeClasses(n.code) = {"errors"}
  <1> DEFINE others == {Row("FAIL", "CHECKSUM_MISMATCH"), Row("FAIL", "FILE_MISSING"),
                        Row("WARNING", "NO_BASELINE"), Row("UNKNOWN", "FILE_READ_ERROR")}
  <1>1. n = Row("PASS", "") \/ n \in others
    BY Zenon DEF Rows
  <1>2. CASE n \in others
    BY <1>2, RowFields DEF CodeClasses
  <1>3. QED
    BY <1>1, <1>2, CleanRow

LEMMA ReplicaRows ==
    ASSUME NEW n \in Rows["replica_integrity"]
    PROVE  \/ n.status = "PASS" /\ n \in Tolerated
           \/ n.status = "FAIL" /\ CodeClasses(n.code) \in {{"changed"}, {"missing"}}
           \/ n.status = "UNKNOWN" /\ CodeClasses(n.code) = {}
  <1> DEFINE others == {Row("FAIL", "REPLICA_MISSING"), Row("FAIL", "REPLICA_SIZE_MISMATCH"),
                        Row("UNKNOWN", "REPLICA_CHECK_INCONCLUSIVE")}
  <1>1. n = Row("PASS", "") \/ n \in others
    BY Zenon DEF Rows
  <1>2. CASE n \in others
    BY <1>2, RowFields DEF CodeClasses
  <1>3. QED
    BY <1>1, <1>2, CleanRow

LEMMA BagRows ==
    ASSUME NEW n \in Rows["bagit"]
    PROVE  \/ n.status = "PASS" /\ n \in Tolerated
           \/ n.status = "WARNING" /\ (n \in Tolerated \/ CodeClasses(n.code) = {"weak"})
           \/ n.status = "FAIL"
           \/ n.status = "UNKNOWN"
  <1> DEFINE weak == Row("WARNING", "BAG_WEAK_MANIFEST_ALGORITHM")
             odd == Row("WARNING", "BAG_NONSTANDARD_TAG_CONTINUATION")
             others == {Row("FAIL", "BAG_CHECKSUM_MISMATCH"),
                        Row("FAIL", "BAG_PAYLOAD_MISSING"), Row("UNKNOWN", "BAG_READ_ERROR")}
  <1>1. n = Row("PASS", "") \/ n = weak \/ n = odd \/ n \in others
    BY Zenon DEF Rows
  <1>2. CASE n \in others
    BY <1>2, RowFields
  <1>3. CASE n = weak
    BY <1>3, RowFields DEF CodeClasses
  <1>4. CASE n = odd
    <2>1. n \in Tolerated
      BY Zenon, <1>4 DEF Tolerated
    <2>2. QED
      BY <1>4, <2>1, RowFields
  <1>5. QED
    BY <1>1, <1>2, <1>3, <1>4, CleanRow

LEMMA FormatRows ==
    ASSUME NEW n \in Rows["obsolescence"]
    PROVE  \/ n.status = "PASS" /\ n \in Tolerated
           \/ n.status = "WARNING" /\ (n \in Tolerated \/ CodeClasses(n.code) = {"unclassified"})
           \/ n.status = "FAIL"
           \/ n.status = "UNKNOWN"
  <1> DEFINE aging == Row("WARNING", "FORMAT_OBSOLESCENCE_WARNING")
             unlisted == Row("WARNING", "FORMAT_UNCLASSIFIED")
             others == {Row("FAIL", "FORMAT_OBSOLESCENCE_RISK"),
                        Row("UNKNOWN", "FORMAT_NOT_IDENTIFIED")}
  <1>1. n = Row("PASS", "") \/ n = aging \/ n = unlisted \/ n \in others
    BY Zenon DEF Rows
  <1>2. CASE n \in others
    BY <1>2, RowFields
  <1>3. CASE n = unlisted
    BY <1>3, RowFields DEF CodeClasses
  <1>4. CASE n = aging
    <2>1. n \in Tolerated
      BY Zenon, <1>4 DEF Tolerated
    <2>2. QED
      BY <1>4, <2>1, RowFields
  <1>5. QED
    BY <1>1, <1>2, <1>3, <1>4, CleanRow

LEMMA DoiRows ==
    ASSUME NEW n \in Rows["doi"]
    PROVE  \/ n.status = "PASS" /\ n \in Tolerated
           \/ n.status = "WARNING" /\ CodeClasses(n.code) = {"insecure"}
           \/ n.status = "FAIL"
           \/ n.status = "UNKNOWN"
  <1> DEFINE others == {Row("WARNING", "DOI_INSECURE_REDIRECT"),
                        Row("FAIL", "DOI_METADATA_MISSING"), Row("FAIL", "DOI_REDIRECT_LIMIT"),
                        Row("UNKNOWN", "DOI_LANDING_UNAVAILABLE")}
  <1>1. n = Row("PASS", "") \/ n \in others
    BY Zenon DEF Rows
  <1>2. CASE n \in others
    BY <1>2, RowFields DEF CodeClasses
  <1>3. QED
    BY <1>1, <1>2, CleanRow

\* Whatever the kind, a result in PASS is one that conforms.
LEMMA RowStatuses ==
    ASSUME NEW k \in Kinds, NEW n \in Rows[k]
    PROVE  /\ k # "baseline_auto"
           /\ n.status \in {"PASS", "WARNING", "FAIL", "UNKNOWN"}
           /\ n.status = "PASS" => n \in Tolerated
  <1>1. CASE k = "integrity"
    BY <1>1, IntegrityRows
  <1>2. CASE k = "replica_integrity"
    BY <1>2, ReplicaRows
  <1>3. CASE k = "bagit"
    BY <1>3, BagRows
  <1>4. CASE k = "obsolescence"
    BY <1>4, FormatRows
  <1>5. CASE k = "doi"
    BY <1>5, DoiRows
  <1>6. CASE k = "baseline_auto"
    <2>1. Rows["baseline_auto"] = {}
      BY Zenon DEF Rows
    <2>2. QED
      BY <1>6, <2>1
  <1>7. QED
    BY <1>1, <1>2, <1>3, <1>4, <1>5, <1>6 DEF Kinds

\* Where a result is counted is a class the metrics show.
LEMMA CountedInClasses ==
    ASSUME NEW k \in Kinds, NEW n \in Rows[k]
    PROVE  CountedAs(k, n) \subseteq Classes
  <1>1. CodeClasses(n.code) \subseteq Classes
    BY DEF CodeClasses, Classes
  <1>2. k \in {"integrity", "replica_integrity"} \cup ContentKinds
    BY RowStatuses DEF Kinds, ContentKinds
  <1>3. n.status \in {"PASS", "WARNING", "FAIL", "UNKNOWN"}
    BY RowStatuses
  <1>4. CASE n.status = "PASS"
    BY <1>4 DEF CountedAs, Classes
  <1>5. CASE n.status # "PASS" /\ k \in {"integrity", "replica_integrity"}
    <2>1. k \notin ContentKinds
      BY <1>5 DEF ContentKinds
    <2>2. "unknown" \in Classes
      BY DEF Classes
    <2>3. CountedAs(k, n) \in {{"unknown"}, CodeClasses(n.code)}
      BY Zenon, <1>5, <2>1 DEF CountedAs
    <2>4. QED
      BY <1>1, <2>2, <2>3
  <1>6. CASE n.status # "PASS" /\ k \in ContentKinds
    <2>1. k \notin {"integrity", "replica_integrity"}
      BY <1>6 DEF ContentKinds
    <2>2. [WARNING |-> "warnings", FAIL |-> "invalid", UNKNOWN |-> "unknown"][n.status]
            \in {"warnings", "invalid", "unknown"}
      BY <1>3, <1>6
    <2>3. {"warnings", "invalid", "unknown"} \subseteq Classes
      BY DEF Classes
    <2>4. \A a : a \in CountedAs(k, n) =>
            \/ a \in CodeClasses(n.code)
            \/ a = [WARNING |-> "warnings", FAIL |-> "invalid", UNKNOWN |-> "unknown"][n.status]
      BY Zenon, <1>6, <2>1 DEF CountedAs
    <2>5. QED
      BY Zenon, <1>1, <2>2, <2>3, <2>4
  <1>7. QED
    BY <1>2, <1>4, <1>5, <1>6

LEMMA ReadRowsKeeps ==
    ASSUME ExportInv, ReadRows
    PROVE  ExportInv'
  <1> DEFINE counted == UNION {CountedAs(query, n) : n \in saved[sample.run]}
  <1>1. /\ step = "rows" /\ step' = "show"
        /\ sample' = [sample EXCEPT !.classes = counted]
        /\ UNCHANGED <<now, writers, query, shown>>
    BY ClassesByKind DEF ReadRows
  <1>2. /\ sample \in Sample /\ query \in Kinds /\ sample.run # NoRun
        /\ IsAbout(query, sample) /\ TotalsAgree(sample)
    BY <1>1 DEF ExportInv, TypeOK, Reads, ReadOf
  <1>3. counted \subseteq Classes
    <2>1. sample.run \in RunIds /\ kind[sample.run] = query
      BY <1>2 DEF IsAbout, Sample
    <2>2. saved[sample.run] \subseteq Rows[query]
      BY <2>1 DEF ExportInv, TypeOK
    <2>3. QED
      BY <1>2, <2>2, CountedInClasses
  <1>4. /\ sample' \in Sample /\ sample'.classes = counted
        /\ sample'.run = sample.run /\ sample'.status = sample.status
        /\ sample'.complete = sample.complete /\ sample'.last = sample.last
        /\ sample'.success = sample.success
        /\ sample'.events = sample.events /\ sample'.evidence = sample.evidence
    <2> HIDE DEF counted
    <2>1. QED
      BY <1>1, <1>2, <1>3 DEF Sample
  <1>5. Counted(query, sample)'
    <2>1. \A f, q, t : f = saved /\ q = query /\ t = sample.run =>
            UNION {CountedAs(q, n) : n \in f[t]} = counted
      OBVIOUS
    <2>2. saved' = saved /\ query' = query
      BY <1>1 DEF writers
    <2>3. UNION {CountedAs(query', n) : n \in saved'[sample'.run]} = counted
      BY Zenon, <1>4, <2>1, <2>2
    <2>4. QED
      BY Zenon, <1>4, <2>3 DEF Counted
  <1>6. TotalsAgree(sample)'
    BY <1>2, <1>4 DEF TotalsAgree
  <1>7. QED
    BY <1>1, <1>4, <1>5, <1>6, ReadsMore

-----------------------------------------------------------------------------
(* What follows.                                                           *)

LEMMA ExportStepKeeps == ExportInv /\ [Next]_vars => ExportInv'
  <1> SUFFICES ASSUME ExportInv, [Next]_vars PROVE ExportInv'
    OBVIOUS
  <1>1. WritersOK
    BY DEF ExportInv, WritersOK
  <1>2. ASSUME WritersOK' /\ Kept /\ UNCHANGED reader
        PROVE  ExportInv'
    BY <1>2, ReaderKept DEF ExportInv, WritersOK
  <1>3. ASSUME NEW r \in RunIds, Execution(r)
        PROVE  ExportInv'
    BY <1>1, <1>2, <1>3, BeginKeeps, RegisterKeeps, BeginCheckKeeps, SaveRowsKeeps,
       FinishKeeps, RaiseKeeps, CommitFinishKeeps, CrashKeeps DEF Execution
  <1>4. CASE Scrape
    BY <1>4, ReadRunKeeps, ReadSuccessKeeps, ReadRowsKeeps, ShowKeeps, CountKeeps
       DEF Scrape
  <1>5. CASE Tick
    BY <1>1, <1>2, <1>5, TickKeeps
  <1>6. CASE UNCHANGED vars
    <2>1. UNCHANGED <<now, writers>> /\ UNCHANGED reader /\ UNCHANGED <<step, query, sample, shown>>
      BY <1>6 DEF vars, reader
    <2>2. WritersOK' /\ Kept
      BY <1>1, <2>1, ScrapeKeepsWriters DEF WritersOK, TypeOK
    <2>3. QED
      BY <1>2, <2>1, <2>2
  <1>7. QED
    BY <1>3, <1>4, <1>5, <1>6 DEF Next

LEMMA ExportInvHolds == Spec => []ExportInv
  BY InitExport, ExportStepKeeps, PTL DEF Spec
\* Every column, row and sample has its type in every state.
THEOREM ExporterTypesHold == Spec => []TypeOK
  <1>1. ExportInv => TypeOK
    BY DEF ExportInv
  <1>2. QED
    BY <1>1, ExportInvHolds, PTL

\* However the two SELECTs of the totals and the registrations interleave, the
\* evidence shown never falls short of the baselines shown (metrics.py:21-22).
THEOREM EvidenceKeepsUp == Spec => []EvidenceNotBehind
  <1>1. ExportInv => EvidenceNotBehind
    <2>1. "baseline_auto" \in Kinds
      BY DEF Kinds
    <2>2. QED
      BY <2>1 DEF ExportInv, Shows, TotalsAgree, EvidenceNotBehind
  <1>2. QED
    BY <1>1, ExportInvHolds, PTL

\* Only an execution that ended has a time, and only one that ended normally a
\* verdict that is not FAIL.
LEMMA GoodHasEnded ==
    ASSUME ExportInv, NEW r \in RunIds, runs[r].status \in {"PASS", "WARNING"}
    PROVE  stage[r] = "done" /\ EndedWell(r, runs[r])
  BY DEF ExportInv, Stands, NoEnding, EndedBadly

\* A registration job is in PASS only if the check it ran was over and in PASS,
\* and in WARNING only if it was over and was not (auto_baseline.py:267-277).
THEOREM JobsFollowChecks == Spec => []JobFollowsItsCheck
  <1>1. ASSUME ExportInv, NEW j \in RunIds, kind[j] = "baseline_auto",
               runs[j].status \in {"PASS", "WARNING"}
        PROVE  /\ check[j] # NoRun
               /\ stage[check[j]] = "done"
               /\ runs[check[j]].finished <= runs[j].finished
               /\ runs[j].status = "PASS" <=> runs[check[j]].status = "PASS"
    <2>1. PICK c : c = check[j]
      OBVIOUS
    <2>2. /\ c \in RunIds /\ stage[c] = "done" /\ runs[c].finished <= runs[j].finished
          /\ runs[j].status = JobVerdict(c)
      BY <1>1, <2>1, GoodHasEnded DEF EndedWell
    <2>3. c # NoRun
      BY <2>2, ExporterAssumption
    <2>4. kind[c] = "integrity"
      BY <1>1, <2>1, <2>3 DEF ExportInv, Stands
    <2>5. runs[c].status = Verdict(c)
      BY <1>1, <2>2, <2>4 DEF ExportInv, Stands, EndedWell
    <2>6. Verdict(c) = "PASS" <=> ~Has(c, {"FAIL", "UNKNOWN"}) /\ ~Has(c, {"WARNING"})
      BY <2>4 DEF Verdict, ContentKinds
    <2>7. Has(c, {"FAIL", "UNKNOWN", "WARNING"})
            <=> Has(c, {"FAIL", "UNKNOWN"}) \/ Has(c, {"WARNING"})
      BY DEF Has
    <2>8. QED
      BY <2>1, <2>2, <2>3, <2>5, <2>6, <2>7 DEF JobVerdict
  <1>2. ExportInv => JobFollowsItsCheck
    BY <1>1 DEF JobFollowsItsCheck
  <1>3. QED
    BY <1>2, ExportInvHolds, PTL

\* What is scraped never gets older, although rows are committed in another
\* order than their finished_at and the two times are read apart.
THEOREM NeverOlder == Spec => NeverShownOlder
  <1>1. ASSUME ExportInv, [Next]_vars, NEW k \in Kinds
        PROVE  shown'[k].last >= shown[k].last /\ shown'[k].success >= shown[k].success
    <2>1. shown[k].last \in Nat /\ shown[k].success \in Nat
      BY <1>1, ExporterAssumption DEF ExportInv, TypeOK, Sample
    <2>2. CASE Show
      <3>1. step = "show" /\ shown' = [shown EXCEPT ![query] = sample]
        BY <2>2 DEF Show
      <3>2. sample.last >= shown[query].last /\ sample.success >= shown[query].success
        BY <1>1, <3>1 DEF ExportInv, Reads
      <3>3. shown' \in [Kinds -> {shown[q] : q \in Kinds} \cup {sample}]
            /\ (k = query => shown'[k] = sample) /\ (k # query => shown'[k] = shown[k])
        BY <1>1, <3>1 DEF ExportInv, TypeOK
      <3>4. QED
        BY <2>1, <3>2, <3>3
    <2>3. CASE ~Show
      <3>1. shown' = shown
        BY <1>1, <2>3 DEF Next, Tick, Scrape, ReadRun, ReadSuccess, ReadRows, Count,
           Execution, Begin, Register, BeginCheck, SaveRows, Finish, Raise, CommitFinish,
           Crash, reader, vars
      <3>2. QED
        BY <2>1, <3>1
    <2>4. QED
      BY <2>2, <2>3
  <1>2. ExportInv /\ [Next]_vars => [\A k \in Kinds : shown'[k].last >= shown[k].last
                        /\ shown'[k].success >= shown[k].success]_vars
    BY <1>1
  <1>3. QED
    BY <1>2, ExportInvHolds, PTL DEF Spec, NeverShownOlder
-----------------------------------------------------------------------------
(* What silence means.                                                     *)

\* A run of a kind that found nothing to be alarmed at.
CleanRun(k, r) ==
    /\ kind[r] = k
    /\ runs[r].status \in IF k \in ContentKinds THEN {"PASS", "WARNING"} ELSE {"PASS"}
    /\ \A n \in saved[r] : n \in Tolerated
    /\ k \in ContentKinds => saved[r] # {}

\* One that ended no earlier than what is shown, and not too long ago.
Conforming(k) ==
    \/ k = "obsolescence" /\ shown[k].status = "FAIL"
    \/ \E r \in RunIds :
        /\ CleanRun(k, r)
        /\ runs[r].finished >= shown[k].last
        /\ now - runs[r].finished <= Limit

\* What is known of the run shown.
LEMMA ShownRun ==
    ASSUME ExportInv, NEW k \in Kinds \ {"baseline_auto"}, NEW r, r = shown[k].run, r # NoRun
    PROVE  /\ r \in RunIds
           /\ kind[r] = k
           /\ stage[r] \in {"done", "raised"}
           /\ runs[r].finished \in 1..now
           /\ shown[k].status = runs[r].status
           /\ shown[k].complete = runs[r].complete
           /\ shown[k].last = runs[r].finished
           /\ saved[r] \subseteq Rows[k]
           /\ shown[k].classes = UNION {CountedAs(k, n) : n \in saved[r]}
           /\ now \in Nat /\ shown[k].success \in Nat
  <1>1. /\ shown[k] \in Sample /\ r \in RunIds /\ now \in Nat
        /\ \A q \in RunIds : saved[q] \subseteq Rows[kind[q]]
    BY ExporterAssumption DEF ExportInv, TypeOK, Sample
  <1>2. /\ kind[r] = k /\ stage[r] \in {"done", "raised"}
        /\ shown[k].status = runs[r].status /\ shown[k].complete = runs[r].complete
        /\ shown[k].last = runs[r].finished
    BY DEF ExportInv, Shows, ReadOf, IsAbout
  <1>3. shown[k].classes = UNION {CountedAs(k, n) : n \in saved[r]}
    BY DEF ExportInv, Shows, Counted
  <1>4. runs[r].finished \in 1..now
    BY <1>1, <1>2 DEF ExportInv, Stands, EndedWell, EndedBadly
  <1>5. shown[k].success \in Nat
    BY <1>1, ExporterAssumption DEF Sample
  <1>6. QED
    BY <1>1, <1>2, <1>3, <1>4, <1>5

\* A run that is complete ended normally, and read all it examined.
LEMMA CompleteRun ==
    ASSUME ExportInv, NEW r \in RunIds, kind[r] # "baseline_auto",
           stage[r] \in {"done", "raised"}, runs[r].complete
    PROVE  /\ runs[r].status = Verdict(r)
           /\ \A n \in saved[r] : n.status # "UNKNOWN"
           /\ kind[r] \in {"obsolescence", "doi"} => saved[r] # {}
  <1>1. EndedWell(r, runs[r])
    BY DEF ExportInv, Stands, EndedBadly
  <1>2. runs[r].status = Verdict(r) /\ runs[r].complete = Whole(r)
    BY <1>1 DEF EndedWell
  <1>3. Whole(r)
    BY Zenon, <1>2
  <1>4. QED
    BY <1>2, <1>3 DEF Whole, Has

\* An audit that is not in FAIL ended normally, and found what its status says.
LEMMA GoodAudit ==
    ASSUME ExportInv, NEW r \in RunIds, kind[r] # "baseline_auto",
           runs[r].status \in {"PASS", "WARNING"}
    PROVE  /\ runs[r].status = Verdict(r)
           /\ \A n \in saved[r] : n.status \notin {"FAIL", "UNKNOWN"}
           /\ runs[r].status = "PASS" => \A n \in saved[r] : n.status # "WARNING"
           /\ kind[r] \in ContentKinds => saved[r] # {}
  <1>1. runs[r].status = Verdict(r)
    BY GoodHasEnded DEF EndedWell
  <1>2. QED
    BY <1>1 DEF Verdict, Has

\* With no result but those tolerated, the verdict is that of a clean run.
LEMMA CleanVerdict ==
    ASSUME NEW r \in RunIds, runs[r].status = Verdict(r),
           kind[r] \in ContentKinds => saved[r] # {},
           \A n \in saved[r] : n \in Tolerated,
           \A n \in saved[r] : n.status \notin {"FAIL", "UNKNOWN"},
           kind[r] \notin ContentKinds => \A n \in saved[r] : n.status # "WARNING"
    PROVE  CleanRun(kind[r], r)
  BY DEF CleanRun, Verdict, Has

\* Where a result that does not conform is counted.
LEMMA CountedWhere ==
    ASSUME NEW k \in Kinds, NEW n \in Rows[k], n.status # "PASS"
    PROVE  /\ k \in {"integrity", "replica_integrity"} /\ CodeClasses(n.code) # {} =>
                CodeClasses(n.code) \subseteq CountedAs(k, n)
           /\ k \in ContentKinds => CodeClasses(n.code) \subseteq CountedAs(k, n)
           /\ k \in {"bagit", "doi"} /\ n.status = "FAIL" => "invalid" \in CountedAs(k, n)
  <1>1. CASE k \in {"integrity", "replica_integrity"}
    <2>1. k \notin ContentKinds
      BY <1>1 DEF ContentKinds
    <2>2. CodeClasses(n.code) # {} => CountedAs(k, n) = CodeClasses(n.code)
      BY Zenon, <1>1, <2>1 DEF CountedAs
    <2>3. QED
      BY <2>1, <2>2 DEF ContentKinds
  <1>2. CASE k \in ContentKinds
    <2>1. k \notin {"integrity", "replica_integrity"}
      BY <1>2 DEF ContentKinds
    <2>2. CountedAs(k, n) = CodeClasses(n.code)
            \cup ({[WARNING |-> "warnings", FAIL |-> "invalid", UNKNOWN |-> "unknown"][n.status]}
                   \ {c \in {"invalid"} : k = "obsolescence"})
      BY Zenon, <1>2, <2>1 DEF CountedAs
    <2>3. QED
      BY <1>2, <2>1, <2>2
  <1>3. QED
    BY <1>1, <1>2, RowStatuses DEF Kinds, ContentKinds

\* For fixity and for replicas the time of the last success is what is watched.
LEMMA QuietFixity ==
    ASSUME ExportInv, NEW k \in {"integrity", "replica_integrity"},
           shown[k].run # NoRun, Firing(k, shown[k]) = {}
    PROVE  Conforming(k)
  <1> DEFINE s == shown[k]
             success == s.success
  <1>1. PICK r : r = s.run
    OBVIOUS
  <1>2. k \in Kinds \ {"baseline_auto"} /\ k \notin ContentKinds
    BY DEF Kinds, ContentKinds
  <1>3. /\ r \in RunIds /\ kind[r] = k /\ stage[r] \in {"done", "raised"}
        /\ runs[r].finished \in 1..now /\ s.complete = runs[r].complete
        /\ s.last = runs[r].finished /\ saved[r] \subseteq Rows[k]
        /\ s.classes = UNION {CountedAs(k, n) : n \in saved[r]}
        /\ now \in Nat /\ success \in Nat
    BY <1>1, <1>2, ShownRun
  <1>4. /\ "changed" \notin s.classes /\ "missing" \notin s.classes
        /\ k = "integrity" => "without_baseline" \notin s.classes
        /\ s.complete /\ ~TooOld(success)
    <2>1. CASE k = "integrity"
      <3>1. Firing(k, s) = (s.classes \cap {"changed", "missing", "without_baseline"})
                \cup {a \in {"incomplete"} : ~s.complete}
                \cup {a \in {"stale"} : TooOld(s.success)}
        BY <2>1 DEF Firing
      <3>2. QED
        BY <3>1
    <2>2. CASE k = "replica_integrity"
      <3>1. Firing(k, s) = (s.classes \cap {"changed", "missing"})
                \cup {a \in {"incomplete"} : ~s.complete}
                \cup {a \in {"stale"} : s.last > 0 /\ TooOld(s.success)}
        BY <2>2 DEF Firing
      <3>2. s.last > 0
        BY <1>3
      <3>3. QED
        BY <2>2, <3>1, <3>2
    <2>3. QED
      BY <2>1, <2>2
  <1>5. success # 0 /\ now - success <= Limit
    BY <1>3, <1>4, ExporterAssumption DEF TooOld
  <1>6. PICK g \in RunIds : kind[g] = k /\ runs[g].status = "PASS" /\ runs[g].finished = success
    BY <1>2, <1>5 DEF ExportInv, Shows, ReadOf, TimeOf, SuccessOf
  <1>7. CASE success >= s.last
    <2>1. \A n \in saved[g] : n \in Rows[k] /\ n.status \notin {"FAIL", "UNKNOWN", "WARNING"}
      BY <1>2, <1>6, GoodAudit DEF ExportInv, TypeOK
    <2>2. \A n \in saved[g] : n \in Tolerated
      BY <1>2, <2>1, RowStatuses
    <2>3. CleanRun(k, g)
      BY <1>2, <1>6, <2>2 DEF CleanRun
    <2>4. QED
      BY <1>5, <1>6, <1>7, <2>3 DEF Conforming
  <1>8. CASE success < s.last
    <2>1. runs[r].status = Verdict(r) /\ \A n \in saved[r] : n.status # "UNKNOWN"
      BY <1>2, <1>3, <1>4, CompleteRun
    <2>2. ASSUME NEW n \in saved[r] PROVE n.status = "PASS" /\ n \in Tolerated
      <3>1. n \in Rows[k] /\ n.status # "UNKNOWN" /\ CountedAs(k, n) \subseteq s.classes
        BY <1>3, <2>1
      <3>2. n.status # "PASS" /\ CodeClasses(n.code) # {} => CodeClasses(n.code) \subseteq s.classes
        BY <1>2, <3>1, CountedWhere
      <3>3. CASE k = "integrity"
        BY <1>4, <3>1, <3>2, <3>3, IntegrityRows
      <3>4. CASE k = "replica_integrity"
        BY <1>4, <3>1, <3>2, <3>4, ReplicaRows
      <3>5. QED
        BY <3>3, <3>4
    <2>3. CleanRun(k, r)
      BY <1>2, <1>3, <2>1, <2>2, CleanVerdict
    <2>4. now - runs[r].finished <= Limit
      BY <1>3, <1>5, <1>8, ExporterAssumption
    <2>5. QED
      BY <1>3, <2>3, <2>4 DEF Conforming
  <1>9. QED
    BY <1>3, <1>7, <1>8

\* For the others it is the run shown itself.
LEMMA QuietShown ==
    ASSUME ExportInv, NEW k \in ContentKinds, NEW r, r = shown[k].run, r # NoRun,
           ~TooOld(shown[k].last), runs[r].status = Verdict(r), saved[r] # {},
           \A n \in saved[r] : n \in Tolerated /\ n.status \notin {"FAIL", "UNKNOWN"}
    PROVE  Conforming(k)
  <1>1. k \in Kinds \ {"baseline_auto"}
    BY DEF Kinds, ContentKinds
  <1>2. /\ r \in RunIds /\ kind[r] = k /\ runs[r].finished \in 1..now
        /\ shown[k].last = runs[r].finished /\ now \in Nat
    BY <1>1, ShownRun
  <1>3. CleanRun(k, r)
    BY <1>2, CleanVerdict
  <1>4. now - runs[r].finished <= Limit
    BY <1>2, ExporterAssumption DEF TooOld
  <1>5. QED
    BY <1>2, <1>3, <1>4 DEF Conforming

LEMMA QuietContent ==
    ASSUME ExportInv, NEW k \in ContentKinds, shown[k].run # NoRun, Firing(k, shown[k]) = {}
    PROVE  Conforming(k)
  <1> DEFINE s == shown[k]
  <1>1. PICK r : r = s.run
    OBVIOUS
  <1>2. k \in Kinds \ {"baseline_auto"} /\ k \in {"bagit", "obsolescence", "doi"}
    BY DEF Kinds, ContentKinds
  <1>3. /\ r \in RunIds /\ kind[r] = k /\ stage[r] \in {"done", "raised"}
        /\ runs[r].finished \in 1..now /\ s.status = runs[r].status
        /\ s.complete = runs[r].complete
        /\ s.last = runs[r].finished /\ saved[r] \subseteq Rows[k]
        /\ s.classes = UNION {CountedAs(k, n) : n \in saved[r]}
    BY <1>1, <1>2, ShownRun
  <1>4. s.last > 0
    BY <1>3
  <1>5. ASSUME NEW n \in saved[r], n.status # "PASS"
        PROVE  /\ n \in Rows[k]
               /\ CodeClasses(n.code) \subseteq s.classes
               /\ k \in {"bagit", "doi"} /\ n.status = "FAIL" => "invalid" \in s.classes
    <2>1. n \in Rows[k] /\ CountedAs(k, n) \subseteq s.classes
      BY <1>3
    <2>2. QED
      BY <1>2, <1>5, <2>1, CountedWhere
  <1>6. CASE k = "bagit"
    <2>1. Firing(k, s) = (s.classes \cap {"invalid", "changed", "weak"})
            \cup {a \in {"none"} : s.last > 0 /\ s.classes = {}}
            \cup {a \in {"incomplete"} : s.last > 0 /\ ~s.complete}
            \cup {a \in {"stale"} : s.last > 0 /\ TooOld(s.last)}
      BY <1>6 DEF Firing
    <2>2. /\ "invalid" \notin s.classes /\ "weak" \notin s.classes /\ s.classes # {}
          /\ s.complete /\ ~TooOld(s.last)
      BY <1>4, <2>1
    <2>3. runs[r].status = Verdict(r) /\ \A n \in saved[r] : n.status # "UNKNOWN"
      BY <1>2, <1>3, <2>2, CompleteRun
    <2>4. ASSUME NEW n \in saved[r]
          PROVE  n \in Tolerated /\ n.status \notin {"FAIL", "UNKNOWN"}
      <3>1. n \in Rows["bagit"] /\ n.status # "UNKNOWN"
        BY <1>3, <1>6, <2>3
      <3>2. n.status # "PASS" => n.status # "FAIL" /\ CodeClasses(n.code) # {"weak"}
        BY <1>5, <1>6, <2>2
      <3>3. QED
        BY <3>1, <3>2, BagRows
    <2>5. saved[r] # {}
      BY <1>3, <2>2
    <2>6. QED
      BY <1>1, <2>2, <2>3, <2>4, <2>5, QuietShown
  <1>7. CASE k = "doi"
    <2>1. Firing(k, s) = (s.classes \cap {"invalid", "metadata_missing", "insecure"})
            \cup {a \in {"incomplete"} : s.last > 0 /\ ~s.complete}
            \cup {a \in {"stale"} : s.last > 0 /\ TooOld(s.last)}
      BY <1>7 DEF Firing
    <2>2. /\ "invalid" \notin s.classes /\ "insecure" \notin s.classes
          /\ s.complete /\ ~TooOld(s.last)
      BY <1>4, <2>1
    <2>3. /\ runs[r].status = Verdict(r) /\ \A n \in saved[r] : n.status # "UNKNOWN"
          /\ saved[r] # {}
      BY <1>2, <1>3, <1>7, <2>2, CompleteRun
    <2>4. ASSUME NEW n \in saved[r]
          PROVE  n \in Tolerated /\ n.status \notin {"FAIL", "UNKNOWN"}
      <3>1. n \in Rows["doi"] /\ n.status # "UNKNOWN"
        BY <1>3, <1>7, <2>3
      <3>2. n.status # "PASS" => n.status # "FAIL" /\ CodeClasses(n.code) # {"insecure"}
        BY <1>5, <1>7, <2>2
      <3>3. QED
        BY <3>1, <3>2, DoiRows
    <2>5. QED
      BY <1>1, <2>2, <2>3, <2>4, QuietShown
  <1>8. CASE k = "obsolescence" /\ s.status # "FAIL"
    <2>1. Firing(k, s) = (s.classes \cap {"risk", "unknown", "unclassified"})
            \cup {a \in {"stale"} : s.last > 0 /\ TooOld(s.last)}
      BY <1>8 DEF Firing
    <2>2. "unclassified" \notin s.classes /\ ~TooOld(s.last)
      BY <1>4, <2>1
    <2>3. runs[r].status \in {"PASS", "WARNING"}
      BY <1>3, <1>8 DEF ExportInv, Stands, EndedWell, EndedBadly, Verdict
    <2>4. /\ runs[r].status = Verdict(r) /\ saved[r] # {}
          /\ \A n \in saved[r] : n.status \notin {"FAIL", "UNKNOWN"}
      BY <1>2, <1>3, <2>3, GoodAudit
    <2>5. ASSUME NEW n \in saved[r] PROVE n \in Tolerated
      <3>1. n \in Rows["obsolescence"] /\ n.status \notin {"FAIL", "UNKNOWN"}
        BY <1>3, <1>8, <2>4
      <3>2. n.status # "PASS" => CodeClasses(n.code) # {"unclassified"}
        BY <1>5, <2>2
      <3>3. QED
        BY <3>1, <3>2, FormatRows
    <2>6. QED
      BY <1>1, <2>2, <2>4, <2>5, QuietShown
  <1>9. QED
    BY <1>2, <1>6, <1>7, <1>8 DEF Conforming

\* Silence of the alert rules about a kind of audit means that a recent run of
\* it, no older than the one shown, found nothing but what conforms or is a
\* warning without a rule (metrics.py, alerts.yml).
THEOREM QuietIsConforming == Spec => []QuietMeansConforming
  <1>1. ASSUME ExportInv, NEW k \in Kinds \ {"baseline_auto"},
               shown[k].run # NoRun, Firing(k, shown[k]) = {}
        PROVE  Conforming(k)
    <2>1. k \in {"integrity", "replica_integrity"} \/ k \in ContentKinds
      BY DEF Kinds, ContentKinds
    <2>2. QED
      BY <1>1, <2>1, QuietFixity, QuietContent
  <1>2. ExportInv => QuietMeansConforming
    BY <1>1 DEF QuietMeansConforming, Conforming, CleanRun
  <1>3. QED
    BY <1>2, ExportInvHolds, PTL
-----------------------------------------------------------------------------
(* The executions are those of the audits: what they store is accounted for. *)

LEMMA OneEntry ==
    ASSUME NEW r \in RunIds,
           \A q \in RunIds \ {r} :
              kind'[q] = kind[q] /\ runs'[q] = runs[q] /\ saved'[q] = saved[q],
           \/ Ledger!Opened(Account(r), Account(r)')
           \/ Ledger!Filled(Account(r), Account(r)')
           \/ Ledger!Closed(Account(r), Account(r)')
    PROVE  Ledger!Next
  <1>1. Book[r] = Account(r) /\ Book'[r] = Account(r)'
    BY DEF Book
  <1>2. Book' = [Book EXCEPT ![r] = Book'[r]]
    BY DEF Book, Account
  <1>3. Ledger!Write(r)
    BY <1>1, <1>2 DEF Ledger!Write
  <1>4. QED
    BY <1>3 DEF Ledger!Next

\* A job has no entry.
LEMMA JobUnaccounted ==
    ASSUME NEW r \in RunIds, Account(r)' = Account(r),
           \A q \in RunIds \ {r} :
              kind'[q] = kind[q] /\ runs'[q] = runs[q] /\ saved'[q] = saved[q]
    PROVE  UNCHANGED Book
  BY DEF Book, Account

\* The row that an audit closes is one that its results justify.
LEMMA VerdictIsJustified ==
    ASSUME NEW r, NEW e,
           e.status = Verdict(r), e.complete = Whole(r), e.rows = saved[r]
    PROVE  Ledger!Justified(e)
  <1> DEFINE found == Ledger!Found(e)
  <1>1. \A status : status \in found <=> \E n \in saved[r] : n.status = status
    BY DEF Ledger!Found
  <1>2. \A statuses : Has(r, statuses) <=> \E status \in statuses : status \in found
    BY Zenon, <1>1 DEF Has
  <1>3. e.complete <=> Whole(r)
    OBVIOUS
  <1> HIDE DEF found
  <1>4. /\ Has(r, {"UNKNOWN"}) <=> "UNKNOWN" \in found
        /\ Has(r, {"WARNING"}) <=> "WARNING" \in found
        /\ Has(r, {"FAIL", "UNKNOWN"}) <=> "FAIL" \in found \/ "UNKNOWN" \in found
    BY <1>2
  <1>5. QED
    BY <1>3, <1>4 DEF Ledger!Justified, Verdict, Whole, ContentKinds, found

\* Beginning an execution opens the entry of an audit.
LEMMA BeginningIsAccounted ==
    ASSUME ExportInv, NEW r \in RunIds, NEW k \in Kinds, CreateRun(r, k), UNCHANGED saved
    PROVE  [Ledger!Next]_Book
  <1>1. Stands(r) /\ stage[r] = "idle" /\ runs[r] = NoEnding /\ saved[r] = {}
    BY DEF ExportInv, CreateRun, GoTo, Stands
  <1>2. /\ kind'[r] = k
        /\ runs'[r].status = "RUNNING" /\ runs'[r].complete = FALSE
        /\ \A q \in RunIds \ {r} : kind'[q] = kind[q] /\ runs'[q] = runs[q]
    <2>1. runs' = [runs EXCEPT ![r] = [NoEnding EXCEPT !.status = "RUNNING"]]
      BY <1>1 DEF CreateRun
    <2>2. runs'[r] = [NoEnding EXCEPT !.status = "RUNNING"]
      BY <2>1 DEF ExportInv, TypeOK
    <2>3. runs'[r].status = "RUNNING" /\ runs'[r].complete = FALSE
      BY <2>2 DEF NoEnding
    <2>4. QED
      BY <2>1, <2>3 DEF CreateRun, ExportInv, TypeOK
  <1>3. Account(r) = [status |-> "ABSENT", complete |-> FALSE, rows |-> {}]
    BY <1>1 DEF Account, NoEnding
  <1>4. CASE k = "baseline_auto"
    <2>1. Account(r)' = [status |-> "ABSENT", complete |-> FALSE, rows |-> {}]
      BY <1>2, <1>4 DEF Account
    <2>2. QED
      BY <1>2, <1>3, <2>1, JobUnaccounted
  <1>5. CASE k # "baseline_auto"
    <2>1. Account(r)' = [status |-> "RUNNING", complete |-> FALSE, rows |-> {}]
      BY <1>1, <1>2, <1>5 DEF Account
    <2>2. Ledger!Opened(Account(r), Account(r)')
      BY <1>3, <2>1 DEF Ledger!Opened, Ledger!NoEntry
    <2>3. QED
      BY <1>2, <2>2, OneEntry
  <1>6. QED
    BY <1>4, <1>5

LEMMA SavingIsAccounted ==
    ASSUME ExportInv, NEW r \in RunIds, NEW rows, SaveRows(r, rows)
    PROVE  Ledger!Next
  <1>1. /\ kind[r] # "baseline_auto" /\ stage[r] = "work" /\ UNCHANGED <<kind, runs>>
        /\ saved' = [saved EXCEPT ![r] = rows]
    BY DEF SaveRows, GoTo
  <1>2. runs[r].status = "RUNNING" /\ saved[r] = {}
    BY <1>1 DEF ExportInv, Stands
  <1>3. saved' = [q \in RunIds |-> IF q = r THEN rows ELSE saved[q]]
    BY <1>1 DEF ExportInv
  <1>4. Ledger!Filled(Account(r), Account(r)')
    BY <1>1, <1>2 DEF Account, Ledger!Filled
  <1>5. QED
    BY <1>1, <1>3, <1>4, OneEntry

LEMMA ClosingIsAccounted ==
    ASSUME ExportInv, NEW r \in RunIds, CommitFinish(r)
    PROVE  [Ledger!Next]_Book
  <1>1. /\ stage[r] \in {"finishing", "failing"} /\ UNCHANGED <<kind, saved>>
        /\ runs' = [runs EXCEPT ![r] = ending[r]]
    BY DEF CommitFinish, GoTo
  <1>2. runs'[r] = ending[r] /\ \A q \in RunIds \ {r} : runs'[q] = runs[q]
    BY <1>1 DEF ExportInv, TypeOK
  <1>3. CASE kind[r] = "baseline_auto"
    <2>1. Account(r)' = Account(r)
      BY <1>1, <1>3 DEF Account
    <2>2. QED
      BY <1>1, <1>2, <2>1, JobUnaccounted
  <1>4. CASE kind[r] # "baseline_auto"
    <2> DEFINE f == Account(r)'
    <2>1. f.status = ending[r].status /\ f.complete = ending[r].complete /\ f.rows = saved[r]
      BY <1>1, <1>2, <1>4 DEF Account
    <2>2. Stands(r) /\ runs[r].status = "RUNNING"
      BY <1>1 DEF ExportInv, Stands
    <2>3. Account(r).status = "RUNNING" /\ Account(r).rows = saved[r]
      BY <1>4, <2>2 DEF Account
    <2> HIDE DEF f
    <2>4. ASSUME stage[r] = "finishing" PROVE Ledger!Justified(f)
      <3>1. ending[r].status = Verdict(r) /\ ending[r].complete = Whole(r)
        BY <1>4, <2>2, <2>4 DEF Stands, EndedWell
      <3>2. QED
        BY <2>1, <3>1, VerdictIsJustified
    <2>5. ASSUME stage[r] = "failing" PROVE Ledger!Justified(f)
      <3>1. ending[r].status = "FAIL" /\ ~ending[r].complete
        BY <2>2, <2>5 DEF Stands, EndedBadly
      <3>2. QED
        BY <2>1, <3>1 DEF Ledger!Justified
    <2>6. QED
      BY <1>1, <1>2, <2>1, <2>3, <2>4, <2>5, OneEntry DEF f, Ledger!Closed
  <1>5. QED
    BY <1>3, <1>4

LEMMA StepIsAccounted == ExportInv /\ [Next]_vars => [Ledger!Next]_Book
  <1> SUFFICES ASSUME ExportInv, [Next]_vars PROVE [Ledger!Next]_Book
    OBVIOUS
  <1>1. CASE UNCHANGED <<kind, runs, saved>>
    BY <1>1 DEF Book, Account
  <1>2. ASSUME NEW r \in RunIds, Execution(r) PROVE [Ledger!Next]_Book
    <2>1. ASSUME NEW k \in Kinds, Begin(r, k) PROVE [Ledger!Next]_Book
      BY <2>1, BeginningIsAccounted DEF Begin
    <2>2. ASSUME NEW c \in RunIds, BeginCheck(r, c) PROVE [Ledger!Next]_Book
      BY <2>2, BeginningIsAccounted DEF BeginCheck, Kinds
    <2>3. ASSUME NEW rows \in SUBSET Rows[kind[r]], SaveRows(r, rows) PROVE [Ledger!Next]_Book
      BY <2>3, SavingIsAccounted
    <2>4. CASE CommitFinish(r)
      BY <2>4, ClosingIsAccounted
    <2>5. CASE \/ \E created \in BOOLEAN : Register(r, created)
               \/ Finish(r) \/ Raise(r) \/ Crash(r)
      BY <1>1, <2>5 DEF Register, Finish, Raise, Crash
    <2>6. QED
      BY <1>2, <2>1, <2>2, <2>3, <2>4, <2>5 DEF Execution
  <1>3. CASE Scrape
    <2>1. \A k \in Kinds : ReadRun(k) => UNCHANGED writers
      BY Zenon DEF ReadRun
    <2>2. ReadSuccess \/ ReadRows \/ Show => UNCHANGED writers
      BY Zenon DEF ReadSuccess, ReadRows, Show
    <2>3. \A column, to : Count(column, to) => UNCHANGED writers
      BY Zenon DEF Count
    <2>4. UNCHANGED writers
      BY Zenon, <1>3, <2>1, <2>2, <2>3 DEF Scrape
    <2>5. QED
      BY <1>1, <2>4 DEF writers
  <1>4. CASE Tick \/ UNCHANGED vars
    BY <1>1, <1>4 DEF Tick, vars, writers
  <1>5. QED
    BY <1>2, <1>3, <1>4 DEF Next

\* The executions that the exporter and the rules are shown are of the kind that the
\* audits' own modules describe: a row is closed once, with a status that its results
\* justify (database.py: create_run, save_results, finish_run).
THEOREM ExecutionsAreAccounted == Spec => RunsAreAccounted
  <1>1. Init => Ledger!Init
    BY DEF Init, NoEnding, Ledger!Init, Ledger!NoEntry, Book, Account
  <1>2. QED
    BY <1>1, StepIsAccounted, ExportInvHolds, PTL DEF Spec, RunsAreAccounted, Ledger!Spec
===============================================================================
