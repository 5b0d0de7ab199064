------------------------------- MODULE Exporter -------------------------------
(***************************************************************************)
(* The metrics exporter (metrics.py, the latest_*_metrics queries of       *)
(* database.py) and the alert rules made of what it shows                  *)
(* (prometheus/alerts.yml), over executions that overlap, fail, die and    *)
(* contain one another: a registration job ends with an integrity check of *)
(* its own, which is a run beside those of the daily timer.                *)
(*                                                                         *)
(* A query method runs its SELECTs one after another outside any           *)
(* transaction: each sees the tables as they are at its own moment.        *)
(* finish_run takes finished_at first and writes the row once it has the   *)
(* database lock, so rows may appear in another order than their times.    *)
(***************************************************************************)
EXTENDS Integers, FiniteSets

CONSTANTS
    RunIds,    \* executions of the audits and jobs
    NoRun,     \* no run: nothing finished yet, or no check started
    Limit,     \* age at which an audit is stale: 25 hours to 40 days in alerts.yml
    MaxTime,   \* bound on the time explored
    Copies,    \* replicas configured: rows of evidence of each registration
    RowBound   \* bound on the results of a run, taken by their class

ASSUME ExporterAssumption ==
    /\ NoRun \notin RunIds
    /\ {Limit, Copies, RowBound} \subseteq Nat
    /\ MaxTime \in Nat \ {0}

Kinds == {"integrity", "baseline_auto", "replica_integrity", "bagit", "obsolescence", "doi"}

\* The audits whose row is PASS or WARNING only if they have results.
ContentKinds == {"bagit", "obsolescence", "doi"}

Row(status, code) == [status |-> status, code |-> code]

\* The results of each kind, by what the queries tell apart.
Rows ==
    [integrity |-> {Row("PASS", ""), Row("FAIL", "CHECKSUM_MISMATCH"),
        Row("FAIL", "FILE_MISSING"), Row("WARNING", "NO_BASELINE"),
        Row("UNKNOWN", "FILE_READ_ERROR")},
     replica_integrity |-> {Row("PASS", ""), Row("FAIL", "REPLICA_MISSING"),
        Row("FAIL", "REPLICA_SIZE_MISMATCH"),
        Row("UNKNOWN", "REPLICA_CHECK_INCONCLUSIVE")},
     bagit |-> {Row("PASS", ""), Row("WARNING", "BAG_WEAK_MANIFEST_ALGORITHM"),
        Row("WARNING", "BAG_NONSTANDARD_TAG_CONTINUATION"),
        Row("FAIL", "BAG_CHECKSUM_MISMATCH"), Row("FAIL", "BAG_PAYLOAD_MISSING"),
        Row("UNKNOWN", "BAG_READ_ERROR")},
     obsolescence |-> {Row("PASS", ""), Row("WARNING", "FORMAT_OBSOLESCENCE_WARNING"),
        Row("WARNING", "FORMAT_UNCLASSIFIED"), Row("FAIL", "FORMAT_OBSOLESCENCE_RISK"),
        Row("UNKNOWN", "FORMAT_NOT_IDENTIFIED")},
     doi |-> {Row("PASS", ""), Row("WARNING", "DOI_INSECURE_REDIRECT"),
        Row("FAIL", "DOI_METADATA_MISSING"), Row("FAIL", "DOI_REDIRECT_LIMIT"),
        Row("UNKNOWN", "DOI_LANDING_UNAVAILABLE")},
     baseline_auto |-> {}]

Classes == {"valid", "warnings", "invalid", "changed", "missing", "without_baseline",
            "errors", "weak", "risk", "unclassified", "metadata_missing", "landing_failed",
            "insecure", "unknown"}

Status == {"ABSENT", "RUNNING", "PASS", "WARNING", "FAIL"}

\* What finish_run writes; finished is 0 where the column is NULL.
Ending == [status : Status, complete : BOOLEAN, finished : 0..MaxTime]

\* What one query method returns: the run it is about, the last success, the
\* classes with a count above 0, and the two totals of the registration jobs.
Sample == [run : RunIds \cup {NoRun}, status : Status, complete : BOOLEAN,
           last : 0..MaxTime, success : 0..MaxTime, classes : SUBSET Classes,
           events : Nat, evidence : Nat]

VARIABLES
    now,       \* time; 0 is before all runs
    kind,      \* column kind of audit_runs
    runs,      \* the other columns
    saved,     \* table audit_results: the rows of each run
    tables,    \* number of rows of baseline_events, replica_verifications
    stage,     \* where each execution is
    check,     \* the integrity check a job runs
    ending,    \* what its finish_run is about to write
    step,      \* the next SELECT of the query in progress
    query,     \* the kind it is about
    sample,    \* what it has read so far
    shown      \* the last sample of each kind that was scraped

writers == <<kind, runs, saved, tables, stage, check, ending>>
reader == <<step, query, sample, shown>>
vars == <<now, writers, reader>>

TypeOK ==
    /\ now \in 1..MaxTime
    /\ kind \in [RunIds -> Kinds]
    /\ runs \in [RunIds -> Ending]
    /\ \A r \in RunIds : saved[r] \subseteq Rows[kind[r]]
    /\ tables \in [events : Nat, evidence : Nat]
    /\ stage \in [RunIds -> {"idle", "work", "registered", "saved", "finishing",
                             "failing", "done", "raised", "dead"}]
    /\ check \in [RunIds -> RunIds \cup {NoRun}]
    /\ ending \in [RunIds -> Ending]
    /\ step \in {"idle", "success", "events", "evidence", "rows", "show"}
    /\ query \in Kinds
    /\ sample \in Sample
    /\ shown \in [Kinds -> Sample]

NoEnding == [status |-> "ABSENT", complete |-> FALSE, finished |-> 0]

\* A sample of a kind no run of which has finished.
Nothing == [run |-> NoRun, status |-> "ABSENT", complete |-> FALSE, last |-> 0,
            success |-> 0, classes |-> {}, events |-> 0, evidence |-> 0]

Init ==
    /\ now = 1
    /\ kind = [r \in RunIds |-> "integrity"]
    /\ runs = [r \in RunIds |-> NoEnding]
    /\ saved = [r \in RunIds |-> {}]
    /\ tables = [events |-> 0, evidence |-> 0]
    /\ stage = [r \in RunIds |-> "idle"]
    /\ check = [r \in RunIds |-> NoRun]
    /\ ending = [r \in RunIds |-> NoEnding]
    /\ step = "idle"
    /\ query = "integrity"
    /\ sample = Nothing
    /\ shown = [k \in Kinds |-> Nothing]

GoTo(r, from, to) == stage[r] = from /\ stage' = [stage EXCEPT ![r] = to]

-----------------------------------------------------------------------------
(* Executions.                                                             *)

CreateRun(r, k) ==
    /\ GoTo(r, "idle", "work")
    /\ kind' = [kind EXCEPT ![r] = k]
    /\ runs' = [runs EXCEPT ![r].status = "RUNNING"]

\* An audit, a check or a job is started by a timer, an operator, the collector.
Begin(r, k) ==
    /\ CreateRun(r, k)
    /\ UNCHANGED <<now, saved, tables, check, ending, reader>>

\* A job registers its receipt (one transaction), or confirms one it had.
Register(j, created) ==
    /\ kind[j] = "baseline_auto"
    /\ GoTo(j, "work", "registered")
    /\ tables' = IF created
                 THEN [events |-> tables.events + 1, evidence |-> tables.evidence + Copies]
                 ELSE tables
    /\ UNCHANGED <<now, kind, runs, saved, check, ending, reader>>

\* It goes on with an integrity check, in the same process.
BeginCheck(j, r) ==
    /\ stage[j] = "registered"
    /\ check[j] = NoRun
    /\ CreateRun(r, "integrity")
    /\ check' = [check EXCEPT ![j] = r]
    /\ UNCHANGED <<now, saved, tables, ending, reader>>

SaveRows(r, rows) ==
    /\ kind[r] # "baseline_auto"
    /\ GoTo(r, "work", "saved")
    /\ saved' = [saved EXCEPT ![r] = rows]
    /\ UNCHANGED <<now, kind, runs, tables, check, ending, reader>>

Has(r, statuses) == \E n \in saved[r] : n.status \in statuses

\* The verdict of an audit; that of replicas has no warnings.
Verdict(r) ==
    IF Has(r, {"FAIL", "UNKNOWN"}) \/ (kind[r] \in ContentKinds /\ saved[r] = {}) THEN "FAIL"
    ELSE IF Has(r, {"WARNING"}) THEN "WARNING" ELSE "PASS"

\* Mutation: a job is content with a check that failed nothing.
JobVerdictUnlessFailed(c) == IF Has(c, {"FAIL", "UNKNOWN"}) THEN "WARNING" ELSE "PASS"

\* The verdict of a job on the results of its check.
JobVerdict(c) == IF Has(c, {"FAIL", "UNKNOWN", "WARNING"}) THEN "WARNING" ELSE "PASS"

\* scan_complete: two of the audits want results.
Whole(r) == ~Has(r, {"UNKNOWN"}) /\ (kind[r] \in {"obsolescence", "doi"} => saved[r] # {})

EndingNow(status, whole) == [status |-> status, complete |-> whole, finished |-> now]

\* finish_run has taken the time and waits for the database.
Finish(r) ==
    /\ \/ /\ GoTo(r, "saved", "finishing")
          /\ ending' = [ending EXCEPT ![r] =
                EndingNow(Verdict(r), Whole(r))]
       \/ /\ check[r] # NoRun
          /\ stage[check[r]] = "done"
          /\ GoTo(r, "registered", "finishing")
          /\ ending' = [ending EXCEPT ![r] =
                EndingNow(JobVerdict(check[r]), Whole(check[r]))]
    /\ UNCHANGED <<now, kind, runs, saved, tables, check, reader>>

\* A job may raise before its check, or because the check has; not for the
\* database's errors, which it does not catch.
MayRaise(r) ==
    \/ stage[r] = "work"
    \/ stage[r] \in {"saved", "finishing"} /\ kind[r] # "baseline_auto"
    \/ stage[r] = "registered" /\ \A c \in RunIds : check[r] = c => stage[c] = "raised"

\* Mutation: a run that raised counts as complete.
FailedEndingWhole == EndingNow("FAIL", TRUE)

FailedEnding == EndingNow("FAIL", FALSE)

Raise(r) ==
    /\ MayRaise(r)
    /\ stage' = [stage EXCEPT ![r] = "failing"]
    /\ ending' = [ending EXCEPT ![r] = FailedEnding]
    /\ UNCHANGED <<now, kind, runs, saved, tables, check, reader>>

CommitFinish(r) ==
    /\ GoTo(r, "finishing", "done") \/ GoTo(r, "failing", "raised")
    /\ runs' = [runs EXCEPT ![r] = ending[r]]
    /\ UNCHANGED <<now, kind, saved, tables, check, ending, reader>>

Ended == {"idle", "done", "raised", "dead"}

\* The process dies: a job with its check, a check with its job.
Crash(r) ==
    /\ stage[r] \notin Ended
    /\ stage' = [q \in RunIds |->
          IF stage[q] \notin Ended /\ (q = r \/ q = check[r] \/ r = check[q])
          THEN "dead" ELSE stage[q]]
    /\ UNCHANGED <<now, kind, runs, saved, tables, check, ending, reader>>

Execution(r) ==
    \/ \E k \in Kinds : Begin(r, k)
    \/ \E created \in BOOLEAN : Register(r, created)
    \/ \E c \in RunIds : BeginCheck(r, c)
    \/ \E rows \in SUBSET Rows[kind[r]] : Cardinality(rows) <= RowBound /\ SaveRows(r, rows)
    \/ Finish(r) \/ Raise(r) \/ CommitFinish(r) \/ Crash(r)

-----------------------------------------------------------------------------
(* The exporter.                                                           *)

Finished(statuses) ==
    {r \in RunIds : kind[r] = query' /\ runs[r].status \in statuses /\ runs[r].finished # 0}

\* Mutation: without ORDER BY.
LatestUnordered(some) == some

Latest(some) == {r \in some : \A q \in some : runs[q].finished <= runs[r].finished}

\* The statuses that count as a success, by kind.
Success ==
    IF query \in {"integrity", "replica_integrity"} THEN {"PASS"} ELSE {"PASS", "WARNING"}

ReadRun(k) ==
    /\ step = "idle" /\ step' = "success"
    /\ query' = k
    /\ LET ended == Finished({"PASS", "WARNING", "FAIL"}) IN
       IF ended = {} THEN sample' = Nothing
       ELSE \E r \in Latest(ended) :
                sample' = [Nothing EXCEPT !.run = r, !.status = runs[r].status,
                              !.complete = runs[r].complete, !.last = runs[r].finished]
    /\ UNCHANGED <<now, writers, shown>>

AfterSuccess ==
    CASE query = "baseline_auto" -> "events"
      [] query # "baseline_auto" /\ sample.run = NoRun -> "show"
      [] OTHER -> "rows"

ReadSuccess ==
    /\ step = "success" /\ step' = AfterSuccess
    /\ UNCHANGED query
    /\ LET good == Finished(Success) IN
       IF good = {} THEN UNCHANGED sample
       ELSE \E r \in Latest(good) : sample' = [sample EXCEPT !.success = runs[r].finished]
    /\ UNCHANGED <<now, writers, shown>>

\* Mutation: the evidence is counted before the events.
CountOther(column, to) ==
    LET other == IF column = "events" THEN "evidence" ELSE "events" IN
    /\ step = column /\ step' = to
    /\ sample' = [sample EXCEPT ![other] = tables[other]]
    /\ UNCHANGED <<now, writers, query, shown>>

\* The totals of the registration jobs: events first, then evidence.
Count(column, to) ==
    /\ step = column /\ step' = to
    /\ sample' = [sample EXCEPT ![column] = tables[column]]
    /\ UNCHANGED <<now, writers, query, shown>>

\* Mutation: results are counted under their codes.
ClassesByCode(n) == IF n.status = "PASS" THEN {"valid"} ELSE {n.code}

\* What a code is counted as, beside its status.
CodeClasses(code) ==
    CASE code \in {"FILE_MISSING", "REPLICA_MISSING", "BAG_PAYLOAD_MISSING"} -> {"missing"}
      [] code \in {"CHECKSUM_MISMATCH", "REPLICA_SIZE_MISMATCH", "BAG_CHECKSUM_MISMATCH"} ->
            {"changed"}
      [] code = "NO_BASELINE" -> {"without_baseline"}
      [] code = "FILE_READ_ERROR" -> {"errors"}
      [] code = "BAG_WEAK_MANIFEST_ALGORITHM" -> {"weak"}
      [] code = "FORMAT_OBSOLESCENCE_RISK" -> {"risk"}
      [] code = "FORMAT_UNCLASSIFIED" -> {"unclassified"}
      [] code = "DOI_METADATA_MISSING" -> {"metadata_missing"}
      [] code = "DOI_REDIRECT_LIMIT" -> {"landing_failed"}
      [] code = "DOI_INSECURE_REDIRECT" -> {"insecure"}
      [] OTHER -> {}

\* Where a result is counted.
ClassesOf(n) ==
    CASE n.status = "PASS" -> {"valid"}
      [] n.status # "PASS" /\ query \in {"integrity", "replica_integrity"} ->
            IF CodeClasses(n.code) = {} THEN {"unknown"} ELSE CodeClasses(n.code)
      [] n.status # "PASS" /\ query \in ContentKinds ->
            CodeClasses(n.code)
            \cup ({[WARNING |-> "warnings", FAIL |-> "invalid", UNKNOWN |-> "unknown"][n.status]}
                   \ {c \in {"invalid"} : query = "obsolescence"})

ReadRows ==
    /\ step = "rows" /\ step' = "show"
    /\ sample' = [sample EXCEPT !.classes = UNION {ClassesOf(n) : n \in saved[sample.run]}]
    /\ UNCHANGED <<now, writers, query, shown>>

Show ==
    /\ step = "show" /\ step' = "idle"
    /\ shown' = [shown EXCEPT ![query] = sample]
    /\ sample' = Nothing
    /\ query' = "integrity"
    /\ UNCHANGED <<now, writers>>

Scrape ==
    \/ \E k \in Kinds : ReadRun(k)
    \/ ReadSuccess \/ ReadRows \/ Show
    \/ Count("events", "evidence") \/ Count("evidence", "show")

Tick ==
    /\ now < MaxTime
    /\ now' = now + 1
    /\ UNCHANGED <<writers, reader>>

Next == Tick \/ Scrape \/ \E r \in RunIds : Execution(r)

Spec == Init /\ [][Next]_vars

-----------------------------------------------------------------------------
(* The alert rules, for a sample that was scraped.                         *)

\* A timestamp of 0 is 1970.
TooOld(time) == time = 0 \/ now - time > Limit

\* No metric, no alert: before a check has finished only baselines_total is
\* there.  The metrics of the other kinds are 0.
Firing(k, s) ==
    CASE k = "integrity" /\ s.run = NoRun -> {}
      [] k = "integrity" /\ s.run # NoRun ->
            (s.classes \cap {"changed", "missing", "without_baseline"})
            \cup {a \in {"incomplete"} : ~s.complete}
            \cup {a \in {"stale"} : TooOld(s.success)}
      [] k = "replica_integrity" ->
            (s.classes \cap {"changed", "missing"})
            \cup {a \in {"incomplete"} : ~s.complete}
            \cup {a \in {"stale"} : s.last > 0 /\ TooOld(s.success)}
      [] k = "bagit" ->
            (s.classes \cap {"invalid", "changed", "weak"})
            \cup {a \in {"none"} : s.last > 0 /\ s.classes = {}}
            \cup {a \in {"incomplete"} : s.last > 0 /\ ~s.complete}
            \cup {a \in {"stale"} : s.last > 0 /\ TooOld(s.last)}
      [] k = "obsolescence" ->
            (s.classes \cap {"risk", "unknown", "unclassified"})
            \cup {a \in {"stale"} : s.last > 0 /\ TooOld(s.last)}
      [] k = "doi" ->
            (s.classes \cap {"invalid", "metadata_missing", "insecure"})
            \cup {a \in {"incomplete"} : s.last > 0 /\ ~s.complete}
            \cup {a \in {"stale"} : s.last > 0 /\ TooOld(s.last)}
      [] k = "baseline_auto" ->
            {a \in {"failed"} : s.last > 0 /\ s.status \notin {"PASS", "WARNING"}}

-----------------------------------------------------------------------------
\* What an audit may find without an alert being made of it.
Tolerated ==
    {Row("PASS", ""), Row("WARNING", "BAG_NONSTANDARD_TAG_CONTINUATION"),
     Row("WARNING", "FORMAT_OBSOLESCENCE_WARNING")}

\* When a run is shown and no alert about it fires, a run of its kind that
\* ended no earlier, and not too long ago, found nothing but what conforms or
\* is a warning without an alert: silence is not an effect of a run that raised,
\* of a result counted nowhere, of an audit that found nothing to examine or of
\* a success older than the run shown (alerts.yml).  The formats' audit is the
\* exception: no rule is about a run that failed without results at risk.
QuietMeansConforming ==
    \A k \in Kinds \ {"baseline_auto"} :
        shown[k].run # NoRun /\ Firing(k, shown[k]) = {} =>
            \/ k = "obsolescence" /\ shown[k].status = "FAIL"
            \/ \E r \in RunIds :
                /\ kind[r] = k
                /\ runs[r].status \in IF k \in ContentKinds THEN {"PASS", "WARNING"} ELSE {"PASS"}
                /\ runs[r].finished >= shown[k].last
                /\ now - runs[r].finished <= Limit
                /\ \A n \in saved[r] : n \in Tolerated
                /\ k \in ContentKinds => saved[r] # {}

\* Rows that are committed in another order than their times, failures and
\* crashes never make what is shown older.
NeverShownOlder ==
    [][\A k \in Kinds : shown'[k].last >= shown[k].last
                        /\ shown'[k].success >= shown[k].success]_vars

\* A job in PASS has had a check of its own that is in PASS and ended first; a
\* job in WARNING, a check that ended well but is not in PASS
\* (auto_baseline.py:267-277).
JobFollowsItsCheck ==
    \A j \in RunIds :
        kind[j] = "baseline_auto" /\ runs[j].status \in {"PASS", "WARNING"} =>
            /\ check[j] # NoRun
            /\ stage[check[j]] = "done"
            /\ runs[check[j]].finished <= runs[j].finished
            /\ runs[j].status = "PASS" <=> runs[check[j]].status = "PASS"

\* The two totals are read one after the other while jobs register: evidence is
\* never shown to fall short of the baselines registered (metrics.py:21-22).
EvidenceNotBehind ==
    shown["baseline_auto"].evidence >= Copies * shown["baseline_auto"].events

\* What an audit has stored; a job has no results, and its row follows a check's.
Account(r) ==
    IF kind[r] = "baseline_auto"
    THEN [status |-> "ABSENT", complete |-> FALSE, rows |-> {}]
    ELSE [status |-> runs[r].status, complete |-> runs[r].complete, rows |-> saved[r]]

Book == [r \in RunIds |-> Account(r)]

Ledger == INSTANCE RunLedger WITH Runs <- RunIds, ledger <- Book

\* The executions of this module store what RunLedger says, as those of the
\* modules of the audits do: the exporter is shown audits that exist.
RunsAreAccounted == Ledger!Spec

===============================================================================
