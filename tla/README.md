# A formal model of preservation-auditor

TLA+ modules that model the preservation auditor, TLC configurations that check
them on small instances, and theorems about them checked by TLAPS. Source
references are to the repository (`src/preservation_auditor/…`, `README.md`,
`prometheus/…`, `systemd/…`); in `PROJECT.json` they carry the prefix `src/`.

## 1. The system

The auditor watches over a store of archival packages (AIPs). Short-lived
processes started by systemd timers, by operators and by each other share one
SQLite database, the directory of the AIPs, an inbox of signed receipts and three
S3 replicas. No process waits for another: the only lock is the collector's.

| Component | State it keeps | Operations | Interacts with |
|---|---|---|---|
| Audit store (`database.py`) | baselines, completion events, replica evidence, runs, results | one transaction per method | every other component |
| Automatic baseline (`auto_baseline.py`) | its receipt, `already_registered`, evidence collected so far | verify receipt, hash file, HEAD each replica, register in one transaction, run a full check, finish the run | store, AIP tree, replicas, integrity check |
| Replica verification (`replicas.py`) | none | judge one HEAD answer | automatic baseline, replica audit |
| Integrity check (`integrity.py: check`) | files found, baselines read, results so far | walk, read baselines, hash, save results, finish the run | store, AIP tree |
| Baseline command (`integrity.py: create_baseline`) | files found, counters | walk, hash, insert if absent | store, AIP tree |
| Archivematica collector (`archivematica.py`) | lock, inbox | query, build and publish receipts, run the job | Storage Service, inbox, automatic baseline |
| Replica audit (`replica_audit.py`) | results so far | HEAD every registered replica | store, replicas |
| Exporter and alert rules (`metrics.py`, `prometheus/alerts.yml`) | none | show the last finished run of each kind | store |
| BagIt audit (`bagit.py`) | walk, package at hand, its files and errors, results so far | discover packages; list, read tags, read a manifest, hash, read the tag manifest of each | store, AIP tree |
| DOI audit (`doi_audit.py`) | DOIs read, the chain of redirections of each thread, results | read pages, follow landing pages in a pool of threads, judge each DOI | store, DataCite, web |
| Obsolescence audit (`obsolescence.py`) | temporary report, results | load the policy, run Siegfried or take a report, rate each payload | store, Siegfried |
| Command line, audit log, result types | none | dispatch, output | all |

### Hard behaviours

- *Interleaving.* A job holds no transaction between its lookup of an event and
  its registration; a file is hashed minutes before its row is written; a check
  lists files, then reads baselines, then hashes.
- *Crashes.* A process may die between any two accesses to something shared. A
  published receipt may not be registered; a registration may not be checked; a
  run may stay `RUNNING`.
- *Partial failure.* One replica of three, one file, one directory or one package
  fails and the others do not.
- *Stale views.* Receipts outlive the record they were built from; results
  outlive the files they describe; a page of DOIs is a slice of a register that
  has moved when the next is asked for; the exporter shows what finished last.
- *Retries.* The collector returns every minute to what is still pending.

`PROJECT.json` lists them one by one under `hazards`, at the line where each
bites, with the properties that would catch it.

### What makes each component correct

| Component | Correct when |
|---|---|
| Audit store, automatic baseline | an entry of the registry appears whole, once, from one trusted receipt, and never changes; a run that reports success is registered; of concurrent jobs one believes it registered |
| Replica verification | evidence agrees with the baseline and the configuration's demands |
| Integrity check | PASS was earned by every baseline; a mismatch was real; "missing" has an explanation; the run's row and its results agree |
| Baseline command | first writer wins; a row is a content the file held; exit status 0 leaves nothing out |
| Collector | the registry follows the inbox; exit status 0 is earned; what becomes and stays sound is registered |
| Replica audit | PASS was earned by every registered replica; an alarm was real; every replica has its own result |
| Exporter and alert rules | silence means a recent conforming run; what is shown never grows older; a job's verdict follows its check's |
| BagIt audit | a package that passes was verified by its best manifest; what is said against one was so; none that could be found is passed over |
| DOI audit | requests stay within the allowed hosts and the limit; a verdict is what was asked and answered; no DOI and no result is lost; it ends |
| Obsolescence audit | a rating is the first rule for what Siegfried said; success covers the payload of every archive that could be read; no temporary report stays |
| All three | row, results and exit status of an execution agree |

## 2. The modules

```
AuditStore ── ReplicaCheck ─┬─ AutoBaseline ─┬─ AutoBaselineProofs
     │                      │                └─ implements SealedRegistry
     │                      └─ ReplicaAudit ─── AutoBaselineProofs
     └─ TreeWalk ─┬─ IntegrityCheck ── IntegrityCheckProofs
                  └─ ManualBaseline ── IntegrityCheckProofs
Collector ── CollectorProofs (the job and the registry as what AutoBaseline and SealedRegistry promise)
AuditRun ─┬─ BagAudit ──────────────── BagAuditProofs
          ├─ DoiLanding ── DoiAudit ── DoiAuditProofs
          ├─ Obsolescence ──────────── ObsolescenceProofs
          └─ AuditRunProofs (which the three proof modules extend)
Exporter ── ExporterProofs (executions of all six kinds as the runs and results they store)
IntegrityCheck, ReplicaAudit, BagAudit, DoiAudit, Obsolescence, Exporter ── implement RunLedger
```

`MC*.tla` hold the small instances and nothing else. Definitions whose comment
begins with *Mutation* are plausible bugs: no specification uses them. Each
property is known to be able to fail because TLC finds it violated when a
mutation stands in for the definition it imitates (`mutants` in `PROJECT.json`).

**AuditStore** (`database.py`). The tables are sets of rows, so that PRIMARY
KEY, UNIQUE and REFERENCES have to be shown, not assumed. Each method opens a
connection, runs one transaction and closes it, so each is one atomic operator
that the jobs' actions conjoin: `create_run`, `finish_run`, `add_baseline`,
`baseline_event_exists`, `automatic_baseline_matches`. `add_automatic_baseline`
has three outcomes: `Register`, `RegistrationIgnored` (returns False) and
`RegistrationRaises` (IntegrityError, all of it rolled back). `pc`, the next step of
each execution, and `GoTo` are declared here for all the modules that write the store.
`resource_id` is the SHA-256 of the path, which stands for it. `byHand` is an observer.

**ReplicaCheck** (`verify_replicas`). `Accepts` judges the answer of one HEAD
request; `EvidenceFor` is the row made of an accepted one. An answer has no size
(`NoSize`) when nothing was found, and also when an object was found and the header
Content-Length is missing (`replicas.py:254-256`): `verify_replicas` takes that for
another size.

**AutoBaseline** (`AutoBaselineJob.run`). One job for each element of `RunIds`.

| `pc` | code | actions |
|---|---|---|
| `idle` | 189 create_run | `Start` |
| `load` | 199-210 receipt, age, lookup | `Load`, `RejectReceipt` |
| `hash` | 212-231 | `HashFile`, `RejectFile` |
| `verify` | 233-241, one request at a time | `HeadReplica`, `RejectReplica` |
| `commit` | 243-265 | `ConfirmRepeat`, `RejectConflict`, `Commit`, `RejectTaken`, `RaiseAtCommit` |
| `check` | 267-277 | `Finish`, `CheckRaises` |
| `fail` | 304-320 | `Fail` |
| any | the process is killed, or a transaction raises what nothing catches | `Crash` |

Around the jobs, files change at will (`FileChanges`) and the baseline command
inserts contents it hashed at any earlier time (`BaselineCommand`). A receipt is
in `Trusted` when its signature and fields are valid; one that is not is only
ever refused, and a valid one may be refused for its age.

**SealedRegistry** is what the registry promises an auditor: a set of entries to
which whole entries are added, one for a path and one for an event, each with one
copy of the right size in every replica or, if made by hand, with none.
`RegistryIsSealed` says that the three tables, joined, implement it.

**RunLedger** is what the rows of `audit_runs` and `audit_results` promise the exporter
and the alert rules, whichever audit writes them: an execution opens its row, stores its
results in one transaction at most, and closes its row at most once, with a status and a
`scan_complete` that the results stored by then justify; neither changes afterwards, and
an execution that dies leaves its row open for ever. The modules of the check and
of the audits state that they implement it (`RunIsAccounted`; `Book` is the refinement
mapping), and so does `Exporter` of the executions it shows (`RunsAreAccounted`, where
jobs, which have no results, have no entry): it reduces the audits to what they store,
and both sides of that reduction are held to one specification. All six statements
are proved; TLC checks it of the check and of `Exporter`, which write or show a row
beside other writers.

**TreeWalk** (`iter_files`). Files live in directories that lose and regain their
permissions; a walk lists one directory per step. A directory that cannot be
listed contributes nothing (`os.walk` is given no `onerror`); an error while
examining a name ends the walk with what was found (`WalkAborts`). The tree of
directories is flat: a parent that cannot be listed hides its children, which is
the same as all of them being unreadable. What changes inside the listing of a
single directory is not modelled.

**IntegrityCheck** (`IntegrityAuditor.check`): `Start`, `Walk`, `ReadBaselines`,
`CheckFile` for each file, `SaveResults`, `FinishCheck`, and the error path
`CheckRaises`, `FailCheck`. `Judgement` is the set of results a file may get: a
read error is possible on any file that is opened.

**ManualBaseline** (`IntegrityAuditor.create_baseline`, exit status in `cli.py`):
`StartCommand`, `CommandWalk`, `WalkEnds`, then for each file `HashFile` and `Insert`,
or `ReadFails` (counted), or `ChangesDuringHash` (ends the command); `End`. The
world moves by `TreeChanges`, `DirectoryChanges` and `ReceiptRegistered`.

**Collector** (`archivematica.py`). Processes take the lock, visit every package,
build a receipt from the current record, publish it with `os.link`, and run the
job, which is reduced to its lookup and its transaction. The Storage Service, the
AIP store, operators and the baseline command act meanwhile. An entry of the
registry is one value set once: that is what `Refinement` (section 5) proves of
the tables.

**ReplicaAudit** (`ReplicaAuditor.check`): `StartAudit`, `LoadTargets`,
`ReadRegistered`, then for each registered replica `AskReplica` or
`ConfigMismatch`, `SaveResults`, `FinishAudit`, and the error path `AuditRaises`,
`FailAudit`. `Replies` is what `head_object` may make of an object: a request may fail
at any time, and the replicas in `Sizeless` may answer without a Content-Length.
`Judgement` is `verify_replicas` followed by `_error_code`. The environment changes
objects and the configuration and registers receipts. `bucketAt` is the column `bucket` of the evidence, which no
other component reads. `object` is what a key holds in the bucket registered for
it, the only one an audit asks.

**AuditRun** (`check` of `bagit.py`, `obsolescence.py` and `doi_audit.py`, which
have one shape): a row is created (`StartRun`), results are gathered in memory by
the module that extends this one, saved in one transaction (`SaveResults`) and
summed up (`FinishRun`, `Verdict`); any exception leads to `FailRun`, which may
raise as well, and the process may be killed (`Crash`). `ExitStatus` is what
`cli.py` makes of the result. Unlike the integrity check, these audits call a run
without results a failure.

**BagAudit** (`BagItAuditor.check`, `discover_bags`, `validate_bag`, `BagReader`).

| `step` | code (`bagit.py`) | actions |
|---|---|---|
| `walk` | `discover_bags` | `ListDirectory`, `Examine`, `DiscoveryEnds`, `RootMissing` |
| `list` | `BagReader.files`, links and unsafe names | `ListFiles` |
| `tags` | `bagit.txt`, `bag-info.txt` | `ReadTags` |
| `manifest` | choice and parsing of the payload manifest, sizes, coverage | `ReadManifest` |
| `digest` | one hash at a time | `Digest`, `DigestFails`, `DigestsEnd` |
| `tag manifest` | | `ReadTagManifest` |
| any of these | a metadata file that cannot be read; `zlib.error` | `MetadataUnreadable`, `DecompressionRaises` |

Each file and each package may change, vanish or break between any two of these
steps, and directories lose and regain their permissions. What a package is made
of (`structure`) does not change during an audit; its payload does. A weak algorithm is
reported wherever it is declared, in a tag manifest as well (`weakTags`). Parsing is
reduced to its outcomes, and an archive holds one bag, at its root.

**DoiLanding** (`_fetch_landing`, `audit_doi`): where a chain of
redirections stands (`Chain`), which URL may be asked (`Allowed`), what a
redirection makes of it (`Followed`) and what is said of the DOI when it ends.
**DoiAudit** (`DoiAuditor.check`, `iter_datacite_dois`): `FetchPage` takes a slice of a
register that changes between pages, `TakeTask`, `Redirected`, `Answered`, `StopAt`
and `Broken` are the steps of the threads, one request each, and `PoolEnds` is the
end of `with ThreadPoolExecutor`. The service is taken to state `totalPages`
truthfully, as the code takes it (`doi_audit.py:113-116`).

**Obsolescence** (`ObsolescenceAuditor.check`, `generate_siegfried_report`, `classify_record`,
`load_policy`): `LoadPolicy`, then either the operator's report or a temporary one
that Siegfried (external) writes file by file (`BeginReport`, `Identify`,
`EndReport`, `SiegfriedFails`), `LoadReport`, the steps of `AuditRun`, and
`Cleanup`. A file is what Siegfried says of it. An archive is listed before its members,
and the members of one that Siegfried could not read may be missing from the report
(`Unread`): all that is left of it then is its own record, with the error, which
`Classified` passes over as the code does (`_payload_path` has no path for it).

**Exporter** (`metrics.py`, the queries of `database.py`, `alerts.yml`). Writers are
executions of any of the six kinds reduced to what they store: `Begin`, `SaveRows`,
`Finish` (the time is taken) and `CommitFinish` (the row is written), or `Raise`, or
`Crash`; a job is `Begin`, `Register`, `BeginCheck`, `Finish`. The reader takes one
SELECT per step: `ReadRun`, `ReadSuccess`, then `Count` twice or `ReadRows`, then
`Show`. Results are kept by class, which is all that alerts look at; a class is
above 0 or not. `Firing` is the set of alerts whose expression holds of a sample;
how long an expression must hold (`for:`) is left out. The kinds are scraped in any
order, one per sample, because no alert compares two of them.

## 3. What the runs check

| Run | Instance | Properties | Shows |
|---|---|---|---|
| `auto_baseline` | 2 jobs, 1 file, 2 spellings of its path, 2 checksums, 4 receipts that repeat each other, share an event or a path, or are not trusted | `TypeOK`, `RegistrationIsWhole`, `RegisteredAsReceived`, `EvidenceAgrees`, `OkRunIsRegistered`, `CreatedOnce`, `RegistryIsSealed` | no interleaving, crash or replaced file leaves a partial, mixed or changed entry; one winner |
| `integrity_check` | 1 check, 2 files in 2 directories, 2 contents, a second spelling of a path | `TypeOK`, `PassMeansVerified`, `AlarmIsReal`, `CompleteMeansCovered`, `RunIsAccounted` | what verdicts and results mean, what a complete scan covers, no result twice, and rows that tell of their results |
| `manual_baseline` | 2 executions, 1 file, 4 contents, a receipt | `CommandTypeOK`, `BaselineWasHeld`, `FirstWriterWins`, `CleanMeansRegistered` | one author for each baseline; no mixed content; status 0 is earned |
| `collector` | 2 packages, 2 versions of the record, 1 crash | `TypeOK`, `RegisteredFromInbox`, `CleanExitMeansRegistered`, `EventuallyRegistered` | the registry follows the inbox; status 0 is earned; one package's errors do not hold back another |
| `replica_audit` | 1 audit, 2 replicas one of which demands checksum metadata, 2 buckets, 1 receipt | `AuditTypeOK`, `PassMeansHeld`, `AlarmIsReal`, `EachHasItsResult` | what PASS and each alarm mean; no answer hides another |
| `exporter` | 2 executions of any of 6 kinds, 3 instants | `TypeOK`, `QuietMeansConforming`, `JobFollowsItsCheck`, `EvidenceNotBehind`, `NeverShownOlder`, `RunsAreAccounted` | silence of the alerts means a recent conforming run; what is shown never grows older |
| `bag_audit` | an archive and a directory, 2 files each, 15 ways a package may be made | `TypeOK`, `PassMeansVerified`, `AlarmIsReal`, `NothingOverlooked` | what each verdict and error means while packages change, and what a complete scan covers |
| `doi_audit` | 3 DOIs, pages of 1, 2 threads, 2 redirections | `ChainIsSafe`, `NothingLost`, `AuditEnds` | where requests go, which DOIs are read, that no result is lost, and that the audit ends |
| `obsolescence` | an archive with 2 payload files, 2 formats, 2 policies | `RatedByFirstRule`, `PayloadCovered`, `ReportRemoved` | what ratings rest on, what a successful run covers, and who removes the temporary report |

Three more runs check what a document says and the code does not do; TLC finds
each violated.

| Run | The document says | What happens |
|---|---|---|
| `auto_baseline_replay` | `README.md:74` repeated receipts are idempotent | of two concurrent jobs for one receipt, the one that looked the event up before the other committed fails with `baseline_already_exists` |
| `collector_pending` | `README.md:104` no AIP is pending for ever | the receipt published earlier conflicts with the one built from a record that changed |
| `bag_corrupt` | `metrics.py:42` the total is the packages discovered | a damaged member of one archive raises `zlib.error`, which ends the audit of all of them: no result, a total of 0 |

### What the models show the documents do not say

The properties are worded so as to hold, and these are the exceptions they name
or leave room for:

- A job whose check raises after its commit is FAIL although it registered
  (`metrics.py:23` and `alerts.yml:56` read otherwise); `OkRunIsRegistered` speaks
  of successful runs only.
- `FILE_MISSING` (`alerts.yml:19`, the file is absent) is also said of a file that
  arrived and was registered between the walk and the query, of a second spelling
  of a path and of what is in a directory that cannot be listed: the disjuncts of
  `AlarmIsReal`.
- A replica that answers without a Content-Length is reported changed
  (`replicas.py:310-314`) though its object may be as registered (`metrics.py:34`,
  size or checksum differs), where one that answers without the checksum demanded is
  inconclusive: `AlarmIsReal` of `ReplicaAudit` excepts the replicas in `Sizeless`.
- A directory that cannot be listed is skipped in silence, so that a scan that
  counts as complete (`metrics.py:15`, `README.md:185`) covers what could be listed:
  the premise of `CompleteMeansCovered`, and of `NothingOverlooked` for packages.
- The payload of an archive that Siegfried cannot read has no result, not even an
  inconclusive one (`obsolescence.py:118-120`), and the run may be PASS and complete
  (`metrics.py:67`, all payloads were identified): the premise `Readable` of
  `PayloadCovered`.
- While no check has ever finished, the metric of the stale-check alert
  (`alerts.yml:47`) is absent and the alert stays silent; and no rule is about an
  audit of formats that fails without a file at risk: `QuietMeansConforming`
  leaves both out.
- `metadata_missing` (`metrics.py:80`) does not count a DOI whose landing page did
  not answer, since its result is UNKNOWN.
- The alert on weak manifests fires for packages that also have a strong one, or
  whose weak one is a tag manifest; only the preferred manifest of a package is verified.
- A payload file that cannot be read makes its package FAIL, and the scan counts as
  complete all the same (`metrics.py:51`).
- The formats of payloads in BagIt directories, as opposed to archives, are not
  rated (`README.md:233-238`).
- A DOI that is registered while pages are read may make another appear twice, and
  it then has two results; one that is removed may make another be passed over.
- A kill while Siegfried runs leaves the temporary report.

### Bounds, and why they are enough

The instances are small because the hard cases need few parts. Two jobs make
every race of two transactions possible, with receipts chosen so that they repeat each
other, share the event and not the path, share the path and not the event, or cannot
be trusted. The configuration requires three
replicas (`REQUIRED_REPLICAS`); `auto_baseline` and `replica_audit` use two,
enough for one to answer well and another not, and the theorems hold for any
number.

The state constraints, in the `MC` modules, cut what cannot matter:

- `SomeCheckLeft`, `SomeCommandLeft`, `SomeAuditLeft` stop when no execution is
  left: what changes later cannot change a result that is stored.
- `SecondFileIsPlain` and `SecondReplicaIsPlain` explore everything that may
  happen to the first file or replica and less of the second, which is there to
  show that one's fate does not decide the other's.
- `SizeOfItsChecksum` and `OneDifference` leave out contents that differ from the
  registered one in two respects at once, where one is reported anyway.
- `OneKindScraped`, `FewRows`: samples of two kinds are never compared, and two
  classes of results, in one run or in two, are enough for one to hide another.
- `FewChanges` of `BagAudit` and `Obsolescence` allows `MaxChanges` = 2 changes of
  the world during an audit: one that matters at one step, and one that undoes it
  before another. `OneAtATime` keeps one of the two packages sound and undisturbed,
  which shows that the other's fate is not its own; packages made in an unusual
  way are explored without changes, as they are judged before any file is hashed
  or whatever the files are. `Interesting` leaves out the tree when the report is
  the operator's, which never looks at it, and `FewFiles` explores all that may be said
  of the first payload file, and of the second and of the archive what decides whether
  they have a result.
- `FewStarts` of `DoiAudit` starts with a register that is empty, that may grow or
  that is full; `FirstDoiVaries` and `FirstRecordVaries` explore all that DataCite
  may say and all that may happen to a chain for the first DOI and record, while
  the register is what it was; the other records are sent to their page, do not
  answer, or break their thread. They hold for `AuditEnds` as well: what they
  leave out are more answers of the same kinds.
- `StillRunning` and the like stop where no step of the audit is left.

The proofs (section 5) are what covers the rest: those of the three content audits
are for any number of packages, files, contents, changes, DOIs, threads,
redirections, formats and rules.

Checks and audits do not read each other's rows, so one is enough; the writers
they race with are actions of the environment. `DoiAudit` reads at most `MaxRecords`
= 3 records, one per page, with `--max-dois` off or at 2, so that the last page, a
full one, an empty one and the maximum each end the reading; two threads for three
records make one wait; `MaxRedirects` is 2 where the code has 6. In `Collector` there is one
process at a time, as the lock sees to, executed again and again; `MaxCrashes`
bounds the deaths explored, not what a death does: a process may be killed at
any step. `MaxTime` and `Limit` of `Exporter` leave room for a success that is
recent, one that is at the limit and one that is past it. Symmetry is used on
the names of executions, for safety only.

### Fairness

`Collector` and `DoiAudit` state liveness. In `Collector` `WF_vars` is on the disjunction of all steps of
all its processes, and on nothing else: a process that is not killed goes on, and
`preservation-auditor-archivematica.timer` starts another one minute after the
last ended (`OnUnitInactiveSec=1min`). The Storage Service, the replicas,
operators and crashes owe nothing; the premise of `EventuallyRegistered` says
what must come to hold, and stay, for a package to be registered.

In `DoiAudit` the reading of pages, the threads and the end of the audit each have
weak fairness of their own, because each is a thread of the operating system and
every request it makes has a timeout (30 s, `doi_audit.py`) and a bound on what it
reads; which answer comes, or that one comes at all, is not assumed of a
landing page, and neither is that the process is not killed: `AuditEnds` counts `dead`
as an end. That the reading ends rests on the register being finite (`Dois`) and on
DataCite stating how many pages it has: `iter_datacite_dois` goes on as long as the
service gives it records and says that there are more.

## 4. What is not modelled

Cryptography (a receipt is trusted or not), the syntax of receipts and
configurations, S3, HTTP and Django; durations and severity, which no decision
reads, and timestamps outside `Exporter`; the audit log; argument parsing. A
database that stays locked for longer than its timeout raises, which is `Crash`
or an error path. Of the exporter, the counts per provider, the sums of sizes,
`baselines_total` and the HTTP server are left out. Of the BagIt audit, the syntax
of tag files, manifests, paths and ZIP archives, and archives with several bags or
one below their root; of the DOI audit, HTML and JSON; of the obsolescence audit,
Siegfried, the JSON of policies and reports, and how the name of an archive member
is read: each of these is one of the outcomes the code tells apart. The audit log
is written and never read back; dashboards and examples are data. The three stay
without a model because they have no state that a later step depends on.

## 5. What is proved

Every safety property the passing runs check, and the invariants behind them, is a
theorem; for `DoiAudit` and `Obsolescence` so is the type invariant, which their runs
leave to the proof. Each holds for every value of the constants of its module:

- `AutoBaselineProofs`: any number of jobs, receipts, paths, files and replicas, and
  any number of replica audits, objects and buckets;
- `IntegrityCheckProofs`: any number of checks, of executions of the baseline
  command, of files, directories, contents and baselines;
- `CollectorProofs`: any number of packages, versions of their records, processes
  and crashes;
- `BagAuditProofs`, `DoiAuditProofs`, `ObsolescenceProofs`: as section 3 says;
- `ExporterProofs`: any number of executions of the six kinds, overlapping or nested,
  any time explored, any age at which an audit is stale, any number of replicas.

They assume what the modules' ASSUMEs state: at least one replica is configured, "no
checksum", "no size", "absent" and "nothing" are no values of their kind, receipts are records of
the right shape, a file's canonical path leads to it, the root is no path, a file lies
in one directory and a payload file in one archive, which is no payload file itself,
pages and pools are not empty, the codes the audits use are codes, and times, ages and numbers of replicas are natural numbers.

| Theorem | States |
|---|---|
| `TypeCorrect` | `Spec => []TypeOK` |
| `Inductive` | `Spec => []IndInv` |
| `Whole`, `AsReceived`, `Agreement`, `OkIsRegistered`, `RegisteredOnce` | the safety properties of `AutoBaseline` |
| `Refinement` | `Spec => RegistryIsSealed`: the three tables implement `SealedRegistry` |
| `AuditTypesHold`, `PassWasHeld`, `FailIsReal`, `EachReplicaHasOne` (in `AutoBaselineProofs`) | `AuditTypeOK`, `PassMeansHeld`, `AlarmIsReal` and `EachHasItsResult` of `ReplicaAudit` |
| `CollectorTypeCorrect`, `FollowsInbox`, `CleanExit` (in `CollectorProofs`) | `TypeOK`, `RegisteredFromInbox` and `CleanExitMeansRegistered` of `Collector` |
| `TypesHold`, `PassIsVerified`, `AlarmsAreReal`, `Coverage` (in `IntegrityCheckProofs`) | `TypeOK` and the three safety properties of `IntegrityCheck` |
| `CommandTypesHold`, `BaselinesWereHeld`, `OneAuthor`, `CleanRegisters` (in `IntegrityCheckProofs`) | `CommandTypeOK`, `BaselineWasHeld`, `FirstWriterWins` and `CleanMeansRegistered` of `ManualBaseline` |
| `TypesHold`, `PassIsVerified`, `AlarmsAreReal`, `NothingIsOverlooked` (in `BagAuditProofs`) | `TypeOK`, `PassMeansVerified`, `AlarmIsReal` and `NothingOverlooked` of `BagAudit` |
| `TypesHold`, `ChainsAreSafe`, `NothingIsLost` (in `DoiAuditProofs`) | `TypeOK`, `ChainIsSafe` and `NothingLost` of `DoiAudit` |
| `TypesHold`, `FirstRuleRates`, `SuccessCovers`, `NothingLeftBehind`, `AccountsHold` (in `ObsolescenceProofs`) | `TypeOK`, `RatedByFirstRule`, `PayloadCovered`, `ReportRemoved` and `AccountsAgree` of `Obsolescence` |
| `ExporterTypesHold`, `QuietIsConforming`, `NeverOlder`, `JobsFollowChecks`, `EvidenceKeepsUp` (in `ExporterProofs`) | `TypeOK`, `QuietMeansConforming`, `NeverShownOlder`, `JobFollowsItsCheck` and `EvidenceNotBehind` of `Exporter` |
| `ChecksAreAccounted`, `AuditsAreAccounted`, `WellAccounted` (one for each content audit) | `RunIsAccounted`: checks, replica audits and content audits implement `RunLedger` |
| `ExecutionsAreAccounted` (in `ExporterProofs`) | `RunsAreAccounted`: so do the executions that the exporter is shown |

None of the safety properties is inductive by itself. That a registration is
whole depends on the evidence the job holds when it commits; that evidence is
complete because a job reaches `commit` only when no replica is left
(`Unverified(r) = {}`); that it agrees depends on `GatheredOf`, kept from the
first request on; and that a run in PASS is registered depends on `RegisteredBy`
holding at `check` and surviving every other job's transactions, which it does
because tables only grow and keys stay unique (`KeysAreUnique`). `IndInv`
collects these facts: what each job knows at each step (`JobKnows`) and what the
tables satisfy together. The proof has one lemma for the transactions and one
step for each action. The refinement uses `IndInv`: a step either leaves the
three tables alone, and stutters, or adds one baseline with its event and
evidence, which is one `Seal`.

`FollowsInbox` needs to know that a job that commits has a receipt in the inbox,
hence that a process is at a package, has built a receipt and, having the lock,
is alone (`AtWork`). `CleanExit` needs `NoneLeftBehind`: a process that has counted
no failure has seen to it that every package it is done with is registered; that
stays so because entries never change (`StoreGrows`).

A check knows, of each file, why it has not found it (`Walked`): its directory is
still to be listed or was unreadable at some time since the walk began, the walk
broke off, or the name held no regular file when its directory was listed, so that a
file with a baseline is known to have been lost. It knows what each result rests on
(`OfFile`, `OfRow`): a baseline it read and what the file held meanwhile. `Phase` ties
the row of the run to these results, and `Together` says that a path has one baseline,
so that the one a result names is the one of the start of the check. What other checks
and the world do leaves a check's own variables alone and only adds to what the
observers have seen (`SameKeeps`): the proof has one lemma for that and one for each
action. That no result is inconclusive in a scan that is complete, on which
`ChecksAreAccounted` rests, is the part of `Notes` that the code keeps in `scan_complete`.

The baseline command writes what it hashed some time ago, so `CommandInv` says of what
it holds (`Hashed`) that the file has held it, and of its walk (`CommandWalked`) the
same as of a check's: a file that is neither listed nor waiting to be was hidden or not
there all along. `RegistrySound` joins the two properties of the rows: a row that is no
receipt's is in exactly one counter, which stays so because `add_baseline` counts only
a row it inserted and a receipt never registers a path that is taken.

A replica audit asks about rows it read once. `AuditInv` says of each execution how far
it has come (`Progress`), that the rows registered when it began are among those it asks
about and none of them is without a result or a turn (`Covers`), what was there
meanwhile (`Watches`), and that each result is the judgement of an answer that an
object could give meanwhile (`Answers`). `JoinIsUnique` is needed for
one result per replica: the query joins three tables, and only because an event has one
row, a path one baseline and a pair of event and replica one row of evidence does a
replica come out of it once.

The exporter's properties relate samples that were read piecemeal to rows that others
wrote meanwhile. `ExportInv` has two halves. `Stands` ties, for each execution, its row
to where it is: only one that ended has a time, one that ended normally has the verdict
of its results, one that raised is FAIL and not complete, and a job that ended had a
check that ended first. `Reads` and `Shows` say of the sample in progress and of
each one shown that it speaks of a run that ended (`IsAbout`), that its two times are
those of runs that ended with the right status (`TimeOf`), that its classes are those of
that run's results (`Counted`), and that its totals agree. They survive
the writers because what an execution that ended has stored is kept for ever (`Kept`), and
successive samples grow because the set of runs that ended only grows
(`LatestIsNoOlder`). `QuietIsConforming` then goes by kind: for fixity and replicas the
conforming run is the last success or, when the last success is older, the run shown,
none of whose results can be in a class that fires; for the content audits it is the run
shown.

The three content audits share `RunInv` of `AuditRunProofs`: until the last
transaction the row says RUNNING, what is saved is what was gathered, and a run
that is done has the verdict of what it gathered. Its lemmas `ClosingSteps`,
`GatheringStep` and `IdleStep` are what each audit's proof cites for the part that
is common to all. To that each adds what it relies on while it gathers:

- `BagAudit`: the package at hand is one that was discovered and has no result; the
  files listed and the digests taken were seen since the audit began; and the
  errors and warnings collected so far already have the evidence that the
  properties ask of a result. A result is then made of what is known at that step.
- `DoiAudit`: a record that was read is waiting, at a thread, broken or has its one
  result (`Tasks`); a chain's count and its memory of http are those of the URLs that
  were asked (`Trails`); and until a removal every DOI that was there when the audit
  began has been read or has a place in the register past the pages that were
  (`Coming`). A registration shifts places to the right only, which is why it cannot
  make the audit pass over a DOI, whereas a removal can.
- `Obsolescence`: the temporary report says of each file something it has been since
  the audit began; a payload file is still to be identified, or is in the report, or was
  absent or in an archive that could not be read at some time since (`Overlooked`); and
  the report exists only between the step that makes it and one of the two that remove
  it.

The refinements of `RunLedger` need no invariant of their own. Each begins with a lemma
that one execution's entry changes and the others do not (`OneEntry`) and one that a
verdict is justified by the results it is made of (`VerdictIsJustified`,
`ClosingIsJustified`). The invariants then say that what it is made of is what was stored,
that a row that is closed was RUNNING, and that a complete scan has nothing
inconclusive; every step that leaves the two tables alone stutters. For `Exporter`,
`Stands` says also that an execution that has not saved has no results.

Model-checked only: the liveness of `Collector` and `DoiAudit` (`EventuallyRegistered`,
`AuditEnds`), since fairness and ENABLED are beyond TLAPS; and the three properties that
documents state and the code violates, which have counterexamples instead.

## 6. Plan

Done: every component that keeps state is modelled, and every safety property that is
checked is proved.

Next: that `Collector`'s registry is an instance of `SealedRegistry`, so that what it takes
of the tables is a theorem too.
