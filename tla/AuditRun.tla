------------------------------- MODULE AuditRun -------------------------------
(***************************************************************************)
(* One execution of a content audit (check of bagit.py, obsolescence.py    *)
(* and doi_audit.py): a row in audit_runs, results gathered in memory and  *)
(* saved in one transaction, a verdict made of them, and for every         *)
(* exception one way out, which saves nothing more.                        *)
(*                                                                         *)
(* What a result is about, and how results are gathered, is left to the    *)
(* modules that extend this one.  Executions of these audits never read    *)
(* what another has stored, so that one is enough.                         *)
(***************************************************************************)
EXTENDS Integers, FiniteSets

CONSTANTS
    Items,  \* what a result is about: a package, a record of a list
    Codes   \* error and warning codes

Result == [item : Items, status : {"PASS", "WARNING", "FAIL", "UNKNOWN"},
           errors : SUBSET Codes, warnings : SUBSET Codes]

VARIABLES
    pc,     \* the next step of the execution
    run,    \* its row in audit_runs: status and scan_complete
    noted,  \* the results gathered so far
    saved   \* its rows in audit_results

runVars == <<pc, run, noted, saved>>

RunTypeOK ==
    /\ pc \in {"idle", "gather", "save", "finish", "fail", "done", "raised", "dead"}
    /\ run \in [status : {"ABSENT", "RUNNING", "PASS", "WARNING", "FAIL"}, complete : BOOLEAN]
    /\ noted \subseteq Result
    /\ saved \subseteq Result

RunInit ==
    /\ pc = "idle"
    /\ run = [status |-> "ABSENT", complete |-> FALSE]
    /\ noted = {}
    /\ saved = {}

GoTo(from, to) == pc = from /\ pc' = to

\* What an audit says of an item it could examine.
Judged(x, errors, warnings) ==
    [item |-> x, errors |-> errors, warnings |-> warnings,
     status |-> IF errors # {} THEN "FAIL" ELSE IF warnings # {} THEN "WARNING" ELSE "PASS"]

\* What it says of an item it could not.
Inconclusive(x) == [item |-> x, status |-> "UNKNOWN", errors |-> {}, warnings |-> {}]

Has(notes, status) == \E n \in notes : n.status = status

\* create_run
StartRun ==
    /\ GoTo("idle", "gather")
    /\ run' = [status |-> "RUNNING", complete |-> FALSE]
    /\ UNCHANGED <<noted, saved>>

\* Mutation: an item that was not examined is left out of the table.
SaveConclusive ==
    /\ GoTo("save", "finish")
    /\ saved' = {n \in noted : n.status # "UNKNOWN"}
    /\ UNCHANGED <<run, noted>>

\* save_results: all of them in one transaction.
SaveResults ==
    /\ GoTo("save", "finish")
    /\ saved' = noted
    /\ UNCHANGED <<run, noted>>

\* Mutation: the run is inconclusive as soon as one of its results is.
VerdictInconclusive(notes, whole) ==
    IF ~whole THEN "UNKNOWN" ELSE IF Has(notes, "FAIL") THEN "FAIL" ELSE "PASS"

\* An audit that found nothing to examine is no success.
Verdict(notes, whole) ==
    IF notes = {} \/ ~whole \/ Has(notes, "FAIL") THEN "FAIL"
    ELSE IF Has(notes, "WARNING") THEN "WARNING" ELSE "PASS"

\* finish_run; "whole" is scan_complete.
FinishRun(whole) ==
    /\ GoTo("finish", "done")
    /\ run' = [status |-> Verdict(noted, whole), complete |-> whole]
    /\ UNCHANGED <<noted, saved>>

\* A transaction raises.
DatabaseRaises ==
    /\ pc \in {"save", "finish"}
    /\ pc' = "fail"
    /\ UNCHANGED <<run, noted, saved>>

\* except Exception: finish_run in FAIL, which may raise as well and leave the
\* row as it is; the exception goes on.
FailRun ==
    /\ GoTo("fail", "raised")
    /\ run' \in {run, [status |-> "FAIL", complete |-> FALSE]}
    /\ UNCHANGED <<noted, saved>>

\* The process is killed.
Crash ==
    /\ pc \in {"gather", "save", "finish", "fail"}
    /\ pc' = "dead"
    /\ UNCHANGED <<run, noted, saved>>

\* cli.py: 0 when there are results, all of them conclusive and none FAIL.
ExitStatus == IF saved # {} /\ run.complete /\ ~Has(saved, "FAIL") THEN 0 ELSE 2

\* The three accounts of an execution agree: its exit status is 0 when its row
\* says PASS or WARNING, and its results have neither FAIL nor UNKNOWN then.
AccountsAgree ==
    /\ pc = "done" => (ExitStatus = 0 <=> run.status \in {"PASS", "WARNING"})
    /\ run.status \in {"PASS", "WARNING"} =>
          saved # {} /\ \A n \in saved : n.status \in {"PASS", "WARNING"}
    /\ run.status = "PASS" => \A n \in saved : n.status = "PASS"
    /\ \A m, n \in saved : m.item = n.item => m = n

\* What an execution has stored, as its readers see it.
Account == [status |-> run.status, complete |-> run.complete, rows |-> saved]

Book == [r \in {0} |-> Account]

Ledger == INSTANCE RunLedger WITH Runs <- {0}, ledger <- Book

\* An audit stores its row and its results as RunLedger promises the exporter,
\* wherever it raises or is killed between its transactions.
RunIsAccounted == Ledger!Spec

===============================================================================
