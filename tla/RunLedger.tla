------------------------------- MODULE RunLedger -------------------------------
(***************************************************************************)
(* What the rows of audit_runs and audit_results promise to their readers  *)
(* (the exporter and the alert rules), whoever writes them: an execution   *)
(* opens its row, writes its results at once and closes its row at most    *)
(* once, with a status that the results then stored justify; after that    *)
(* neither changes.  One that dies stays open for ever.                    *)
(***************************************************************************)
CONSTANT Runs  \* executions of an audit

VARIABLE ledger

NoEntry == [status |-> "ABSENT", complete |-> FALSE, rows |-> {}]

\* The statuses of the results stored.
Found(e) == {n.status : n \in e.rows}

\* A success is a complete scan without failures, a warning has a result to show
\* for it, and a failure is an incomplete scan, a result or the lack of any.
Justified(e) ==
    /\ e.status \in {"PASS", "WARNING", "FAIL"}
    /\ e.complete => "UNKNOWN" \notin Found(e)
    /\ e.status # "FAIL" =>
          /\ e.complete
          /\ "FAIL" \notin Found(e)
          /\ e.status = "WARNING" <=> "WARNING" \in Found(e)
    /\ e.status = "FAIL" => ~e.complete \/ "FAIL" \in Found(e) \/ e.rows = {}

Opened(e, f) ==
    e = NoEntry /\ f = [status |-> "RUNNING", complete |-> FALSE, rows |-> {}]

Filled(e, f) ==
    /\ e.status = "RUNNING" /\ e.rows = {}
    /\ f.status = "RUNNING" /\ f.complete = e.complete

Closed(e, f) ==
    /\ e.status = "RUNNING"
    /\ f.rows = e.rows
    /\ Justified(f)

Init == ledger = [r \in Runs |-> NoEntry]

\* One step writes one entry.
Write(r) ==
    /\ ledger' = [ledger EXCEPT ![r] = ledger'[r]]
    /\ \/ Opened(ledger[r], ledger'[r])
       \/ Filled(ledger[r], ledger'[r])
       \/ Closed(ledger[r], ledger'[r])

Next == \E r \in Runs : Write(r)

Spec == Init /\ [][Next]_ledger
===============================================================================
