---------------------------- MODULE AuditRunProofs ----------------------------
(***************************************************************************)
(* What holds of every execution of a content audit, whatever its results  *)
(* are about and however they are gathered.                                *)
(***************************************************************************)
EXTENDS AuditRun, TLAPS

\* An item has one result.
OneEach(notes) == \A m, n \in notes : m.item = n.item => m = n

\* What the execution relies on between two of its steps: its row says RUNNING
\* until its last transaction, which counts what the one before it has saved.
RunInv ==
    /\ OneEach(noted)
    /\ saved \in {{}, noted}
    /\ pc = "idle" => run.status = "ABSENT" /\ noted = {}
    /\ pc \in {"gather", "save", "finish", "fail"} => run.status = "RUNNING"
    /\ pc \in {"idle", "gather", "save"} => saved = {}
    /\ pc \in {"finish", "done"} => saved = noted
    /\ pc \in {"raised", "dead"} => run.status \in {"RUNNING", "FAIL"}
    /\ pc = "done" => /\ run.status = Verdict(noted, run.complete)
                      /\ run.complete => ~Has(noted, "UNKNOWN")
    /\ pc # "done" => ~run.complete

LEMMA InitRun == RunInit => RunTypeOK /\ RunInv
  BY DEF RunInit, RunTypeOK, RunInv, OneEach

\* The results an audit makes are results.
LEMMA JudgedType ==
    ASSUME NEW x \in Items, NEW errors \in SUBSET Codes, NEW warnings \in SUBSET Codes
    PROVE  Judged(x, errors, warnings) \in Result
  BY DEF Judged, Result

LEMMA InconclusiveType == ASSUME NEW x \in Items PROVE Inconclusive(x) \in Result
  BY DEF Inconclusive, Result

LEMMA VerdictType ==
    ASSUME NEW notes, NEW whole \in BOOLEAN
    PROVE  Verdict(notes, whole) \in {"PASS", "WARNING", "FAIL"}
  BY DEF Verdict

\* Starting, saving, failing and dying keep what an execution relies on, as does
\* finishing when a scan that is complete has nothing inconclusive.
LEMMA ClosingSteps ==
    ASSUME RunTypeOK, RunInv, NEW whole \in BOOLEAN, whole => ~Has(noted, "UNKNOWN"),
           StartRun \/ SaveResults \/ FinishRun(whole) \/ DatabaseRaises \/ FailRun \/ Crash
    PROVE  RunTypeOK' /\ RunInv' /\ noted' = noted
  <1> USE DEF RunTypeOK, RunInv, GoTo
  <1>1. CASE StartRun
    BY <1>1 DEF StartRun, OneEach
  <1>2. CASE SaveResults
    BY <1>2 DEF SaveResults, OneEach
  <1>3. CASE FinishRun(whole)
    <2>1. run' \in [status : {"PASS", "WARNING", "FAIL"}, complete : BOOLEAN]
      BY <1>3, VerdictType DEF FinishRun
    <2>2. run'.status = Verdict(noted', run'.complete)
      BY <1>3 DEF FinishRun
    <2>3. run'.complete => ~Has(noted', "UNKNOWN")
      BY <1>3 DEF FinishRun
    <2>4. QED
      BY <1>3, <2>1, <2>2, <2>3 DEF FinishRun, OneEach
  <1>4. CASE DatabaseRaises
    BY <1>4 DEF DatabaseRaises, OneEach
  <1>5. CASE FailRun
    <2>1. pc = "fail" /\ pc' = "raised" /\ UNCHANGED <<noted, saved>>
      BY <1>5 DEF FailRun
    <2>2. /\ run'.status \in {"RUNNING", "FAIL"} /\ ~run'.complete
          /\ run' \in [status : {"ABSENT", "RUNNING", "PASS", "WARNING", "FAIL"}, complete : BOOLEAN]
      <3>1. CASE run' = run
        BY <2>1, <3>1
      <3>2. CASE run' = [status |-> "FAIL", complete |-> FALSE]
        BY <3>2
      <3>3. QED
        BY <1>5, <3>1, <3>2 DEF FailRun
    <2>3. RunTypeOK'
      BY <2>1, <2>2
    <2>4. RunInv'
      BY <2>1, <2>2 DEF OneEach
    <2>5. QED
      BY <2>1, <2>3, <2>4
  <1>6. CASE Crash
    BY <1>6 DEF Crash, OneEach
  <1>7. QED
    BY <1>1, <1>2, <1>3, <1>4, <1>5, <1>6

\* So does a step that only gathers results, or that ends the gathering.
LEMMA GatheringStep ==
    ASSUME RunTypeOK, RunInv, pc = "gather", pc' \in {"gather", "save", "fail"},
           run' = run, saved' = saved, noted' \subseteq Result, OneEach(noted')
    PROVE  RunTypeOK' /\ RunInv'
  BY DEF RunTypeOK, RunInv, OneEach

\* One more result, of an item that has none, leaves one result of each.
LEMMA OneMore ==
    ASSUME NEW notes, NEW n, OneEach(notes), \A m \in notes : m.item # n.item
    PROVE  OneEach(notes \cup {n})
  BY DEF OneEach

LEMMA IdleStep ==
    ASSUME RunTypeOK, RunInv, UNCHANGED runVars
    PROVE  RunTypeOK' /\ RunInv'
  <1>1. Verdict(noted', run'.complete) = Verdict(noted, run.complete)
        /\ Has(noted', "UNKNOWN") = Has(noted, "UNKNOWN")
    BY DEF runVars
  <1>2. QED
    BY <1>1 DEF RunTypeOK, RunInv, OneEach, runVars

\* The accounts of an execution agree: they are made of the same results.
LEMMA AccountsFromInv ==
    ASSUME RunTypeOK, RunInv
    PROVE  AccountsAgree
  <1> USE DEF RunTypeOK, RunInv, Verdict, Has
  <1>1. ASSUME run.status \in {"PASS", "WARNING"}
        PROVE  /\ pc = "done" /\ saved # {} /\ run.complete
               /\ \A n \in saved : n.status \in {"PASS", "WARNING"}
               /\ run.status = "PASS" => \A n \in saved : n.status = "PASS"
    <2>1. pc = "done" /\ saved = noted
      BY <1>1
    <2>2. noted # {} /\ run.complete /\ \A n \in noted : n.status \notin {"FAIL", "UNKNOWN"}
      BY <1>1, <2>1
    <2>3. run.status = "PASS" => \A n \in noted : n.status # "WARNING"
      BY <1>1, <2>1
    <2>4. \A n \in noted : n.status \in {"PASS", "WARNING", "FAIL", "UNKNOWN"}
      BY DEF Result
    <2>5. QED
      BY <2>1, <2>2, <2>3, <2>4
  <1>2. ASSUME pc = "done"
        PROVE  ExitStatus = 0 <=> run.status \in {"PASS", "WARNING"}
    BY <1>1, <1>2 DEF ExitStatus
  <1>3. \A m, n \in saved : m.item = n.item => m = n
    BY DEF OneEach
  <1>4. QED
    BY <1>1, <1>2, <1>3 DEF AccountsAgree

-----------------------------------------------------------------------------
(* What an execution has stored, as RunLedger says it.                     *)

LEMMA LedgerBegins == RunInit => Ledger!Init
  BY DEF RunInit, Book, Account, Ledger!Init, Ledger!NoEntry

LEMMA OneEntry ==
    ASSUME \/ Ledger!Opened(Account, Account')
           \/ Ledger!Filled(Account, Account')
           \/ Ledger!Closed(Account, Account')
    PROVE  Ledger!Next
  <1>1. Book[0] = Account /\ Book'[0] = Account'
    BY DEF Book
  <1>2. Book' = [Book EXCEPT ![0] = Book'[0]]
    BY DEF Book
  <1>3. Ledger!Write(0)
    BY <1>1, <1>2 DEF Ledger!Write
  <1>4. QED
    BY <1>3 DEF Ledger!Next

\* The row that an execution closes is one that its results justify.
LEMMA ClosingIsJustified ==
    ASSUME RunTypeOK, RunInv, NEW whole \in BOOLEAN, whole => ~Has(noted, "UNKNOWN"),
           FinishRun(whole)
    PROVE  Ledger!Closed(Account, Account')
  <1> DEFINE e == Account'
             found == Ledger!Found(e)
  <1>1. /\ run.status = "RUNNING" /\ saved = noted /\ saved' = saved
        /\ e.status = Verdict(noted, whole) /\ e.complete = whole /\ e.rows = noted
    BY DEF RunInv, FinishRun, GoTo, Account
  <1>2. \A status : Has(noted, status) <=> status \in found
    BY <1>1 DEF Has, Ledger!Found
  <1>3. e.rows = {} <=> noted = {}
    BY <1>1
  <1>4. found \subseteq {"PASS", "WARNING", "FAIL", "UNKNOWN"}
    BY <1>1 DEF Ledger!Found, RunTypeOK, Result
  <1> HIDE DEF found, e
  <1>5. Ledger!Justified(e)
    BY <1>1, <1>2, <1>3, <1>4 DEF Ledger!Justified, Verdict, found
  <1>6. QED
    BY <1>1, <1>5 DEF Ledger!Closed, Account, e

LEMMA ClosingIsAccounted ==
    ASSUME RunTypeOK, RunInv, NEW whole \in BOOLEAN, whole => ~Has(noted, "UNKNOWN"),
           StartRun \/ SaveResults \/ FinishRun(whole) \/ DatabaseRaises \/ FailRun \/ Crash
    PROVE  [Ledger!Next]_Book
  <1>1. CASE StartRun
    <2>1. run.status = "ABSENT" /\ ~run.complete /\ saved = {}
      BY <1>1 DEF RunInv, StartRun, GoTo
    <2>2. run.complete = FALSE
      BY <2>1 DEF RunTypeOK
    <2>3. Ledger!Opened(Account, Account')
      BY <1>1, <2>1, <2>2 DEF StartRun, Account, Ledger!Opened, Ledger!NoEntry
    <2>4. QED
      BY <2>3, OneEntry
  <1>2. CASE SaveResults
    <2>1. run.status = "RUNNING" /\ saved = {} /\ run' = run
      BY <1>2 DEF RunInv, SaveResults, GoTo
    <2>2. Ledger!Filled(Account, Account')
      BY <2>1 DEF Account, Ledger!Filled
    <2>3. QED
      BY <2>2, OneEntry
  <1>3. CASE FinishRun(whole)
    BY <1>3, ClosingIsJustified, OneEntry
  <1>4. CASE DatabaseRaises \/ Crash
    BY <1>4 DEF DatabaseRaises, Crash, Book, Account
  <1>5. CASE FailRun
    <2>1. run.status = "RUNNING" /\ saved' = saved
      BY <1>5 DEF RunInv, FailRun, GoTo
    <2>2. CASE run' = run
      BY <2>1, <2>2 DEF Book, Account
    <2>3. CASE run' = [status |-> "FAIL", complete |-> FALSE]
      <3>1. Ledger!Justified(Account')
        BY <2>3 DEF Account, Ledger!Justified
      <3>2. Ledger!Closed(Account, Account')
        BY <2>1, <3>1 DEF Account, Ledger!Closed
      <3>3. QED
        BY <3>2, OneEntry
    <2>4. QED
      BY <1>5, <2>2, <2>3 DEF FailRun
  <1>6. QED
    BY <1>1, <1>2, <1>3, <1>4, <1>5

LEMMA GatheringIsAccounted ==
    ASSUME UNCHANGED <<run, saved>>
    PROVE  [Ledger!Next]_Book
  BY DEF Book, Account

===============================================================================
