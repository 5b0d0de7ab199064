----------------------------- MODULE Obsolescence -----------------------------
(***************************************************************************)
(* ObsolescenceAuditor.check (obsolescence.py): Siegfried identifies the   *)
(* format of every file below a directory, one after the other while files *)
(* change, in a temporary report beside the database; or the operator hands*)
(* over a report made before.  The files of the report that are payload of *)
(* an archive are rated by the policy.                                     *)
(*                                                                         *)
(* Siegfried lists an archive, and after it the members it finds in it.  An*)
(* archive it cannot read is a record of its own, with the error, and      *)
(* without members.                                                        *)
(*                                                                         *)
(* A file is what Siegfried says of it.                                    *)
(***************************************************************************)
EXTENDS AuditRun, Sequences

CONSTANTS
    Members,    \* the files that are payload of an archive
    ArchiveOf,  \* the archive each of them is in
    Extension,  \* of each file
    Puids,      \* formats
    Unknown,    \* Siegfried's "UNKNOWN", in the place of a format
    Extensions,
    Policies,   \* what the policy may be, when it is valid
    Identified, \* what Siegfried may say of a file
    Absent,     \* no file
    None,       \* no report
    Invalid     \* a policy or a report that cannot be loaded

Risks == {"minimal", "low", "medium", "high", "critical"}

Rule == [puid : Puids, extensions : SUBSET Extensions, risk : Risks]

\* The formats that match, best first; the warning is of the first of them.
Identification == [matches : Seq(Puids \cup {Unknown}), warning : BOOLEAN, failed : BOOLEAN]

Reports == [Items -> Identified \cup {Absent}]

ASSUME ObsolescenceAssumption ==
    /\ Members \subseteq Items /\ ArchiveOf \in [Members -> Items \ Members]
    /\ Extension \in [Items -> Extensions]
    /\ Policies \subseteq Seq(Rule)
    /\ Identified \subseteq Identification
    /\ Unknown \notin Puids /\ Absent \notin Identified
    /\ None # Invalid /\ {None, Invalid} \cap Reports = {} /\ Invalid \notin Policies
    /\ {"FORMAT_OBSOLESCENCE_RISK", "FORMAT_OBSOLESCENCE_WARNING",
        "FORMAT_UNCLASSIFIED", "FORMAT_IDENTIFICATION_WEAK"} \subseteq Codes

VARIABLES
    tree,       \* what each file is now
    policy,     \* the policy's file
    given,      \* the operator's report
    own,        \* the temporary report, as far as it is written
    stage,      \* the next step before results are saved, and after
    todo,       \* files Siegfried has still to come to
    generated,  \* the audit holds the name of its temporary report
    during,     \* observer: what each file has been since the audit began
    absent      \* observer: files that were not there meanwhile

world == <<tree, policy, given>>
local == <<own, stage, todo, generated>>
observed == <<during, absent>>
vars == <<runVars, world, local, observed>>

TypeOK ==
    /\ RunTypeOK
    /\ tree \in Reports
    /\ policy \in Policies \cup {Invalid}
    /\ given \in Reports \cup {None, Invalid} /\ own \in Reports \cup {None}
    /\ stage \in {"policy", "generate", "identify", "load", "over"}
    /\ todo \subseteq Items /\ generated \in BOOLEAN
    /\ during \subseteq Items \X Identified /\ absent \subseteq Items

\* A file of an archive is there if the archive is.
Consistent(t) == \A x \in Members : t[ArchiveOf[x]] = Absent => t[x] = Absent

Init ==
    /\ RunInit
    /\ tree \in {t \in Reports : Consistent(t)}
    /\ policy \in Policies \cup {Invalid}
    /\ given \in Reports \cup {None, Invalid}
    /\ own = None /\ stage = "policy" /\ todo = {} /\ generated = FALSE
    /\ during = {} /\ absent = {}

-----------------------------------------------------------------------------
(* The report.                                                             *)

There(t) == {x \in Items : t[x] # Absent}

Start ==
    /\ StartRun
    /\ during' = {<<x, tree[x]>> : x \in There(tree)}
    /\ absent' = Items \ There(tree)
    /\ UNCHANGED <<world, local>>

At(s) == pc = "gather" /\ stage = s

Fails ==
    /\ GoTo("gather", "fail")
    /\ UNCHANGED <<run, noted, saved, stage, todo, generated>>

LoadPolicy ==
    /\ At("policy")
    /\ IF policy = Invalid THEN Fails
       ELSE /\ stage' = IF given = None THEN "generate" ELSE "load"
            /\ UNCHANGED <<runVars, todo, generated>>
    /\ UNCHANGED <<world, own, observed>>

Empty == [x \in Items |-> Absent]

\* mkstemp, and Siegfried starts.
BeginReport ==
    /\ At("generate")
    /\ own' = Empty /\ todo' = Items /\ stage' = "identify"
    /\ UNCHANGED <<runVars, world, generated, observed>>

NoExecutable ==
    /\ At("generate")
    /\ Fails
    /\ UNCHANGED <<world, own, observed>>

Unidentified(i) ==
    i.failed \/ \A k \in DOMAIN i.matches : i.matches[k] = Unknown

Within(x) == {m \in Members : ArchiveOf[m] = x}

\* What Siegfried may not come to when it comes to a file.
Unread(x) == IF x \in There(tree) /\ Unidentified(tree[x]) THEN Within(x) ELSE {}

Identify(x) ==
    /\ At("identify")
    /\ x \in todo
    /\ x \in Members => ArchiveOf[x] \notin todo
    /\ \E lost \in SUBSET Unread(x) : todo' = todo \ ({x} \cup lost)
    /\ own' = [own EXCEPT ![x] = tree[x]]
    /\ UNCHANGED <<runVars, world, stage, generated, observed>>

EndReport ==
    /\ At("identify")
    /\ todo = {}
    /\ stage' = "load" /\ generated' = TRUE
    /\ UNCHANGED <<runVars, world, own, todo, observed>>

\* Mutation: the report of a Siegfried that failed is left to check().
SiegfriedFailsUncleaned ==
    /\ At("identify")
    /\ Fails
    /\ UNCHANGED <<world, own, observed>>

\* An exit status other than 0, the time limit or a root that is gone.  check()
\* does not know the report's name yet.
SiegfriedFails ==
    /\ At("identify")
    /\ Fails
    /\ own' = None
    /\ UNCHANGED <<world, observed>>

-----------------------------------------------------------------------------
(* The classification.                                                     *)

Covers(rule, x, i) == rule.puid = i.matches[1] /\ Extension[x] \in rule.extensions

\* Mutation: a later rule takes precedence.
RiskOfLastRule(x, i) ==
    LET covering == {k \in DOMAIN policy : Covers(policy[k], x, i)} IN
    IF covering = {} THEN "unclassified"
    ELSE policy[CHOOSE k \in covering : \A j \in covering : k >= j].risk

\* The first rule that covers the first match, if one does.
RiskOf(x, i) ==
    LET covering == {k \in DOMAIN policy : Covers(policy[k], x, i)} IN
    IF covering = {} THEN "unclassified"
    ELSE policy[CHOOSE k \in covering : \A j \in covering : k <= j].risk

classify_record(x, i) ==
    LET risk == RiskOf(x, i)
        flagged == {w \in {"FORMAT_UNCLASSIFIED"} : risk = "unclassified"}
                   \cup {w \in {"FORMAT_OBSOLESCENCE_WARNING"} : risk = "medium"}
                   \cup {w \in {"FORMAT_IDENTIFICATION_WEAK"} :
                           risk \in {"minimal", "low"} /\ i.warning} IN
    IF Unidentified(i) THEN Inconclusive(x)
    ELSE Judged(x, {e \in {"FORMAT_OBSOLESCENCE_RISK"} : risk \in {"high", "critical"}}, flagged)

\* Mutation: a record without a format is passed over as well.
ClassifiedIfIdentified(report) ==
    {classify_record(x, report[x]) :
        x \in {y \in There(report) \cap Members : ~Unidentified(report[y])}}

\* Everything but the payload of archives is passed over: an archive's own record
\* too, with the error that says why its payload is missing.
Classified(report) ==
    {classify_record(x, report[x]) : x \in There(report) \cap Members}

LoadReport ==
    /\ At("load")
    /\ LET report == IF given = None THEN own ELSE given IN
       /\ report # Invalid
       /\ noted' = Classified(report)
    /\ GoTo("gather", "save")
    /\ UNCHANGED <<run, saved, world, local, observed>>

LoadFails ==
    /\ At("load")
    /\ Fails
    /\ UNCHANGED <<world, own, observed>>

-----------------------------------------------------------------------------
(* The end of the audit.                                                   *)

\* bool(results) and no UNKNOWN
Whole == noted # {} /\ ~Has(noted, "UNKNOWN")

Close ==
    /\ SaveResults \/ FinishRun(Whole) \/ DatabaseRaises \/ FailRun \/ Crash
    /\ UNCHANGED <<world, local, observed>>

\* finally: the audit's own report is removed, never the operator's.
Cleanup ==
    /\ pc \in {"done", "raised"} /\ stage # "over"
    /\ stage' = "over"
    /\ own' = IF generated THEN None ELSE own
    /\ UNCHANGED <<runVars, world, todo, generated, observed>>

\* An archive that is removed takes its payload with it.
FileChanges(x) ==
    \E i \in Identified \cup {Absent} :
        LET gone == IF i = Absent THEN {x} \cup Within(x) ELSE {} IN
        /\ tree[x] # i
        /\ tree' = [y \in Items |-> IF y \in gone THEN Absent ELSE IF y = x THEN i ELSE tree[y]]
        /\ Consistent(tree')
        /\ IF pc = "idle" THEN UNCHANGED observed
           ELSE /\ during' = IF i = Absent THEN during ELSE during \cup {<<x, i>>}
                /\ absent' = absent \cup gone
        /\ UNCHANGED <<runVars, policy, given, local>>

Next ==
    \/ Start \/ LoadPolicy \/ BeginReport \/ NoExecutable
    \/ \E x \in Items : Identify(x) \/ FileChanges(x)
    \/ EndReport \/ SiegfriedFails \/ LoadReport \/ LoadFails
    \/ Close \/ Cleanup

Spec == Init /\ [][Next]_vars

-----------------------------------------------------------------------------
(* Properties.                                                             *)

\* The first rule of the policy for a format under an extension.
RatedAmong(x, i, risks) ==
    \E k \in DOMAIN policy :
        /\ policy[k].puid = i.matches[1] /\ Extension[x] \in policy[k].extensions
        /\ policy[k].risk \in risks
        /\ \A j \in 1..(k - 1) : ~(policy[j].puid = i.matches[1]
                                   /\ Extension[x] \in policy[j].extensions)

\* What the report of the audit rests on for a file.
SaidOf(x) == IF given = None THEN {i \in Identified : <<x, i>> \in during} ELSE {given[x]}

\* A file passes only if Siegfried did identify it, under a format whose first
\* rule calls it low or minimal, and fails only if that rule calls it high or
\* critical (README:256-258, first of the rules: classify_record).
RatedByFirstRule ==
    \A n \in noted :
        /\ n.status = "PASS" =>
              \E i \in SaidOf(n.item) :
                 ~Unidentified(i) /\ ~i.warning /\ RatedAmong(n.item, i, {"minimal", "low"})
        /\ n.status = "FAIL" =>
              \E i \in SaidOf(n.item) : RatedAmong(n.item, i, {"high", "critical"})

\* Siegfried could read the file whenever it may have come to it.
Readable(x) == \A i \in Identified : <<x, i>> \in during => ~Unidentified(i)

\* A run that is PASS or WARNING, and made its report itself, has a result for
\* every payload file that was there all along.  The exception is the payload of
\* an archive that Siegfried could not read: classify_record drops the archive's
\* record before it looks at its errors.
PayloadCovered ==
    run.status \in {"PASS", "WARNING"} /\ given = None =>
        \A x \in Members \ absent : Readable(ArchiveOf[x]) => \E n \in saved : n.item = x

\* Whatever goes wrong before the process dies, the temporary report is removed,
\* which only generate_siegfried_report can do before it returns its name.
ReportRemoved == stage = "over" => own = None

===============================================================================
