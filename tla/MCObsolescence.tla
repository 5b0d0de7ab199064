---------------------------- MODULE MCObsolescence ----------------------------
(* Small instances of Obsolescence for TLC.                                  *)
EXTENDS Obsolescence, TLC

CONSTANTS m1, m2, zip, p1, p2, pdf, txt

MCArchiveOf == [x \in {m1, m2} |-> zip]

MCExtension == [x \in Items |-> IF x = m1 THEN pdf ELSE txt]

MCCodes ==
    {"FORMAT_OBSOLESCENCE_RISK", "FORMAT_OBSOLESCENCE_WARNING",
     "FORMAT_UNCLASSIFIED", "FORMAT_IDENTIFICATION_WEAK"}

Rated(puid, extensions, risk) == [puid |-> puid, extensions |-> extensions, risk |-> risk]

\* The order of the rules matters in the second, extensions do in both.
MCPolicies ==
    {<<Rated(p1, {pdf}, "low"), Rated(p2, {pdf, txt}, "high")>>,
     <<Rated(p1, {pdf}, "critical"), Rated(p1, {pdf, txt}, "minimal"),
       Rated(p2, {txt}, "medium")>>}

As(matches, warning, failed) == [matches |-> matches, warning |-> warning, failed |-> failed]

Plain == As(<<p1>>, FALSE, FALSE)
Failed == As(<<p1>>, FALSE, TRUE)

MCIdentified ==
    {Plain, Failed, As(<<p2, p1>>, FALSE, FALSE), As(<<p1>>, TRUE, FALSE),
     As(<<Unknown>>, FALSE, FALSE)}

\* At most this many changes of files are explored.
MaxChanges == 2

\* The second file is of the first format, not identified or not there; the
\* archive can be read, cannot be opened or is not there.
FewFiles(t) ==
    /\ t[m2] \in {Absent, Plain, As(<<Unknown>>, FALSE, FALSE)}
    /\ t[zip] \in {Absent, Plain, Failed}
FewChanges == Cardinality(during) + Cardinality(absent) <= Cardinality(Items) + MaxChanges

\* With a report of the operator the tree is of no interest.
Interesting ==
    /\ FewFiles(tree) \/ (given # None /\ tree = Empty)
    /\ given \in Reports => FewFiles(given)
    /\ given # None => tree = Empty
    /\ pc # "dead" /\ stage # "over"
===============================================================================
