------------------------------ MODULE MCExporter ------------------------------
(* Small instances of Exporter for TLC.                                      *)
EXTENDS Exporter, TLC

RunSymmetry == Permutations(RunIds)

Begun == {kind[r] : r \in {q \in RunIds : stage[q] # "idle"}}

\* Samples of two kinds are never compared: one kind is scraped, and either it is
\* that of every execution, or these are a job and a check.
OneKindScraped ==
    LET scraped == {k \in Kinds : shown[k] # Nothing \/ (step # "idle" /\ query = k)} IN
    /\ Cardinality(scraped) <= 1
    /\ \/ Begun \subseteq {"integrity", "baseline_auto"} /\ scraped \subseteq {"integrity", "baseline_auto"}
       \/ \E k \in Kinds : Begun \subseteq {k} /\ scraped \subseteq {k}

\* Two classes of results in one run, or one in each.
FewRows == Cardinality({<<r, n>> \in RunIds \X UNION {Rows[k] : k \in Kinds} : n \in saved[r]}) <= 2
===============================================================================
