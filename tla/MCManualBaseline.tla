--------------------------- MODULE MCManualBaseline ---------------------------
(* Small instances of ManualBaseline for TLC.                                *)
EXTENDS ManualBaseline, TLC

CONSTANTS fa, fb, c1, d1, d2

MCDirOf == [f \in Files |-> IF f = fa THEN d1 ELSE d2]

SomeCommandLeft == \E r \in RunIds : pc[r] \in {"idle", "walk", "hash", "insert"}

\* Contents of one checksum are one content: c1 is 1 long, any other 2.
SizeOfItsChecksum ==
    \A f \in Files : tree[f] \in Content =>
        tree[f].size = IF tree[f].checksum = c1 THEN 1 ELSE 2

EitherRun == Permutations(RunIds)
===============================================================================
