--------------------------- MODULE MCIntegrityCheck ---------------------------
(* Small instances of IntegrityCheck for TLC.                                *)
EXTENDS IntegrityCheck, TLC

CONSTANTS fa, fb, alias, c1, d1, d2

\* Each file in a directory of its own; "alias" is "./a", never walked.
MCDirOf == [f \in Files |-> IF f = fa THEN d1 ELSE d2]

\* What happens to the files after the last check is over is of no interest.
SomeCheckLeft == \E r \in RunIds : pc[r] \notin {"done", "dead"}

\* All that may happen is explored for the first file and its directory.  The
\* second file is there or not, with one content, in a directory that can
\* always be listed; it and the other spelling are registered before the check
\* starts, or not at all.
Plain(p) == \A b \in baselines : b.path = p =>
    b.checksum = c1 /\ \A r \in RunIds : pc[r] = "idle" \/ b \in atStart[r]

SecondFileIsPlain ==
    /\ d2 \notin unreadable
    /\ fb \in Files => tree[fb] \in {Absent, [checksum |-> c1, size |-> 1]}
    /\ Plain(fb) /\ Plain(alias)
===============================================================================
