---------------------------- MODULE MCReplicaAudit ----------------------------
(* Small instances of ReplicaAudit for TLC.                                  *)
EXTENDS ReplicaAudit, TLC

CONSTANTS c1, t1, t2, b1

\* What happens once the last audit is over is of no interest.
SomeAuditLeft == \E r \in RunIds : pc[r] \notin {"done", "dead"}

\* An object differs from the registered one in one respect at most.
OneDifference ==
    \A p \in Places : object[p] # Missing => object[p].size = 1 \/ object[p].checksum = c1

\* All that may happen is explored for the first replica.  The second keeps its
\* bucket, and its object is there or not; one registration is of interest.
SecondReplicaIsPlain ==
    /\ bucket[t2] = b1
    /\ \A k \in Keys : object[<<t2, k>>] \in {Missing, [size |-> 1, checksum |-> NoChecksum]}
    /\ \A b \in baselines : b.size = 1 /\ b.checksum = c1
===============================================================================
