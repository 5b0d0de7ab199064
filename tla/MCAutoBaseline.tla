---------------------------- MODULE MCAutoBaseline ----------------------------
(* Small instances of AutoBaseline for TLC.                                  *)
EXTENDS AutoBaseline, TLC

CONSTANTS fa, alias, e1, e2, p1, c1, c2, t1, k1, k2

MCPaths == {fa, alias}
MCFileAt == [p \in MCPaths |-> fa]

Receipt(event, path, checksum, size) ==
    [event |-> event, aip |-> p1, path |-> path, checksum |-> checksum,
     size |-> size, keys |-> [t \in Replicas |-> IF t = t1 THEN k1 ELSE k2]]

\* Two receipts of one AIP, one event told twice with different paths, and one
\* that is not trusted.
GoodReceipt == Receipt(e1, fa, c1, 1)
MCReceipts == {GoodReceipt, Receipt(e1, alias, c1, 1), Receipt(e2, fa, c1, 1),
               Receipt(e2, alias, c2, 1)}
MCTrusted == MCReceipts \ {Receipt(e2, alias, c2, 1)}

RunSymmetry == Permutations(RunIds)
===============================================================================
