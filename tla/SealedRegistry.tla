---------------------------- MODULE SealedRegistry ----------------------------
(***************************************************************************)
(* What the registry of baselines promises to an auditor, whatever the     *)
(* number of processes that write it: an entry appears whole, once, and is *)
(* never changed or removed.  An entry sealed from a completion event      *)
(* carries the evidence of every replica; one sealed by hand carries none. *)
(***************************************************************************)
CONSTANTS Paths, Checksums, Sizes, Events, Aips, Replicas, Keys

VARIABLE sealed

\* The empty set for an entry made by hand, else the event it comes from.
Origin == {{}} \cup {{o} : o \in [event : Events, aip : Aips]}

Copy == [replica : Replicas, key : Keys, size : Sizes, verified : BOOLEAN]

Entry == [path : Paths, checksum : Checksums, size : Sizes,
          origin : Origin, copies : SUBSET Copy]

\* One copy of the right size in every replica, or none for an entry by hand.
Evidenced(n) ==
    IF n.origin = {}
    THEN n.copies = {}
    ELSE /\ \A c \in n.copies : c.size = n.size
         /\ \A t \in Replicas : \E c \in n.copies :
                c.replica = t /\ \A d \in n.copies : d.replica = t => d = c

Init == sealed = {}

\* Exactly one entry is added: a path no entry has, an event no entry has.
Seal ==
    \E n \in sealed' :
        /\ sealed' = sealed \cup {n}
        /\ n \in Entry
        /\ Evidenced(n)
        /\ \A m \in sealed :
            /\ m.path # n.path
            /\ \A o \in m.origin, p \in n.origin : o.event # p.event

Spec == Init /\ [][Seal]_sealed
===============================================================================
