----------------------------- MODULE ReplicaCheck -----------------------------
(***************************************************************************)
(* How the answer of an S3 HEAD request to one replica is judged           *)
(* (verify_replicas, replicas.py).  Registration and the periodic replica  *)
(* audit judge answers with the same function.                             *)
(***************************************************************************)
EXTENDS AuditStore

CONSTANTS
    NoSize,           \* the answer has no Content-Length
    NoChecksum,       \* the object carries no checksum metadata
    RequireChecksum   \* replicas whose configuration demands the metadata

ASSUME NoChecksumAssumption ==
    NoChecksum \notin Checksums /\ RequireChecksum \subseteq Replicas

ASSUME NoSizeAssumption == NoSize \notin Sizes

\* "missing" is HTTP 404; "failed" is any other error, timeouts included.
Answer == [status : {"found", "missing", "failed"}, size : Sizes \cup {NoSize},
           checksum : Checksums \cup {NoChecksum}]

\* Mutation: an absent checksum passes, whatever the configuration demands.
ChecksumAcceptedIfAbsent(t, a, checksum) == a.checksum \in {checksum, NoChecksum}

ChecksumAccepted(t, a, checksum) ==
    \/ a.checksum = checksum
    \/ a.checksum = NoChecksum /\ t \notin RequireChecksum

\* The replica holds the object with the expected size and, where it reports a
\* checksum, the expected checksum; any other answer raises, one that does not
\* tell the size included.
Accepts(t, a, size, checksum) ==
    /\ a.status = "found"
    /\ a.size = size
    /\ ChecksumAccepted(t, a, checksum)

\* Mutation: the checksum itself in place of whether there was one.
EvidenceForRaw(event, t, key, a) ==
    [event |-> event, replica |-> t, key |-> key, size |-> a.size,
     verified |-> a.checksum]

\* ReplicaEvidence for an accepted answer, as the row it becomes.
EvidenceFor(event, t, key, a) ==
    [event |-> event, replica |-> t, key |-> key, size |-> a.size,
     verified |-> a.checksum # NoChecksum]

=============================================================================
