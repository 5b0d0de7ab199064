------------------------------ MODULE MCBagAudit ------------------------------
(* Small instances of BagAudit for TLC.                                      *)
EXTENDS BagAudit, TLC

CONSTANTS pz, pd, f1, f2, c1, c2, top, data

MCDirOf == [p \in Packages |-> top]
MCDataDir == [p \in Packages |-> data]

MCCodes ==
    {"BAG_SYMLINK", "BAG_UNSAFE", "BAG_REQUIRED_TAG_MISSING",
     "BAG_UNSUPPORTED_VERSION", "BAG_INVALID_TAG_FILE", "BAG_INVALID_MANIFEST",
     "BAG_SUPPORTED_MANIFEST_MISSING", "BAG_PAYLOAD_MISSING",
     "BAG_PAYLOAD_UNLISTED", "BAG_CHECKSUM_MISMATCH", "BAG_READ_ERROR",
     "BAG_TAG_FILE_MISSING", "BAG_TAG_CHECKSUM_MISMATCH",
     "BAG_NONSTANDARD_TAG_CONTINUATION", "BAG_WEAK_MANIFEST_ALGORITHM",
     "BAG_STRONG_MANIFEST_MISSING"}

First == [f \in Payload |-> IF f = f1 THEN c1 ELSE None]
Both == [f \in Payload |-> c1]
Other == [f \in Payload |-> IF f = f1 THEN c2 ELSE c1]

Made(declared) ==
    [tags |-> "good", tagManifest |-> "agrees", weakTags |-> FALSE, unsafe |-> FALSE,
     manifest |-> [a \in Algorithms |->
         IF a \in DOMAIN declared THEN declared[a] ELSE None]]

\* In the second one it matters which manifest counts.
Good == {Made([sha256 |-> First]), Made([sha512 |-> Both, md5 |-> Other])}

MCStructures ==
    Good \cup {Made([sha256 |-> Malformed]), Made([sha1 |-> Both]), Made([md5 |-> First]),
               [Made([sha256 |-> Both]) EXCEPT !.unsafe = TRUE],
               [Made([sha256 |-> First]) EXCEPT !.weakTags = TRUE]}
    \cup {[Made([sha256 |-> First]) EXCEPT !.tags = t] :
            t \in {"lacking", "unsupported", "nonstandard", "malformed"}}
    \cup {[Made([sha256 |-> First]) EXCEPT !.tagManifest = t] :
            t \in {"none", "differs", "lacks", "malformed"}}

\* What happens after the audit is of no interest.
StillRunning == pc \notin {"done", "raised", "dead"}

\* At most this many changes of the world during an audit, counted by what
\* they leave in the observers.
MaxChanges == 2
FewChanges ==
    /\ Cardinality(during) <= Cardinality(Packages \X Payload) + MaxChanges
    /\ Cardinality(lost) <= 1 /\ Cardinality(hidden) <= 1
    /\ Cardinality(during) + Cardinality(lost) + Cardinality(hidden)
          <= Cardinality(Packages \X Payload) + MaxChanges

\* A package and its payload as they should be, and nothing happens to them.
Quiet(p) ==
    /\ file[p] = [f \in Payload |-> IF f = f1 THEN c1 ELSE Absent]
    /\ place[p] = "there" /\ p \notin lost \cup unread

\* One package is explored at a time.  What happens to its files, to itself and
\* to directories is explored for packages of strong manifests and no defect, the
\* others are explored undisturbed.  The second file is there or not.
OneAtATime ==
    /\ \E p \in Packages : \A q \in Packages \ {p} :
          Quiet(q) /\ structure[q] = Made([sha256 |-> First])
    /\ \A p \in Packages : file[p][f2] \in {c1, Absent}
    /\ \A p \in Packages : structure[p] \in Good \/ (Quiet(p) /\ hidden \cup unreadable = {})
===============================================================================
