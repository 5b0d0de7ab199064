---------------------------- MODULE BagAuditProofs ----------------------------
(***************************************************************************)
(* Proofs about BagAudit, for any packages, payloads and contents.         *)
(***************************************************************************)
EXTENDS BagAudit, AuditRunProofs

\* Where the walk stands: what was discovered has its result, or is at hand.
Walk ==
    /\ pc = "idle" => pending = {} /\ queue = {} /\ discovered = {} /\ current = None
    /\ current = None <=> step = "walk"
    /\ current = None => errors = {} /\ warnings = {}
    /\ step = "list" => errors = {} /\ warnings = {}
    /\ current # None => current \in discovered /\ saved = {}
    /\ \A p \in discovered : p = current \/ \E n \in noted : n.item = p
    /\ \A n \in noted : n.item \in discovered /\ n.item # current
    /\ \A p \in queue : p \notin discovered /\ DirOf[p] \notin pending
    /\ \A p \in discovered : DirOf[p] \notin pending
    /\ pc \in {"save", "finish", "done"} => queue = {} /\ pending = {} /\ current = None

\* A package the walk passes over was not there, or was hidden.
Reached ==
    pc # "idle" => \A p \in Packages :
        p \in discovered \cup queue \/ DirOf[p] \in pending \/ p \in lost \/ DirOf[p] \in hidden

\* The observers miss nothing.
Seen ==
    /\ pc # "idle" => /\ \A p \in Packages, f \in Payload : <<p, f, file[p][f]>> \in during
                      /\ \A p \in Packages : place[p] # "there" => p \in lost
                      /\ unreadable \subseteq hidden
    /\ \A p \in Packages : place[p] \in PlaceStates(p)

\* What a package may be FAIL for.
Defect(p) ==
    LET s == structure[p] IN
    \/ ~Sound(s) \/ Entries(s) = Malformed \/ p \in lost \cup unread \/ Hidden(p)
    \/ \E f \in Payload, c \in FileState :
          <<p, f, c>> \in during /\ c # IF Entries(s)[f] = None THEN Absent ELSE Entries(s)[f]

\* The errors that speak of contents are true of contents the package had.
CodesAreReal(p, found) ==
    LET s == structure[p] IN
    /\ "BAG_CHECKSUM_MISMATCH" \in found =>
          \E f \in Payload, c \in Contents :
             <<p, f, c>> \in during /\ Entries(s)[f] \in Contents \ {c}
    /\ "BAG_PAYLOAD_MISSING" \in found =>
          Hidden(p) \/ \E f \in Payload : Entries(s)[f] # None /\ <<p, f, Absent>> \in during
    /\ "BAG_PAYLOAD_UNLISTED" \in found =>
          \E f \in Payload : Entries(s)[f] = None
             /\ \E c \in FileState \ {Absent} : <<p, f, c>> \in during

\* What a package that is not FAIL has shown.
Passes(p, clean) ==
    LET s == structure[p]
        strong == Declared(s) \cap {"sha512", "sha256"} IN
    /\ Sound(s)
    /\ \E a \in IF strong = {} THEN {"md5"} ELSE strong : Verified(p, s.manifest[a])
    /\ clean => Declared(s) = strong /\ ~s.weakTags /\ s.tags = "good"

Grounded(n) ==
    /\ n.status \in {"PASS", "WARNING"} => Passes(n.item, n.status = "PASS")
    /\ CodesAreReal(n.item, n.errors)
    /\ n.status = "FAIL" => Defect(n.item)

\* What is known of the package at hand after each step of its validation.
Listed(p, names) ==
    /\ ~structure[p].unsafe
    /\ \A f \in Payload \ names : <<p, f, Absent>> \in during \/ Hidden(p)
    /\ \A f \in names : \E c \in FileState \ {Absent} : <<p, f, c>> \in during

Tagged(p, found, flagged) ==
    found = {} => /\ structure[p].tags \in {"good", "nonstandard"}
                  /\ flagged = {} => structure[p].tags = "good"

Covers(p, names, rest, found) ==
    LET s == structure[p] IN
    /\ HasManifest(s) /\ Entries(s) # Malformed
    /\ rest \subseteq {f \in Payload : Entries(s)[f] # None}
    /\ found = {} =>
          /\ \A f \in Payload : Entries(s)[f] # None <=> f \in names
          /\ \A f \in names \ rest : <<p, f, Entries(s)[f]>> \in during

Checked(p, found) ==
    found = {} => HasManifest(structure[p]) /\ Verified(p, Entries(structure[p]))

Known(p, at, names, rest, found, flagged) ==
    /\ CodesAreReal(p, found) /\ (found # {} => Defect(p))
    /\ at # "list" => Listed(p, names)
    /\ at \notin {"list", "tags"} => Tagged(p, found, flagged)
    /\ at \in {"digest", "tag manifest"} /\ flagged = {} => Weaknesses(structure[p]) = {}
    /\ at = "digest" => Covers(p, names, rest, found)
    /\ at = "tag manifest" => Checked(p, found)

AtHand == current # None => Known(current, step, listed, left, errors, warnings)

IndInv ==
    /\ TypeOK /\ RunInv /\ Walk /\ Reached /\ Seen /\ AtHand
    /\ \A n \in noted : Grounded(n)

-----------------------------------------------------------------------------
(* About packages.                                                         *)

LEMMA StructureType ==
    ASSUME TypeOK, NEW p \in Packages
    PROVE  structure[p] \in Structure
  BY BagAssumption DEF TypeOK

\* The manifest that is verified is one of the package's, strong if it has one.
LEMMA PreferredIsDeclared ==
    ASSUME NEW s \in Structure, HasManifest(s)
    PROVE  /\ Preferred(s) \in Declared(s)
           /\ Entries(s) # Malformed => Entries(s) \in [Payload -> Contents \cup {None}]
           /\ LET strong == Declared(s) \cap {"sha512", "sha256"} IN
              Preferred(s) \in IF strong = {} THEN {"md5"} ELSE strong
  <1>1. Declared(s) \subseteq Algorithms /\ \E a \in Declared(s) : a # "sha1"
    BY DEF HasManifest, Declared
  <1>2. Preferred(s) \in Declared(s)
    BY <1>1 DEF Preferred, Algorithms
  <1>3. s.manifest[Preferred(s)] \in Manifest \ {None}
    BY <1>1, <1>2 DEF Structure, Declared
  <1>4. Entries(s) # Malformed => Entries(s) \in [Payload -> Contents \cup {None}]
    BY <1>3 DEF Entries, Manifest
  <1>5. QED
    BY <1>1, <1>2, <1>4 DEF Preferred, Algorithms

\* Without weaknesses, every algorithm declared is a strong one, and no tag
\* manifest is of a weak one.
LEMMA WeaknessesShow ==
    ASSUME NEW s \in Structure, Weaknesses(s) = {}
    PROVE  Declared(s) = Declared(s) \cap {"sha512", "sha256"} /\ ~s.weakTags
  <1>1. Declared(s) \cap {"md5", "sha1"} = {} /\ ~s.weakTags
    BY DEF Weaknesses
  <1>2. Declared(s) \subseteq Algorithms
    BY DEF Declared
  <1>3. QED
    BY <1>1, <1>2 DEF Algorithms

LEMMA JudgedStatus ==
    ASSUME NEW x, NEW found, NEW flagged
    PROVE  LET n == Judged(x, found, flagged) IN
           /\ n.item = x /\ n.errors = found
           /\ n.status \in {"PASS", "WARNING"} => found = {}
           /\ n.status = "PASS" => flagged = {}
           /\ n.status = "FAIL" => found # {}
  BY DEF Judged

-----------------------------------------------------------------------------
(* What was seen remains so.                                               *)

LEMMA ObservedKept ==
    ASSUME NEW p, structure' = structure, during \subseteq during',
           lost \subseteq lost', hidden \subseteq hidden', unread \subseteq unread'
    PROVE  /\ Defect(p) => Defect(p)'
           /\ \A found : CodesAreReal(p, found) => CodesAreReal(p, found)'
           /\ \A clean \in BOOLEAN : Passes(p, clean) => Passes(p, clean)'
           /\ \A names : Listed(p, names) => Listed(p, names)'
           /\ \A names, rest, found : Covers(p, names, rest, found) => Covers(p, names, rest, found)'
           /\ \A found : Checked(p, found) => Checked(p, found)'
           /\ \A found, flagged : Tagged(p, found, flagged) => Tagged(p, found, flagged)'
  <1>1. Hidden(p) => Hidden(p)'
    BY DEF Hidden
  <1>2. \A entries : Verified(p, entries) => Verified(p, entries)'
    BY <1>1 DEF Verified
  <1>3. Defect(p) => Defect(p)'
    BY <1>1 DEF Defect
  <1>4. \A found : CodesAreReal(p, found) => CodesAreReal(p, found)'
    BY <1>1 DEF CodesAreReal
  <1>5. \A clean \in BOOLEAN : Passes(p, clean) => Passes(p, clean)'
    BY <1>2 DEF Passes
  <1>6. \A names : Listed(p, names) => Listed(p, names)'
    BY <1>1 DEF Listed
  <1>7. \A names, rest, found : Covers(p, names, rest, found) => Covers(p, names, rest, found)'
    BY DEF Covers
  <1>8. \A found : Checked(p, found) => Checked(p, found)'
    BY <1>2 DEF Checked
  <1>9. \A found, flagged : Tagged(p, found, flagged) => Tagged(p, found, flagged)'
    BY DEF Tagged
  <1>10. QED
    BY <1>3, <1>4, <1>5, <1>6, <1>7, <1>8, <1>9

LEMMA GroundedKept ==
    ASSUME NEW n, Grounded(n), structure' = structure, during \subseteq during',
           lost \subseteq lost', hidden \subseteq hidden', unread \subseteq unread'
    PROVE  Grounded(n)'
  <1>1. (n.status = "PASS") \in BOOLEAN
    OBVIOUS
  <1>2. QED
    BY <1>1, ObservedKept DEF Grounded

LEMMA KnownKept ==
    ASSUME NEW p, NEW at, NEW names, NEW rest, NEW found, NEW flagged,
           Known(p, at, names, rest, found, flagged), structure' = structure,
           during \subseteq during', lost \subseteq lost', hidden \subseteq hidden',
           unread \subseteq unread'
    PROVE  Known(p, at, names, rest, found, flagged)'
  <1>1. Weaknesses(structure[p])' = Weaknesses(structure[p])
    OBVIOUS
  <1>2. QED
    BY <1>1, ObservedKept DEF Known

-----------------------------------------------------------------------------
(* The steps of a validation.                                              *)

\* A validation ends with a result that rests on what was seen.
LEMMA ConcludeKeeps ==
    ASSUME IndInv, pc = "gather", current # None, NEW r \in Result, r.item = current,
           Conclude(r), UNCHANGED <<world, discovered, observed>>,
           unread \subseteq unread', unread' \subseteq Packages, Grounded(r)'
    PROVE  IndInv'
  <1> USE DEF IndInv
  <1>1. /\ noted' = noted \cup {r} /\ current' = None /\ step' = "walk"
        /\ listed' = {} /\ left' = {} /\ errors' = {} /\ warnings' = {}
        /\ UNCHANGED <<pc, run, saved, pending, queue, place, structure, file, unreadable,
                       discovered, during, lost, hidden>>
    BY DEF Conclude, world, observed
  <1>2. \A n \in noted : n.item # r.item
    BY DEF Walk
  <1>3. noted' \subseteq Result /\ OneEach(noted')
    BY <1>1, <1>2, OneMore DEF RunInv, TypeOK, RunTypeOK
  <1>4. RunTypeOK' /\ RunInv'
    BY <1>1, <1>3, GatheringStep DEF TypeOK
  <1>5. TypeOK'
    BY <1>1, <1>4 DEF TypeOK, PlaceStates
  <1>6. Walk'
    <2>1. discovered \subseteq Packages /\ None \notin Packages
      BY BagAssumption DEF TypeOK
    <2>2. \A n \in noted' : n.item \in discovered'
      BY <1>1 DEF Walk
    <2>3. \A p \in discovered' : \E n \in noted' : n.item = p
      BY <1>1 DEF Walk
    <2>4. current' = None /\ step' = "walk" /\ pc' = "gather"
      BY <1>1
    <2>5. /\ \A p \in queue' : p \notin discovered' /\ DirOf[p] \notin pending'
          /\ \A p \in discovered' : DirOf[p] \notin pending'
      BY <1>1 DEF Walk
    <2>6. QED
      BY <1>1, <2>1, <2>2, <2>3, <2>4, <2>5 DEF Walk
  <1>7. Reached' /\ Seen' /\ AtHand'
    BY <1>1 DEF Reached, Seen, AtHand, PlaceStates
  <1>8. \A n \in noted' : Grounded(n)'
    BY <1>1, GroundedKept
  <1>9. QED
    BY <1>4, <1>5, <1>6, <1>7, <1>8

\* A validation goes on with what is known after the step.
LEMMA ContinueKeeps ==
    ASSUME IndInv, pc = "gather", current # None,
           NEW next \in {"tags", "manifest", "digest", "tag manifest"}, Continue(next),
           UNCHANGED <<world, discovered, observed, unread>>,
           NEW names \in SUBSET Payload, NEW rest \in SUBSET Payload,
           NEW found \in SUBSET Codes, NEW flagged \in SUBSET Codes,
           listed' = names, left' = rest, errors' = found, warnings' = flagged,
           Known(current, next, names, rest, found, flagged)
    PROVE  IndInv'
  <1> USE DEF IndInv
  <1>1. /\ step' = next
        /\ UNCHANGED <<pc, run, noted, saved, current, pending, queue, place, structure, file,
                       unreadable, discovered, during, lost, hidden, unread>>
    BY DEF Continue, world, observed, runVars
  <1>2. UNCHANGED runVars
    BY DEF Continue
  <1>3. RunTypeOK' /\ RunInv'
    BY <1>2, IdleStep DEF TypeOK
  <1>4. TypeOK'
    BY <1>1, <1>3 DEF TypeOK, PlaceStates
  <1>5. Walk' /\ Reached' /\ Seen'
    BY <1>1 DEF Walk, Reached, Seen, PlaceStates
  <1>6. ASSUME NEW p, p = current
        PROVE  Known(p, next, names, rest, found, flagged)'
    BY <1>1, <1>6, KnownKept
  <1>7. AtHand'
    BY <1>1, <1>6 DEF AtHand
  <1>8. \A n \in noted' : Grounded(n)'
    BY <1>1, GroundedKept
  <1>9. QED
    BY <1>3, <1>4, <1>5, <1>7, <1>8

\* A result of what was judged rests on what was seen.
LEMMA JudgedGrounded ==
    ASSUME NEW p, NEW found, NEW flagged, CodesAreReal(p, found), found # {} => Defect(p),
           NEW clean \in BOOLEAN, clean = (Judged(p, found, flagged).status = "PASS"),
           found = {} => Passes(p, clean)
    PROVE  Grounded(Judged(p, found, flagged))
  BY JudgedStatus DEF Grounded

LEMMA InconclusiveGrounded ==
    ASSUME NEW p PROVE Grounded(Inconclusive(p))
  BY DEF Grounded, Inconclusive, CodesAreReal

\* A package is rejected for a defect of it, with what was known before.
LEMMA RejectKeeps ==
    ASSUME IndInv, pc = "gather", current # None, NEW codes \in SUBSET Codes, errors \cup codes # {},
           NEW p, p = current, Defect(p)', CodesAreReal(p, errors \cup codes),
           NEW flagged \in SUBSET Codes,
           Conclude(Judged(current, errors \cup codes, flagged)),
           UNCHANGED <<world, discovered, observed>>,
           unread \subseteq unread', unread' \subseteq Packages
    PROVE  IndInv'
  <1> DEFINE found == errors \cup codes
             r == Judged(current, found, flagged)
  <1>1. current \in Packages /\ current \in Items /\ found \in SUBSET Codes
    BY BagAssumption DEF IndInv, TypeOK
  <1>2. r \in Result /\ r.item = current
    BY <1>1, JudgedType, JudgedStatus
  <1>3. r.errors = found /\ r.status = "FAIL"
    BY DEF Judged
  <1>4. UNCHANGED <<structure, during, lost, hidden>>
    BY DEF world, observed
  <1>5. ASSUME NEW n, n = r PROVE Grounded(n)'
    <2>1. \A f : CodesAreReal(p, f) => CodesAreReal(p, f)'
      BY <1>4, ObservedKept
    <2>2. n.item = p /\ n.errors = found /\ n.status = "FAIL"
      BY <1>2, <1>3, <1>5
    <2>3. Defect(n.item)' /\ CodesAreReal(n.item, n.errors)'
      BY <2>1, <2>2
    <2>4. QED
      BY <2>2, <2>3 DEF Grounded
  <1>6. ASSUME NEW n, n = r PROVE IndInv'
    <2>1. Grounded(n)'
      BY <1>5, <1>6
    <2>2. n \in Result /\ n.item = current /\ Conclude(n)
      BY <1>2, <1>6
    <2>3. QED
      BY <2>1, <2>2, ConcludeKeeps
  <1>7. QED
    BY <1>6

LEMMA HandFacts ==
    ASSUME IndInv, pc = "gather", current # None, NEW p, p = current
    PROVE  /\ p \in Packages /\ p \in Items /\ structure[p] \in Structure
           /\ Known(p, step, listed, left, errors, warnings)
           /\ \A f \in Payload : file[p][f] \in FileState /\ <<p, f, file[p][f]>> \in during
           /\ place[p] # "there" => p \in lost
           /\ place[p] \in PlaceStates(p)
           /\ unreadable \subseteq hidden
           /\ listed \in SUBSET Payload /\ left \in SUBSET Payload
           /\ errors \in SUBSET Codes /\ warnings \in SUBSET Codes
  <1>1. p \in Packages
    BY DEF IndInv, TypeOK
  <1>2. structure[p] \in Structure /\ p \in Items
    BY <1>1, StructureType, BagAssumption DEF IndInv
  <1>3. Known(p, step, listed, left, errors, warnings)
    BY DEF IndInv, AtHand
  <1>4. /\ \A f \in Payload : file[p][f] \in FileState /\ <<p, f, file[p][f]>> \in during
        /\ place[p] # "there" => p \in lost
        /\ place[p] \in PlaceStates(p) /\ unreadable \subseteq hidden
    BY <1>1 DEF IndInv, TypeOK, Seen
  <1>5. QED
    BY <1>1, <1>2, <1>3, <1>4 DEF IndInv, TypeOK

LEMMA InconclusiveKeeps ==
    ASSUME IndInv, pc = "gather", current # None, Conclude(Inconclusive(current)),
           UNCHANGED <<world, discovered, observed>>,
           unread \subseteq unread', unread' \subseteq Packages
    PROVE  IndInv'
  <1>1. current \in Items
    BY BagAssumption DEF IndInv, TypeOK
  <1>2. ASSUME NEW n, n = Inconclusive(current) PROVE IndInv'
    <2>1. n \in Result /\ n.item = current /\ Grounded(n)
      BY <1>1, <1>2, InconclusiveType, InconclusiveGrounded DEF Inconclusive
    <2>2. Grounded(n)'
      BY <2>1, GroundedKept DEF world, observed
    <2>3. QED
      BY <1>2, <2>1, <2>2, ConcludeKeeps
  <1>3. QED
    BY <1>2

\* A content that no manifest allows is a defect.
LEMMA WrongContent ==
    ASSUME NEW p, structure[p] \in Structure, NEW f \in Payload, NEW c \in FileState,
           <<p, f, c>> \in during, c \notin Contents \cup {Absent}
    PROVE  Defect(p)
  <1>1. SUFFICES ASSUME Sound(structure[p]), Entries(structure[p]) # Malformed
                 PROVE  Defect(p)
    BY DEF Defect
  <1>2. Entries(structure[p])[f] \in Contents \cup {None}
    BY <1>1, PreferredIsDeclared DEF Sound
  <1>3. c # IF Entries(structure[p])[f] = None THEN Absent ELSE Entries(structure[p])[f]
    BY <1>2
  <1>4. QED
    BY <1>3 DEF Defect

\* Neither of these codes is about contents.
LEMMA RejectCodeKeeps ==
    ASSUME IndInv, pc = "gather", current # None, NEW p, p = current, Defect(p)',
           NEW code \in {"BAG_UNSAFE", "BAG_SYMLINK", "BAG_INVALID_TAG_FILE", "BAG_READ_ERROR"},
           Reject(code), UNCHANGED <<world, discovered, observed>>,
           unread \subseteq unread', unread' \subseteq Packages
    PROVE  IndInv'
  <1>1. {code} \in SUBSET Codes /\ errors \cup {code} # {}
    BY BagAssumption
  <1>2. CodesAreReal(p, errors)
    BY HandFacts DEF Known
  <1>3. CodesAreReal(p, errors \cup {code})
    BY <1>2 DEF CodesAreReal
  <1>4. Conclude(Judged(current, errors \cup {code}, warnings)) /\ warnings \in SUBSET Codes
    BY DEF Reject, IndInv, TypeOK
  <1>5. QED
    BY <1>1, <1>3, <1>4, RejectKeeps

LEMMA ListFilesKeeps == ASSUME IndInv, ListFiles PROVE IndInv'
  <1> DEFINE seen == Visible(current)
  <1>1. /\ pc = "gather" /\ step = "list" /\ current # None
        /\ UNCHANGED <<world, discovered, observed, unread>>
    BY DEF ListFiles, At, IndInv, Walk
  <1>2. /\ errors = {} /\ warnings = {} /\ unread \subseteq unread' /\ unread' \subseteq Packages
        /\ UNCHANGED <<structure, during, lost, hidden>>
    BY <1>1 DEF IndInv, Walk, TypeOK, world, observed
  <1>3. \/ Conclude(Inconclusive(current))
        \/ place[current] = "gone" /\ Conclude(Judged(current,
               {"BAG_REQUIRED_TAG_MISSING", "BAG_SUPPORTED_MANIFEST_MISSING"}, {}))
        \/ structure[current].unsafe /\ Reject("BAG_UNSAFE")
        \/ (\E f \in seen : file[current][f] = Link) /\ Reject("BAG_SYMLINK")
        \/ /\ ~structure[current].unsafe /\ listed' = seen /\ Continue("tags")
           /\ UNCHANGED <<left, errors, warnings>>
    <2>1. current \in Packages /\ place[current] \in PlaceStates(current)
      BY <1>1, HandFacts
    <2>2. \/ current \in Zips /\ place[current] # "there"
          \/ current \notin Zips /\ place[current] = "gone"
          \/ place[current] = "there"
      <3>1. \/ place[current] \in {"there", "gone"}
            \/ place[current] = "broken" /\ current \in Zips
        BY <2>1 DEF PlaceStates
      <3>2. QED
        BY <3>1
    <2>3. structure[current].unsafe \in BOOLEAN
      BY <1>1, HandFacts DEF Structure
    <2>4. CASE place[current] = "there"
      <3>1. CASE structure[current].unsafe
        BY <2>4, <3>1 DEF ListFiles
      <3>2. CASE ~structure[current].unsafe /\ \E f \in seen : file[current][f] = Link
        BY <2>4, <3>2 DEF ListFiles
      <3>3. CASE ~structure[current].unsafe /\ ~\E f \in seen : file[current][f] = Link
        BY <2>4, <3>3 DEF ListFiles
      <3>4. QED
        BY <3>1, <3>2, <3>3
    <2>5. CASE place[current] # "there"
      BY <2>2, <2>5 DEF ListFiles
    <2>6. QED
      BY <2>4, <2>5
  <1>4. CASE Conclude(Inconclusive(current))
    BY <1>1, <1>2, <1>4, InconclusiveKeeps
  <1>5. ASSUME NEW p, p = current PROVE IndInv'
    <2>1. /\ structure[p] \in Structure /\ Known(p, step, listed, left, errors, warnings)
          /\ \A f \in Payload : file[p][f] \in FileState /\ <<p, f, file[p][f]>> \in during
          /\ place[p] # "there" => p \in lost
          /\ unreadable \subseteq hidden /\ p \in Packages
          /\ left \in SUBSET Payload
      BY <1>1, <1>5, HandFacts
    <2>2. seen \in SUBSET Payload
      BY DEF Visible
    <2>3. Defect(p) => Defect(p)'
      BY <1>2, ObservedKept
    <2>4. CASE place[p] = "gone" /\ Conclude(Judged(p,
                  {"BAG_REQUIRED_TAG_MISSING", "BAG_SUPPORTED_MANIFEST_MISSING"}, {}))
      <3>1. Defect(p)
        BY <2>1, <2>4 DEF Defect
      <3> DEFINE codes == {"BAG_REQUIRED_TAG_MISSING", "BAG_SUPPORTED_MANIFEST_MISSING"}
      <3>2. codes \in SUBSET Codes /\ codes # {} /\ {} \in SUBSET Codes
        BY BagAssumption
      <3>3. CodesAreReal(p, errors \cup codes)
        BY <1>2 DEF CodesAreReal
      <3>4. errors \cup codes = codes
        BY <1>2
      <3>5. Conclude(Judged(current, errors \cup codes, {}))
        BY <1>5, <2>4, <3>4
      <3> HIDE DEF codes
      <3>6. QED
        BY <1>1, <1>2, <1>5, <2>3, <3>1, <3>2, <3>3, <3>5, RejectKeeps
    <2>5. ASSUME NEW code \in {"BAG_UNSAFE", "BAG_SYMLINK"}, Reject(code), Defect(p)
          PROVE  IndInv'
      BY <1>1, <1>2, <1>5, <2>3, <2>5, RejectCodeKeeps, BagAssumption DEF IndInv, TypeOK
    <2>6. CASE structure[p].unsafe /\ Reject("BAG_UNSAFE")
      <3>1. Defect(p)
        BY <2>6 DEF Defect, Sound
      <3>2. QED
        BY <2>5, <2>6, <3>1
    <2>7. CASE (\E f \in seen : file[p][f] = Link) /\ Reject("BAG_SYMLINK")
      <3>1. Defect(p)
        BY <2>1, <2>2, <2>7, WrongContent, BagAssumption DEF FileState
      <3>2. QED
        BY <2>5, <2>7, <3>1
    <2>8. CASE /\ ~structure[p].unsafe /\ listed' = seen /\ Continue("tags")
               /\ UNCHANGED <<left, errors, warnings>>
      <3>1. ASSUME NEW f \in Payload \ seen
            PROVE  <<p, f, Absent>> \in during \/ Hidden(p)
        BY <1>5, <2>1 DEF Visible, Hidden
      <3>2. ASSUME NEW f \in seen
            PROVE  \E c \in FileState \ {Absent} : <<p, f, c>> \in during
        BY <1>5, <2>1, <2>2 DEF Visible
      <3>3. Known(p, "tags", seen, left, {}, {})
        BY <1>2, <2>1, <2>8, <3>1, <3>2 DEF Known, Listed
      <3>4. left' = left /\ errors' = {} /\ warnings' = {} /\ {} \in SUBSET Codes
        BY <1>2, <2>8
      <3> HIDE DEF seen
      <3>5. QED
        BY <1>1, <1>5, <2>1, <2>2, <2>8, <3>3, <3>4, ContinueKeeps
    <2>9. QED
      BY <1>3, <1>4, <1>5, <2>4, <2>6, <2>7, <2>8
  <1>6. QED
    BY <1>5

LEMMA ReadTagsKeeps == ASSUME IndInv, ReadTags PROVE IndInv'
  <1>1. /\ pc = "gather" /\ step = "tags" /\ current # None
        /\ UNCHANGED <<world, discovered, observed, unread, structure, during, lost, hidden>>
        /\ unread \subseteq unread' /\ unread' \subseteq Packages
    BY DEF ReadTags, At, IndInv, Walk, TypeOK, world, observed
  <1>2. SUFFICES ASSUME NEW p, p = current PROVE IndInv'
    OBVIOUS
  <1> DEFINE tags == structure[p].tags
             more == {c \in {"BAG_REQUIRED_TAG_MISSING"} : tags = "lacking"}
                     \cup {c \in {"BAG_UNSUPPORTED_VERSION"} : tags = "unsupported"}
             odd == {c \in {"BAG_NONSTANDARD_TAG_CONTINUATION"} : tags = "nonstandard"}
  <1>3. /\ structure[p] \in Structure /\ Known(p, "tags", listed, left, errors, warnings)
        /\ listed \in SUBSET Payload /\ left \in SUBSET Payload
        /\ errors \in SUBSET Codes /\ warnings \in SUBSET Codes
    BY <1>1, <1>2, HandFacts
  <1>4. CASE tags = "malformed" /\ Reject("BAG_INVALID_TAG_FILE")
    <2>1. Defect(p)'
      BY <1>1, <1>4, ObservedKept DEF Defect, Sound
    <2>2. QED
      BY <1>1, <1>2, <1>4, <2>1, RejectCodeKeeps
  <1>5. CASE /\ tags # "malformed" /\ errors' = errors \cup more /\ warnings' = warnings \cup odd
             /\ Continue("manifest") /\ UNCHANGED <<listed, left>>
    <2>1. errors \cup more \in SUBSET Codes /\ warnings \cup odd \in SUBSET Codes
      BY <1>3, BagAssumption
    <2>2. CodesAreReal(p, errors \cup more)
      BY <1>3 DEF CodesAreReal, Known
    <2>3. errors \cup more # {} => Defect(p)
      BY <1>3 DEF Known, Defect, Sound
    <2>4. Tagged(p, errors \cup more, warnings \cup odd)
      <3>1. tags \in {"good", "lacking", "unsupported", "nonstandard", "malformed"}
        BY <1>3 DEF Structure
      <3>2. more = {} => tags \notin {"lacking", "unsupported"}
        OBVIOUS
      <3>3. odd = {} => tags # "nonstandard"
        OBVIOUS
      <3> HIDE DEF more, odd
      <3>4. QED
        BY <1>5, <3>1, <3>2, <3>3 DEF Tagged
    <2> HIDE DEF more, odd
    <2>5. Known(p, "manifest", listed, left, errors \cup more, warnings \cup odd)
      BY <1>3, <2>2, <2>3, <2>4 DEF Known
    <2>6. listed' = listed /\ left' = left
      BY <1>5
    <2>7. QED
      BY <1>1, <1>2, <1>3, <1>5, <2>1, <2>5, <2>6, ContinueKeeps
  <1>6. QED
    BY <1>2, <1>4, <1>5 DEF ReadTags

\* The differences between a manifest and the payload are differences of names
\* that were, or were not, in the package.
LEMMA CoverageIsReal ==
    ASSUME NEW p, structure[p] \in Structure, HasManifest(structure[p]),
           Entries(structure[p]) # Malformed, listed \subseteq Payload, Listed(p, listed),
           NEW found, CodesAreReal(p, found), found # {} => Defect(p)
    PROVE  LET all == found \cup Coverage(Entries(structure[p])) IN
           /\ CodesAreReal(p, all) /\ (all # {} => Defect(p))
           /\ all = {} => \A f \in Payload : Entries(structure[p])[f] # None <=> f \in listed
  <1> DEFINE entries == Entries(structure[p])
             gaps == \E f \in Payload \ listed : entries[f] # None
             extra == \E f \in listed : entries[f] = None
  <1>1. /\ "BAG_PAYLOAD_MISSING" \in Coverage(entries) => gaps
        /\ "BAG_PAYLOAD_UNLISTED" \in Coverage(entries) => extra
        /\ "BAG_CHECKSUM_MISMATCH" \notin Coverage(entries)
        /\ Coverage(entries) = {} => ~gaps /\ ~extra
        /\ Coverage(entries) # {} => gaps \/ extra
    BY DEF Coverage
  <1>2. \A f \in Payload : entries[f] \in Contents \cup {None}
    BY PreferredIsDeclared
  <1>3. gaps => Hidden(p) \/ \E f \in Payload : entries[f] # None /\ <<p, f, Absent>> \in during
    BY DEF Listed
  <1>4. extra => \E f \in Payload : entries[f] = None
                     /\ \E c \in FileState \ {Absent} : <<p, f, c>> \in during
    BY DEF Listed
  <1>5. gaps => Defect(p)
    <2>1. ASSUME NEW f \in Payload, entries[f] # None, <<p, f, Absent>> \in during
          PROVE  Defect(p)
      <3>1. Absent \in FileState /\ Absent # entries[f]
        BY <1>2, <2>1, BagAssumption DEF FileState
      <3>2. QED
        BY <2>1, <3>1 DEF Defect
    <2>2. Hidden(p) => Defect(p)
      BY DEF Defect
    <2>3. QED
      BY <1>3, <2>1, <2>2
  <1>6. extra => Defect(p)
    BY <1>4 DEF Defect
  <1> HIDE DEF entries, gaps, extra
  <1>7. ASSUME NEW all, all = found \cup Coverage(entries)
        PROVE  CodesAreReal(p, all)
    <2>1. "BAG_CHECKSUM_MISMATCH" \in all => "BAG_CHECKSUM_MISMATCH" \in found
      BY <1>1, <1>7
    <2>2. "BAG_PAYLOAD_MISSING" \in all => "BAG_PAYLOAD_MISSING" \in found \/ gaps
      BY <1>1, <1>7
    <2>3. "BAG_PAYLOAD_UNLISTED" \in all => "BAG_PAYLOAD_UNLISTED" \in found \/ extra
      BY <1>1, <1>7
    <2>4. QED
      BY <1>3, <1>4, <2>1, <2>2, <2>3 DEF CodesAreReal, entries
  <1>8. found \cup Coverage(entries) # {} => Defect(p)
    BY <1>1, <1>5, <1>6
  <1>9. found \cup Coverage(entries) = {} => \A f \in Payload : entries[f] # None <=> f \in listed
    <2>1. Coverage(entries) = {} => ~gaps /\ ~extra
      BY <1>1
    <2>2. QED
      BY <2>1 DEF gaps, extra
  <1>10. QED
    BY <1>7, <1>8, <1>9 DEF entries

LEMMA ReadManifestKeeps == ASSUME IndInv, ReadManifest PROVE IndInv'
  <1>1. /\ pc = "gather" /\ step = "manifest" /\ current # None
        /\ UNCHANGED <<world, discovered, observed, unread, structure, during, lost, hidden>>
        /\ unread \subseteq unread' /\ unread' \subseteq Packages
    BY DEF ReadManifest, At, IndInv, Walk, TypeOK, world, observed
  <1>2. SUFFICES ASSUME NEW p, p = current PROVE IndInv'
    OBVIOUS
  <1> DEFINE s == structure[p]
             flagged == warnings \cup Weaknesses(s)
             rest == {f \in listed : Entries(s)[f] # None}
             all == errors \cup Coverage(Entries(s))
             none == errors \cup {"BAG_SUPPORTED_MANIFEST_MISSING"}
  <1>3. /\ s \in Structure /\ Known(p, "manifest", listed, left, errors, warnings)
        /\ listed \in SUBSET Payload /\ left \in SUBSET Payload
        /\ errors \in SUBSET Codes /\ warnings \in SUBSET Codes
    BY <1>1, <1>2, HandFacts
  <1>4. /\ CodesAreReal(p, errors) /\ (errors # {} => Defect(p)) /\ Listed(p, listed)
        /\ Tagged(p, errors, warnings)
    BY <1>3 DEF Known
  <1>5. flagged \in SUBSET Codes /\ (flagged = {} => warnings = {} /\ Weaknesses(s) = {})
    BY <1>3, BagAssumption DEF Weaknesses
  <1>6. \/ /\ ~HasManifest(s) /\ errors' = none /\ warnings' = flagged
           /\ Continue("tag manifest") /\ UNCHANGED <<listed, left>>
        \/ /\ HasManifest(s) /\ Entries(s) = Malformed
           /\ Conclude(Judged(p, errors \cup {"BAG_INVALID_MANIFEST"}, flagged))
        \/ Conclude(Inconclusive(current))
        \/ /\ HasManifest(s) /\ Entries(s) # Malformed
           /\ errors' = all /\ warnings' = flagged /\ left' = rest /\ listed' = listed
           /\ Continue("digest")
    BY <1>2 DEF ReadManifest, HasManifest
  <1> HIDE DEF flagged
  <1>7. CASE /\ ~HasManifest(s) /\ errors' = none /\ warnings' = flagged
             /\ Continue("tag manifest") /\ UNCHANGED <<listed, left>>
    <2>1. none \in SUBSET Codes /\ none # {}
      BY <1>3, BagAssumption
    <2>2. CodesAreReal(p, none)
      BY <1>4 DEF CodesAreReal
    <2>3. Defect(p)
      BY <1>7 DEF Defect, Sound
    <2> HIDE DEF none
    <2>4. Known(p, "tag manifest", listed, left, none, flagged)
      BY <1>4, <1>5, <2>1, <2>2, <2>3 DEF Known, Tagged, Checked
    <2>5. listed' = listed /\ left' = left
      BY <1>7
    <2>6. QED
      BY <1>1, <1>2, <1>3, <1>5, <1>7, <2>1, <2>4, <2>5, ContinueKeeps
  <1>8. CASE /\ HasManifest(s) /\ Entries(s) = Malformed
             /\ Conclude(Judged(p, errors \cup {"BAG_INVALID_MANIFEST"}, flagged))
    <2>1. Defect(p)'
      BY <1>1, <1>8, ObservedKept DEF Defect
    <2>2. {"BAG_INVALID_MANIFEST"} \in SUBSET Codes
      BY BagAssumption
    <2>3. CodesAreReal(p, errors \cup {"BAG_INVALID_MANIFEST"})
      BY <1>4 DEF CodesAreReal
    <2>4. QED
      BY <1>1, <1>2, <1>5, <1>8, <2>1, <2>2, <2>3, RejectKeeps
  <1>9. CASE Conclude(Inconclusive(current))
    BY <1>1, <1>9, InconclusiveKeeps
  <1>10. CASE /\ HasManifest(s) /\ Entries(s) # Malformed
              /\ errors' = all /\ warnings' = flagged /\ left' = rest /\ listed' = listed
              /\ Continue("digest")
    <2>1. /\ CodesAreReal(p, all) /\ (all # {} => Defect(p))
          /\ all = {} => \A f \in Payload : Entries(s)[f] # None <=> f \in listed
      BY <1>3, <1>4, <1>10, CoverageIsReal
    <2>2. all \in SUBSET Codes /\ rest \in SUBSET Payload
      BY <1>3, BagAssumption DEF Coverage
    <2>3. Covers(p, listed, rest, all)
      <3>1. all = {} => listed \ rest = {}
        BY <2>1, <1>3
      <3> HIDE DEF all
      <3>2. QED
        BY <1>3, <1>10, <2>1, <3>1 DEF Covers
    <2>4. Tagged(p, all, flagged)
      BY <1>4, <1>5 DEF Tagged
    <2> HIDE DEF all, rest
    <2>5. Known(p, "digest", listed, rest, all, flagged)
      BY <1>4, <1>5, <2>1, <2>3, <2>4 DEF Known
    <2>6. QED
      BY <1>1, <1>2, <1>3, <1>5, <1>10, <2>2, <2>5, ContinueKeeps
  <1>11. QED
    BY <1>6, <1>7, <1>8, <1>9, <1>10

LEMMA DigestKeeps == ASSUME IndInv, NEW f \in Payload, Digest(f) PROVE IndInv'
  <1>1. /\ pc = "gather" /\ step = "digest" /\ current # None
        /\ UNCHANGED <<world, discovered, observed, unread>>
        /\ f \in left /\ file[current][f] \in Contents
    BY DEF Digest, Readable, At, IndInv, Walk
  <1>2. SUFFICES ASSUME NEW p, p = current PROVE IndInv'
    OBVIOUS
  <1> DEFINE s == structure[p]
             c == file[p][f]
             more == {x \in {"BAG_CHECKSUM_MISMATCH"} : c # Entries(s)[f]}
             all == errors \cup more
             rest == left \ {f}
  <1>3. /\ s \in Structure /\ Known(p, "digest", listed, left, errors, warnings)
        /\ listed \in SUBSET Payload /\ left \in SUBSET Payload
        /\ errors \in SUBSET Codes /\ warnings \in SUBSET Codes
        /\ <<p, f, c>> \in during /\ c \in FileState
    BY <1>1, <1>2, HandFacts
  <1>4. /\ CodesAreReal(p, errors) /\ (errors # {} => Defect(p))
        /\ Covers(p, listed, left, errors)
    BY <1>3 DEF Known
  <1>5. c \in Contents /\ Entries(s)[f] \in Contents
    BY <1>1, <1>2, <1>3, <1>4, PreferredIsDeclared DEF Covers
  <1>6. more # {} => c # Entries(s)[f]
    OBVIOUS
  <1>7. CodesAreReal(p, all)
    BY <1>3, <1>4, <1>5 DEF CodesAreReal
  <1>8. all # {} => Defect(p)
    <2>1. c # Entries(s)[f] => Defect(p)
      BY <1>3, <1>5, BagAssumption DEF Defect
    <2>2. QED
      BY <1>4, <1>6, <2>1
  <1>9. all \in SUBSET Codes /\ rest \in SUBSET Payload
    BY <1>3, BagAssumption
  <1>10. Covers(p, listed, rest, all)
    <2>1. all = {} => errors = {} /\ c = Entries(s)[f]
      OBVIOUS
    <2> HIDE DEF all
    <2>2. all = {} => \A g \in listed \ rest : <<p, g, Entries(s)[g]>> \in during
      BY <1>3, <1>4, <2>1 DEF Covers
    <2>3. QED
      BY <1>4, <2>1, <2>2 DEF Covers
  <1>11. Tagged(p, all, warnings)
    BY <1>3 DEF Known, Tagged
  <1>12. errors' = all /\ left' = rest /\ listed' = listed /\ warnings' = warnings
         /\ Continue("digest")
    BY <1>2 DEF Digest
  <1> HIDE DEF all, rest
  <1>13. Known(p, "digest", listed, rest, all, warnings)
    BY <1>3, <1>7, <1>8, <1>10, <1>11 DEF Known
  <1>14. QED
    BY <1>1, <1>2, <1>3, <1>9, <1>12, <1>13, ContinueKeeps

LEMMA DigestsEndKeeps == ASSUME IndInv, DigestsEnd PROVE IndInv'
  <1>1. /\ pc = "gather" /\ step = "digest" /\ current # None /\ left = {}
        /\ UNCHANGED <<listed, left, errors, warnings, world, discovered, observed, unread>>
        /\ Continue("tag manifest")
    BY DEF DigestsEnd, At, IndInv, Walk
  <1>2. SUFFICES ASSUME NEW p, p = current PROVE IndInv'
    OBVIOUS
  <1>3. /\ Known(p, "digest", listed, left, errors, warnings)
        /\ listed \in SUBSET Payload /\ left \in SUBSET Payload
        /\ errors \in SUBSET Codes /\ warnings \in SUBSET Codes
    BY <1>1, <1>2, HandFacts
  <1>4. Listed(p, listed) /\ Covers(p, listed, left, errors)
    BY <1>3 DEF Known
  <1>5. Checked(p, errors)
    <2>1. SUFFICES ASSUME errors = {}
                   PROVE  HasManifest(structure[p]) /\ Verified(p, Entries(structure[p]))
      BY DEF Checked
    <2>2. QED
      BY <1>1, <1>3, <1>4, <2>1 DEF Covers, Listed, Verified
  <1>6. Known(p, "tag manifest", listed, left, errors, warnings)
    BY <1>3, <1>5 DEF Known
  <1>7. listed' = listed /\ left' = left /\ errors' = errors /\ warnings' = warnings
    BY <1>1
  <1>8. QED
    BY <1>1, <1>2, <1>3, <1>6, <1>7, ContinueKeeps

\* A file that cannot be read is its package's defect.
LEMMA UnreadKeeps ==
    ASSUME IndInv, pc = "gather", current # None,
           Reject("BAG_READ_ERROR") \/ Conclude(Inconclusive(current)),
           unread' = unread \cup {current}, UNCHANGED <<world, discovered, observed>>
    PROVE  IndInv'
  <1>1. unread \subseteq unread' /\ unread' \subseteq Packages
    BY DEF IndInv, TypeOK
  <1>2. CASE Conclude(Inconclusive(current))
    BY <1>1, <1>2, InconclusiveKeeps
  <1>3. CASE Reject("BAG_READ_ERROR")
    <2>1. SUFFICES ASSUME NEW p, p = current PROVE IndInv'
      OBVIOUS
    <2>2. Defect(p)'
      BY <2>1 DEF Defect
    <2>3. QED
      BY <1>1, <1>3, <2>1, <2>2, RejectCodeKeeps
  <1>4. QED
    BY <1>2, <1>3

LEMMA ReadTagManifestKeeps == ASSUME IndInv, ReadTagManifest PROVE IndInv'
  <1>1. /\ pc = "gather" /\ step = "tag manifest" /\ current # None
        /\ UNCHANGED <<world, discovered, observed, unread, structure, during, lost, hidden>>
        /\ unread \subseteq unread' /\ unread' \subseteq Packages
    BY DEF ReadTagManifest, At, IndInv, Walk, TypeOK, world, observed
  <1>2. SUFFICES ASSUME NEW p, p = current PROVE IndInv'
    OBVIOUS
  <1> DEFINE s == structure[p]
             codes == TagErrors[s.tagManifest]
             r == Judged(p, errors \cup codes, warnings)
  <1>3. /\ s \in Structure /\ Known(p, "tag manifest", listed, left, errors, warnings)
        /\ errors \in SUBSET Codes /\ warnings \in SUBSET Codes /\ p \in Items
    BY <1>1, <1>2, HandFacts
  <1>4. /\ CodesAreReal(p, errors) /\ (errors # {} => Defect(p)) /\ Listed(p, listed)
        /\ Tagged(p, errors, warnings) /\ Checked(p, errors)
        /\ warnings = {} => Weaknesses(s) = {}
    BY <1>3 DEF Known
  <1>5. /\ codes \in SUBSET Codes
        /\ codes \subseteq {"BAG_TAG_CHECKSUM_MISMATCH", "BAG_TAG_FILE_MISSING", "BAG_INVALID_MANIFEST"}
        /\ codes = {} => s.tagManifest \in {"none", "agrees"}
        /\ codes # {} => s.tagManifest \notin {"none", "agrees"}
    <2>1. s.tagManifest \in {"none", "agrees", "differs", "lacks", "malformed"}
      BY <1>3 DEF Structure
    <2>2. QED
      BY <2>1, BagAssumption DEF TagErrors
  <1>6. Conclude(r)
    BY <1>2 DEF ReadTagManifest
  <1> HIDE DEF codes
  <1>7. CodesAreReal(p, errors \cup codes)
    BY <1>4, <1>5 DEF CodesAreReal
  <1>8. CASE errors \cup codes # {}
    <2>1. Defect(p)
      <3>1. codes # {} => Defect(p)
        BY <1>5 DEF Defect, Sound
      <3>2. QED
        BY <1>4, <1>8, <3>1
    <2>2. Defect(p)'
      BY <1>1, <2>1, ObservedKept
    <2>3. QED
      BY <1>1, <1>2, <1>3, <1>5, <1>6, <1>7, <1>8, <2>2, RejectKeeps
  <1>9. CASE errors \cup codes = {}
    <2>1. HasManifest(s) /\ Verified(p, Entries(s))
      BY <1>4, <1>9 DEF Checked
    <2>2. Sound(s)
      BY <1>4, <1>5, <1>9, <2>1 DEF Sound, Listed, Tagged
    <2>3. \E a \in IF Declared(s) \cap {"sha512", "sha256"} = {} THEN {"md5"}
                    ELSE Declared(s) \cap {"sha512", "sha256"} : Verified(p, s.manifest[a])
      BY <1>3, <2>1, PreferredIsDeclared DEF Entries
    <2>4. warnings = {} => /\ Declared(s) = Declared(s) \cap {"sha512", "sha256"}
                           /\ ~s.weakTags /\ s.tags = "good"
      BY <1>3, <1>4, <1>9, WeaknessesShow DEF Tagged
    <2>5. r \in Result /\ r.item = current /\ r.errors = {} /\ r.status # "FAIL"
          /\ (r.status = "PASS" => warnings = {})
      BY <1>2, <1>3, <1>5, <1>9, JudgedType, JudgedStatus DEF Judged
    <2>6. ASSUME NEW n, n = r PROVE IndInv'
      <3>1. Passes(p, n.status = "PASS")
        BY <2>2, <2>3, <2>4, <2>5, <2>6 DEF Passes
      <3>2. CodesAreReal(p, {})
        BY DEF CodesAreReal
      <3>3. Grounded(n)
        BY <1>2, <2>5, <2>6, <3>1, <3>2 DEF Grounded
      <3>4. Grounded(n)'
        BY <1>1, <3>3, GroundedKept
      <3>5. n \in Result /\ n.item = current /\ Conclude(n)
        BY <1>6, <2>5, <2>6
      <3>6. QED
        BY <1>1, <3>4, <3>5, ConcludeKeeps
    <2>7. QED
      BY <2>6
  <1>10. QED
    BY <1>8, <1>9

-----------------------------------------------------------------------------
(* The walk.                                                               *)

LEMMA InitIndInv == Init => IndInv
  <1>1. SUFFICES ASSUME Init PROVE IndInv
    OBVIOUS
  <1>2. RunTypeOK /\ RunInv
    BY <1>1, InitRun DEF Init
  <1>3. file \in [Packages -> [Payload -> FileState]] /\ structure \in [Packages -> Structures]
    BY <1>1 DEF Init
  <1>4. TypeOK
    BY <1>1, <1>2, <1>3 DEF Init, TypeOK
  <1>5. noted = {} /\ pc = "idle" /\ saved = {}
    BY <1>1 DEF Init, RunInit
  <1>6. Walk /\ Reached /\ Seen /\ AtHand
    BY <1>1, <1>5 DEF Init, Walk, Reached, Seen, AtHand
  <1>7. QED
    BY <1>2, <1>4, <1>5, <1>6 DEF IndInv

LEMMA StartKeeps == ASSUME IndInv, Start PROVE IndInv'
  <1> USE DEF IndInv
  <1>1. /\ pc = "idle" /\ pc' = "gather" /\ noted' = noted /\ saved' = saved
        /\ UNCHANGED <<place, structure, file, unreadable, queue, current, step, listed, left,
                       errors, warnings, discovered, unread>>
        /\ pending' = {DirOf[p] : p \in Packages}
    BY DEF Start, StartRun, GoTo, world, local
  <1>2. noted = {} /\ current = None /\ queue = {} /\ discovered = {}
    BY <1>1 DEF RunInv, Walk
  <1>3. RunTypeOK' /\ RunInv'
    <2>1. FALSE => ~Has(noted, "UNKNOWN")
      OBVIOUS
    <2>2. QED
      BY <2>1, ClosingSteps DEF Start, TypeOK
  <1>4. /\ during' \subseteq Packages \X Payload \X FileState
        /\ \A p \in Packages, f \in Payload : <<p, f, file[p][f]>> \in during'
    <2>1. during' = {<<p, f, file[p][f]>> : p \in Packages, f \in Payload}
      BY DEF Start
    <2>2. \A p \in Packages, f \in Payload : file[p][f] \in FileState
      BY DEF TypeOK
    <2>3. QED
      BY <2>1, <2>2
  <1>5. /\ lost' \subseteq Packages /\ hidden' = unreadable
        /\ \A p \in Packages : place[p] # "there" => p \in lost'
    BY DEF Start
  <1>6. \A p \in Packages : DirOf[p] \in pending' /\ DirOf[p] \in Dirs
    BY <1>1, BagAssumption
  <1>7. TypeOK'
    BY <1>1, <1>3, <1>4, <1>5, <1>6 DEF TypeOK, PlaceStates
  <1>8. Walk'
    BY <1>1, <1>2 DEF Walk
  <1>9. Reached' /\ Seen' /\ AtHand'
    BY <1>1, <1>2, <1>4, <1>5, <1>6 DEF Reached, Seen, AtHand, PlaceStates
  <1>10. QED
    BY <1>1, <1>2, <1>3, <1>7, <1>8, <1>9

\* The steps of the walk itself disturb no result and no validation.
LEMMA WalkKeeps ==
    ASSUME IndInv, (\E d \in Dirs : ListDirectory(d)) \/ (\E p \in Packages : Examine(p))
    PROVE  IndInv'
  <1> USE DEF IndInv
  <1>1. UNCHANGED runVars /\ UNCHANGED <<world, observed, unread>> /\ pc = "gather"
        /\ step = "walk" /\ UNCHANGED <<listed, left, errors, warnings>>
    BY DEF ListDirectory, Examine, local
  <1>2. UNCHANGED <<pc, run, noted, saved, place, structure, file, unreadable,
                    during, lost, hidden>>
    BY <1>1 DEF runVars, world, observed
  <1>3. RunTypeOK' /\ RunInv'
    BY <1>1, IdleStep DEF TypeOK
  <1>4. Seen' /\ \A n \in noted' : Grounded(n)'
    BY <1>1, <1>2, GroundedKept DEF Seen, PlaceStates
  <1>5. current = None /\ errors = {} /\ warnings = {} /\ saved = {}
    BY <1>1 DEF Walk, RunInv
  <1>6. ASSUME NEW d \in Dirs, ListDirectory(d) PROVE IndInv'
    <2>1. /\ pending' = pending \ {d} /\ d \in pending /\ queue = {}
          /\ queue' = (IF d \in unreadable THEN {}
                       ELSE {p \in Packages : DirOf[p] = d /\ place[p] # "gone"})
          /\ UNCHANGED <<current, step, discovered>>
      BY <1>6 DEF ListDirectory, local
    <2>2. TypeOK'
      BY <1>1, <1>2, <1>3, <2>1 DEF TypeOK, PlaceStates
    <2>3. Walk'
      BY <1>1, <1>2, <2>1 DEF Walk
    <2>4. Reached'
      <3>1. SUFFICES ASSUME NEW p \in Packages
                     PROVE  \/ p \in discovered' \cup queue' \/ DirOf[p] \in pending'
                            \/ p \in lost' \/ DirOf[p] \in hidden'
        BY DEF Reached
      <3>2. CASE DirOf[p] = d
        <4>1. d \in unreadable => d \in hidden
          BY <1>1 DEF Seen
        <4>2. place[p] = "gone" => p \in lost
          BY <1>1 DEF Seen
        <4>3. QED
          BY <1>2, <2>1, <3>2, <4>1, <4>2
      <3>3. CASE DirOf[p] # d
        BY <1>1, <1>2, <2>1, <3>3 DEF Reached
      <3>4. QED
        BY <3>2, <3>3
    <2>5. AtHand'
      BY <1>5, <2>1 DEF AtHand
    <2>6. QED
      BY <1>3, <1>4, <2>2, <2>3, <2>4, <2>5
  <1>7. ASSUME NEW p \in Packages, Examine(p) PROVE IndInv'
    <2>1. /\ p \in queue /\ queue' = queue \ {p} /\ current' = p /\ step' = "list"
          /\ discovered' = discovered \cup {p} /\ pending' = pending
      BY <1>7 DEF Examine
    <2>2. p # None /\ p \notin discovered
      BY <2>1, BagAssumption DEF Walk
    <2>3. TypeOK'
      BY <1>1, <1>2, <1>3, <2>1 DEF TypeOK, PlaceStates
    <2>4. Walk'
      <3>1. \A n \in noted' : n.item \in discovered' /\ n.item # current'
        BY <1>2, <2>1, <2>2 DEF Walk
      <3>2. \A q \in discovered' : q = current' \/ \E n \in noted' : n.item = q
        <4>1. None \notin discovered
          BY BagAssumption DEF TypeOK
        <4>2. QED
          BY <1>2, <1>5, <2>1, <4>1 DEF Walk
      <3>3. \A q \in queue' : q \notin discovered' /\ DirOf[q] \notin pending'
        BY <2>1 DEF Walk
      <3>4. \A q \in discovered' : DirOf[q] \notin pending'
        BY <2>1 DEF Walk
      <3>5. QED
        BY <1>1, <1>2, <1>5, <2>1, <2>2, <3>1, <3>2, <3>3, <3>4 DEF Walk
    <2>5. Reached'
      BY <1>2, <2>1 DEF Reached
    <2>6. AtHand'
      <3>1. Known(p, "list", listed, left, {}, {})'
        BY DEF Known, CodesAreReal
      <3>2. errors' = {} /\ warnings' = {}
        BY <1>1, <1>5
      <3>3. QED
        BY <2>1, <3>1, <3>2 DEF AtHand
    <2>7. QED
      BY <1>3, <1>4, <2>3, <2>4, <2>5, <2>6
  <1>8. QED
    BY <1>6, <1>7

\* What ends the gathering leaves everything else as it is.
LEMMA EndKeeps ==
    ASSUME IndInv, DiscoveryEnds \/ RootMissing \/ DecompressionRaises \/ Close
    PROVE  IndInv'
  <1> USE DEF IndInv
  <1>1. UNCHANGED <<place, structure, file, unreadable, pending, queue, current, step, listed,
                    left, errors, warnings, discovered, during, lost, hidden, unread>>
    BY DEF DiscoveryEnds, RootMissing, DecompressionRaises, Close, world, walk, local, observed
  <1>2. RunTypeOK' /\ RunInv' /\ noted' = noted
    <2>1. CASE Close
      <3>1. Whole \in BOOLEAN /\ (Whole => ~Has(noted, "UNKNOWN"))
        BY DEF Whole
      <3>2. QED
        BY <2>1, <3>1, ClosingSteps DEF Close, TypeOK
    <2>2. CASE DiscoveryEnds \/ RootMissing \/ DecompressionRaises
      <3>1. /\ pc = "gather" /\ pc' \in {"gather", "save", "fail"}
            /\ run' = run /\ saved' = saved /\ noted' = noted
        BY <2>2 DEF DiscoveryEnds, RootMissing, DecompressionRaises, GoTo
      <3>2. QED
        BY <3>1, GatheringStep DEF TypeOK, RunTypeOK, RunInv, OneEach
    <2>3. QED
      BY <2>1, <2>2
  <1>3. TypeOK'
    BY <1>1, <1>2 DEF TypeOK, PlaceStates
  <1>4. /\ pc # "idle" /\ pc' # "idle"
        /\ pc' \in {"save", "finish", "done"} => queue = {} /\ pending = {} /\ current = None
        /\ saved' # saved => pc = "save"
    <2>1. CASE DiscoveryEnds
      BY <2>1 DEF DiscoveryEnds, GoTo, Walk
    <2>2. CASE RootMissing \/ DecompressionRaises
      BY <2>2 DEF RootMissing, DecompressionRaises, GoTo
    <2>3. CASE Close
      BY <2>3 DEF Close, SaveResults, FinishRun, DatabaseRaises, FailRun, Crash, GoTo, Walk
    <2>4. QED
      BY <2>1, <2>2, <2>3
  <1>5. Walk'
    BY <1>1, <1>2, <1>4 DEF Walk
  <1>6. Reached' /\ Seen'
    BY <1>1, <1>4 DEF Reached, Seen, PlaceStates
  <1>7. AtHand'
    <2>1. ASSUME NEW p, p = current, p # None,
                 NEW a, a = step, NEW n, n = listed, NEW l, l = left,
                 NEW e, e = errors, NEW w, w = warnings
          PROVE  Known(p, a, n, l, e, w)'
      BY <1>1, <2>1, KnownKept DEF AtHand
    <2>2. QED
      BY <1>1, <2>1 DEF AtHand
  <1>8. \A n \in noted' : Grounded(n)'
    BY <1>1, <1>2, GroundedKept
  <1>9. QED
    BY <1>2, <1>3, <1>5, <1>6, <1>7, <1>8

-----------------------------------------------------------------------------
(* Around the audit.                                                       *)

LEMMA WorldKeeps ==
    ASSUME IndInv,
           \/ \E p \in Packages, f \in Payload : \E c \in FileStates(p) : FileChanges(p, f, c)
           \/ \E p \in Packages : \E c \in PlaceStates(p) : PackageChanges(p, c)
           \/ \E d \in Dirs : PermissionsChange(d)
    PROVE  IndInv'
  <1> USE DEF IndInv
  <1>1. /\ UNCHANGED <<runVars, structure, pending, queue, current, step, listed, left,
                       errors, warnings, discovered, unread>>
        /\ UNCHANGED <<pc, run, noted, saved>>
    BY DEF FileChanges, PackageChanges, PermissionsChange, walk, local, runVars
  <1>2. RunTypeOK' /\ RunInv'
    BY <1>1, IdleStep DEF TypeOK
  <1>3. /\ during' \subseteq Packages \X Payload \X FileState
        /\ Begun => during \subseteq during'
        /\ file' \in [Packages -> [Payload -> FileState]]
        /\ Begun => \A p \in Packages, f \in Payload : <<p, f, file'[p][f]>> \in during'
    <2>1. ASSUME NEW p \in Packages, NEW f \in Payload, NEW c \in FileStates(p),
                 FileChanges(p, f, c)
          PROVE  <1>3!:
      <3>1. c \in FileState
        BY DEF FileStates, FileState
      <3>2. file' = [file EXCEPT ![p][f] = c]
            /\ during' = IF Begun THEN during \cup {<<p, f, c>>} ELSE {}
        BY <2>1 DEF FileChanges
      <3>3. file' \in [Packages -> [Payload -> FileState]]
            /\ \A q \in Packages, g \in Payload :
                  file'[q][g] = IF q = p /\ g = f THEN c ELSE file[q][g]
        BY <3>1, <3>2 DEF TypeOK
      <3>4. during' \subseteq Packages \X Payload \X FileState
        <4>1. during \subseteq Packages \X Payload \X FileState
          BY DEF TypeOK
        <4>2. <<p, f, c>> \in Packages \X Payload \X FileState
          BY <3>1
        <4>3. QED
          BY <3>2, <4>1, <4>2
      <3>5. Begun => \A q \in Packages, g \in Payload : <<q, g, file[q][g]>> \in during
        BY DEF Seen, Begun
      <3>6. QED
        BY <3>2, <3>3, <3>4, <3>5
    <2>2. CASE UNCHANGED <<file, during>>
      BY <2>2 DEF TypeOK, Seen, Begun
    <2>3. QED
      BY <2>1, <2>2 DEF PackageChanges, PermissionsChange
  <1>4. /\ lost' \subseteq Packages /\ lost \subseteq lost'
        /\ \A p \in Packages : place'[p] \in PlaceStates(p)
        /\ Begun => \A p \in Packages : place'[p] # "there" => p \in lost'
    <2>1. ASSUME NEW p \in Packages, NEW c \in PlaceStates(p), PackageChanges(p, c)
          PROVE  <1>4!:
      <3>1. /\ place' = [place EXCEPT ![p] = c]
            /\ lost' = (IF Begun /\ c # "there" THEN lost \cup {p} ELSE lost)
        BY <2>1 DEF PackageChanges
      <3>2. \A q \in Packages : (place'[q] = c /\ q = p) \/ place'[q] = place[q]
        BY <3>1
      <3>3. \A q \in Packages : place'[q] \in PlaceStates(q)
        BY <3>2 DEF Seen
      <3>4. lost' \subseteq Packages /\ lost \subseteq lost'
        BY <3>1 DEF TypeOK
      <3>5. Begun => \A q \in Packages : place'[q] # "there" => q \in lost'
        BY <3>1, <3>2 DEF Seen, Begun
      <3>6. QED
        BY <3>3, <3>4, <3>5
    <2>2. CASE UNCHANGED <<place, lost>>
      BY <2>2 DEF TypeOK, Seen, Begun
    <2>3. QED
      BY <2>1, <2>2 DEF FileChanges, PermissionsChange
  <1>5. /\ unreadable' \subseteq Dirs /\ hidden' \subseteq Dirs
        /\ Begun => unreadable' \subseteq hidden' /\ hidden \subseteq hidden'
    <2>1. ASSUME NEW d \in Dirs, PermissionsChange(d)
          PROVE  <1>5!:
      BY <2>1 DEF PermissionsChange, TypeOK, Seen, Begun
    <2>2. CASE UNCHANGED <<unreadable, hidden>>
      BY <2>2 DEF TypeOK, Seen, Begun
    <2>3. QED
      BY <2>1, <2>2 DEF FileChanges, PackageChanges
  <1>6. TypeOK'
    BY <1>1, <1>2, <1>3, <1>4, <1>5 DEF TypeOK, PlaceStates
  <1>7. Walk'
    BY <1>1 DEF Walk
  <1>8. Reached' /\ Seen'
    BY <1>1, <1>3, <1>4, <1>5 DEF Reached, Seen, Begun, PlaceStates
  <1>9. CASE ~Begun
    <2>1. noted = {} /\ current = None
      BY <1>9 DEF Begun, Walk, RunInv
    <2>2. QED
      BY <1>1, <1>2, <1>6, <1>7, <1>8, <2>1 DEF AtHand
  <1>10. CASE Begun
    <2>1. during \subseteq during' /\ lost \subseteq lost' /\ hidden \subseteq hidden'
      BY <1>3, <1>4, <1>5, <1>10
    <2>2. ASSUME NEW p, p = current, p # None,
                 NEW a, a = step, NEW n, n = listed, NEW l, l = left,
                 NEW e, e = errors, NEW w, w = warnings
          PROVE  Known(p, a, n, l, e, w)'
      BY <1>1, <2>1, <2>2, KnownKept DEF AtHand
    <2>3. AtHand'
      BY <1>1, <2>2 DEF AtHand
    <2>4. \A n \in noted' : Grounded(n)'
      BY <1>1, <2>1, GroundedKept
    <2>5. QED
      BY <1>2, <1>6, <1>7, <1>8, <2>3, <2>4
  <1>11. QED
    BY <1>9, <1>10

LEMMA IdleKeeps == ASSUME IndInv, UNCHANGED vars PROVE IndInv'
  <1>1. UNCHANGED runVars
    BY DEF vars
  <1>2. UNCHANGED <<pc, run, noted, saved, place, structure, file, unreadable, pending, queue,
                    current, step, listed, left, errors, warnings, discovered, during, lost,
                    hidden, unread>>
    BY DEF vars, runVars, world, walk, local, observed
  <1>3. RunTypeOK' /\ RunInv'
    BY <1>1, IdleStep DEF IndInv, TypeOK
  <1>4. TypeOK' /\ Walk' /\ Reached' /\ Seen'
    BY <1>2, <1>3 DEF IndInv, TypeOK, Walk, Reached, Seen, PlaceStates
  <1>5. AtHand'
    <2>1. ASSUME NEW p, p = current, p # None,
                 NEW a, a = step, NEW n, n = listed, NEW l, l = left,
                 NEW e, e = errors, NEW w, w = warnings
          PROVE  Known(p, a, n, l, e, w)'
      BY <1>2, <2>1, KnownKept DEF IndInv, AtHand
    <2>2. QED
      BY <1>2, <2>1 DEF AtHand
  <1>6. \A n \in noted' : Grounded(n)'
    BY <1>2, GroundedKept DEF IndInv
  <1>7. QED
    BY <1>3, <1>4, <1>5, <1>6 DEF IndInv

LEMMA StepKeeps == IndInv /\ [Next]_vars => IndInv'
  <1>1. SUFFICES ASSUME IndInv, [Next]_vars PROVE IndInv'
    OBVIOUS
  <1>2. ASSUME NEW f \in Payload, Digest(f) \/ DigestFails(f) PROVE IndInv'
    <2>1. CASE DigestFails(f)
      <3>1. /\ pc = "gather" /\ step = "digest" /\ Reject("BAG_READ_ERROR")
            /\ unread' = unread \cup {current} /\ UNCHANGED <<world, discovered, observed>>
        BY <2>1 DEF DigestFails, At
      <3>2. current # None
        BY <1>1, <3>1 DEF IndInv, Walk
      <3>3. QED
        BY <1>1, <3>1, <3>2, UnreadKeeps
    <2>2. QED
      BY <1>1, <1>2, <2>1, DigestKeeps
  <1>3. CASE MetadataUnreadable
    <2>1. current # None
      BY <1>1, <1>3 DEF MetadataUnreadable, IndInv, Walk
    <2>2. QED
      BY <1>1, <1>3, <2>1, UnreadKeeps DEF MetadataUnreadable
  <1>4. CASE Start \/ ListFiles \/ ReadTags \/ ReadManifest \/ DigestsEnd \/ ReadTagManifest
    BY <1>1, <1>4, StartKeeps, ListFilesKeeps, ReadTagsKeeps, ReadManifestKeeps,
       DigestsEndKeeps, ReadTagManifestKeeps
  <1>5. CASE RootMissing \/ DecompressionRaises \/ DiscoveryEnds \/ Close
    BY <1>1, <1>5, EndKeeps
  <1>6. CASE (\E d \in Dirs : ListDirectory(d)) \/ (\E p \in Packages : Examine(p))
    BY <1>1, <1>6, WalkKeeps
  <1>7. CASE Audit
    BY <1>2, <1>3, <1>4, <1>5, <1>6, <1>7 DEF Audit
  <1>8. CASE UNCHANGED vars
    BY <1>1, <1>8, IdleKeeps
  <1>9. CASE \/ \E p \in Packages, f \in Payload : \E c \in FileStates(p) : FileChanges(p, f, c)
             \/ \E p \in Packages : \E c \in PlaceStates(p) : PackageChanges(p, c)
             \/ \E d \in Dirs : PermissionsChange(d)
    BY <1>1, <1>9, WorldKeeps
  <1>10. QED
    BY <1>1, <1>7, <1>8, <1>9 DEF Next

LEMMA InvariantHolds == Spec => []IndInv
  BY InitIndInv, StepKeeps, PTL DEF Spec

\* Whatever becomes of packages and files meanwhile, the variables keep to their
\* types: every result is of a package with the codes of the code's tables, and
\* the run's row has no status of its own (bagit.py: check, validate_bag).
THEOREM TypesHold == Spec => []TypeOK
  <1>1. IndInv => TypeOK
    BY DEF IndInv
  <1>2. QED
    BY <1>1, InvariantHolds, PTL

\* A package passes only for what it held: its manifest, of a strong algorithm
\* if it has one, agreed with its payload (bagit.py: validate_bag).
THEOREM PassIsVerified == Spec => []PassMeansVerified
  <1>1. IndInv => PassMeansVerified
    <2>1. SUFFICES ASSUME IndInv, NEW n \in noted, n.status \in {"PASS", "WARNING"}
                   PROVE  LET s == structure[n.item]
                              strong == Declared(s) \cap {"sha512", "sha256"} IN
                          /\ Sound(s)
                          /\ \E a \in IF strong = {} THEN {"md5"} ELSE strong :
                                Verified(n.item, s.manifest[a])
                          /\ n.status = "PASS" => Declared(s) = strong /\ ~s.weakTags /\ s.tags = "good"
      BY DEF PassMeansVerified
    <2>2. Passes(n.item, n.status = "PASS")
      BY <2>1 DEF IndInv, Grounded
    <2>3. QED
      BY <2>2 DEF Passes
  <1>2. QED
    BY <1>1, InvariantHolds, PTL

\* No false alarm: what a result says is wrong with a package was wrong with it,
\* but for what could not be read meanwhile (bagit.py: validate_bag).
THEOREM AlarmsAreReal == Spec => []AlarmIsReal
  <1>1. IndInv => AlarmIsReal
    <2>1. SUFFICES ASSUME IndInv, NEW n \in noted
                   PROVE  CodesAreReal(n.item, n.errors) /\ (n.status = "FAIL" => Defect(n.item))
      BY DEF AlarmIsReal, CodesAreReal, Defect
    <2>2. QED
      BY <2>1 DEF IndInv, Grounded
  <1>2. QED
    BY <1>1, InvariantHolds, PTL

\* No package that was there all along is passed over in a complete scan, what
\* is saved is what was discovered, and the accounts of the audit agree
\* (bagit.py: check, discover_bags).
THEOREM NothingIsOverlooked == Spec => []NothingOverlooked
  <1>1. IndInv => NothingOverlooked
    <2>1. SUFFICES ASSUME IndInv PROVE NothingOverlooked
      OBVIOUS
    <2>2. AccountsAgree
      BY <2>1, AccountsFromInv DEF IndInv, TypeOK
    <2>3. ASSUME saved # {} PROVE {n.item : n \in saved} = discovered
      <3>1. saved = noted /\ current = None
        BY <2>1, <2>3 DEF IndInv, RunInv, Walk
      <3>2. None \notin discovered
        BY <2>1, BagAssumption DEF IndInv, TypeOK
      <3>3. QED
        BY <2>1, <3>1, <3>2 DEF IndInv, Walk
    <2>4. ASSUME run.complete, NEW p \in Packages
          PROVE  p \in discovered \/ p \in lost \/ DirOf[p] \in hidden
      <3>1. pc = "done"
        BY <2>1, <2>4 DEF IndInv, RunInv
      <3>2. queue = {} /\ pending = {}
        BY <2>1, <3>1 DEF IndInv, Walk
      <3>3. QED
        BY <2>1, <3>1, <3>2 DEF IndInv, Reached
    <2>5. QED
      BY <2>2, <2>3, <2>4 DEF NothingOverlooked
  <1>2. QED
    BY <1>1, InvariantHolds, PTL

-----------------------------------------------------------------------------
(* What readers of the run's row and of its results may rely on.           *)

LEMMA StepIsAccounted == IndInv /\ [Next]_vars => [Ledger!Next]_Book
  <1> SUFFICES ASSUME IndInv, [Next]_vars PROVE [Ledger!Next]_Book
    OBVIOUS
  <1>1. Whole \in BOOLEAN /\ (Whole => ~Has(noted, "UNKNOWN")) /\ RunTypeOK /\ RunInv
    BY DEF Whole, IndInv, TypeOK
  <1>2. CASE Start \/ Close
    BY <1>1, <1>2, ClosingIsAccounted DEF Start, Close
  <1>3. CASE ~(Start \/ Close)
    <2> SUFFICES UNCHANGED <<run, saved>>
      BY GatheringIsAccounted
    <2>0. /\ \A x : Conclude(x) => UNCHANGED <<run, saved>>
          /\ \A s : Continue(s) => UNCHANGED <<run, saved>>
      BY DEF Conclude, Continue, runVars
    <2>1. CASE ListFiles \/ ReadTags \/ ReadManifest
      <3>1. ASSUME ListFiles PROVE UNCHANGED <<run, saved>>
        BY Zenon, <2>0, <3>1 DEF ListFiles, Reject
      <3>2. ASSUME ReadTags PROVE UNCHANGED <<run, saved>>
        BY Zenon, <2>0, <3>2 DEF ReadTags, Reject
      <3>3. ASSUME ReadManifest PROVE UNCHANGED <<run, saved>>
        BY Zenon, <2>0, <3>3 DEF ReadManifest
      <3>4. QED
        BY <2>1, <3>1, <3>2, <3>3
    <2>2. CASE \/ ReadTagManifest \/ MetadataUnreadable
               \/ \E f \in Payload : Digest(f) \/ DigestFails(f)
      BY Zenon, <2>0, <2>2 DEF ReadTagManifest, MetadataUnreadable, Digest, DigestFails, Reject
    <2>3. CASE \/ RootMissing \/ DecompressionRaises \/ DigestsEnd \/ DiscoveryEnds
               \/ \E d \in Dirs : ListDirectory(d)
               \/ \E p \in Packages : Examine(p)
      BY <2>0, <2>3 DEF RootMissing, DecompressionRaises, DigestsEnd, DiscoveryEnds,
         ListDirectory, Examine, GoTo, runVars
    <2>4. CASE ~Audit
      BY <2>4 DEF Next, FileChanges, PackageChanges, PermissionsChange, vars, runVars
    <2>5. QED
      BY <1>3, <2>1, <2>2, <2>3, <2>4 DEF Audit
  <1>4. QED
    BY <1>2, <1>3

\* The exporter may rely on what an audit of packages stores: its row is closed once, with a
\* status that the results stored by then justify, and then neither changes.
THEOREM WellAccounted == Spec => RunIsAccounted
  <1>1. Init => Ledger!Init
    BY LedgerBegins DEF Init
  <1>2. QED
    BY <1>1, StepIsAccounted, InvariantHolds, PTL DEF Spec, RunIsAccounted, Ledger!Spec

===============================================================================
