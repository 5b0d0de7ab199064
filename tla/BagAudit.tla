------------------------------- MODULE BagAudit -------------------------------
(***************************************************************************)
(* BagItAuditor.check (bagit.py): the packages below a directory are       *)
(* discovered and each is validated, one after the other, while packages   *)
(* come and go, files change and archives break.                           *)
(*                                                                         *)
(* A package is a directory or a ZIP archive.  Its discovery shows that    *)
(* bagit.txt is there; validation lists its files, reads the tag files and *)
(* one payload manifest, hashes the payload and then what the tag manifest *)
(* lists.  Each of these is a step of its own; nothing is locked meanwhile.*)
(* The digest of a content is the content.                                 *)
(***************************************************************************)
EXTENDS AuditRun

CONSTANTS
    Packages,    \* directories and archives that may hold a bag
    Zips,        \* those that are archives
    Dirs,        \* directories
    DirOf,       \* the directory whose listing shows the package
    DataDir,     \* the directory its payload is in, unless it is an archive
    Payload,     \* names below data/
    Contents,    \* what a file may hold
    Absent,      \* no file under that name
    Link,        \* a symbolic link under that name, outside of archives
    Damaged,     \* bytes that do not decompress, or fail their CRC, in archives
    Structures,  \* what packages may be made of, their payload aside
    None,        \* no package, no manifest, no entry for a file
    Malformed    \* a payload manifest that cannot be parsed

Algorithms == {"sha512", "sha256", "md5", "sha1"}

\* The entries of a payload manifest, or what there is in its place.
Manifest == [Payload -> Contents \cup {None}] \cup {None, Malformed}

Structure == [tags : {"good", "lacking", "unsupported", "nonstandard", "malformed"},
              manifest : [Algorithms -> Manifest],
              tagManifest : {"none", "agrees", "differs", "lacks", "malformed"},
              weakTags : BOOLEAN,  \* a tag manifest of md5, or one that is not verified
              unsafe : BOOLEAN]

ASSUME BagAssumption ==
    /\ Zips \subseteq Packages
    /\ DirOf \in [Packages -> Dirs] /\ DataDir \in [Packages -> Dirs]
    /\ Absent \notin Contents /\ Link \notin Contents /\ Damaged \notin Contents
    /\ None \notin Contents /\ None \notin Packages
    /\ Absent # Link /\ Absent # Damaged /\ Malformed # None
    /\ Malformed \notin [Payload -> Contents \cup {None}]
    /\ Structures \subseteq Structure
    /\ Items = Packages
    /\ {"BAG_SYMLINK", "BAG_UNSAFE", "BAG_REQUIRED_TAG_MISSING",
        "BAG_UNSUPPORTED_VERSION", "BAG_INVALID_TAG_FILE", "BAG_INVALID_MANIFEST",
        "BAG_SUPPORTED_MANIFEST_MISSING", "BAG_PAYLOAD_MISSING",
        "BAG_PAYLOAD_UNLISTED", "BAG_CHECKSUM_MISMATCH", "BAG_READ_ERROR",
        "BAG_TAG_FILE_MISSING", "BAG_TAG_CHECKSUM_MISMATCH",
        "BAG_NONSTANDARD_TAG_CONTINUATION", "BAG_WEAK_MANIFEST_ALGORITHM",
        "BAG_STRONG_MANIFEST_MISSING"} \subseteq Codes

FileState == Contents \cup {Absent, Link, Damaged}

\* A link is no member of an archive; a plain file does not decompress.
FileStates(p) == Contents \cup {Absent, IF p \in Zips THEN Damaged ELSE Link}

\* An archive whose directory cannot be read is "broken".
PlaceStates(p) == {"there", "gone"} \cup {s \in {"broken"} : p \in Zips}

VARIABLES
    place,       \* what there is where each package may be
    structure,   \* what it is made of
    file,        \* what is under each name of its payload
    unreadable,  \* directories that cannot be listed now
    pending,     \* directories the walk has still to list
    queue,       \* packages of the directory just listed, still to be examined
    current,     \* the package being validated
    step,        \* the next step of its validation
    listed,      \* the payload found in it
    left,        \* the files still to be hashed
    errors,      \* what was found wrong with it
    warnings,
    discovered,  \* observer: packages the walk has come upon
    during,      \* observer: what each name has held since the audit began
    lost,        \* observer: packages that were gone or broken meanwhile
    hidden,      \* observer: directories that could not be listed meanwhile
    unread       \* observer: packages of which a file could not be read

world == <<place, structure, file, unreadable>>
local == <<current, step, listed, left, errors, warnings>>
walk == <<pending, queue, local>>
observed == <<during, lost, hidden>>
vars == <<runVars, world, walk, discovered, observed, unread>>

TypeOK ==
    /\ RunTypeOK
    /\ \A p \in Packages : place[p] \in PlaceStates(p)
    /\ structure \in [Packages -> Structures]
    /\ file \in [Packages -> [Payload -> FileState]]
    /\ unreadable \subseteq Dirs
    /\ pending \subseteq Dirs
    /\ queue \subseteq Packages
    /\ current \in Packages \cup {None}
    /\ step \in {"walk", "list", "tags", "manifest", "digest", "tag manifest"}
    /\ listed \subseteq Payload /\ left \subseteq Payload
    /\ errors \subseteq Codes /\ warnings \subseteq Codes
    /\ discovered \subseteq Packages
    /\ during \subseteq Packages \X Payload \X FileState
    /\ lost \subseteq Packages /\ hidden \subseteq Dirs /\ unread \subseteq Packages

Init ==
    /\ RunInit
    /\ place \in [Packages -> {"there", "gone", "broken"}]
    /\ \A p \in Packages : place[p] \in PlaceStates(p)
    /\ structure \in [Packages -> Structures]
    /\ file \in [Packages -> [Payload -> FileState]]
    /\ \A p \in Packages, f \in Payload : file[p][f] \in FileStates(p)
    /\ unreadable = {}
    /\ pending = {} /\ queue = {}
    /\ current = None /\ step = "walk"
    /\ listed = {} /\ left = {} /\ errors = {} /\ warnings = {}
    /\ discovered = {} /\ during = {} /\ lost = {} /\ hidden = {} /\ unread = {}

-----------------------------------------------------------------------------
(* Discovery.                                                              *)

Start ==
    /\ StartRun
    /\ pending' = {DirOf[p] : p \in Packages}
    /\ during' = {<<p, f, file[p][f]>> : p \in Packages, f \in Payload}
    /\ lost' = {p \in Packages : place[p] # "there"}
    /\ hidden' = unreadable
    /\ UNCHANGED <<world, queue, local, discovered, unread>>

\* A directory that cannot be listed contributes nothing, and no error.
ListDirectory(d) ==
    /\ pc = "gather" /\ step = "walk" /\ queue = {}
    /\ d \in pending
    /\ pending' = pending \ {d}
    /\ queue' = IF d \in unreadable THEN {}
                ELSE {p \in Packages : DirOf[p] = d /\ place[p] # "gone"}
    /\ UNCHANGED <<runVars, world, local, discovered, observed, unread>>

\* An archive that cannot be opened is a package too: a later step says so.
Examine(p) ==
    /\ pc = "gather" /\ step = "walk"
    /\ p \in queue
    /\ queue' = queue \ {p}
    /\ current' = p /\ step' = "list"
    /\ discovered' = discovered \cup {p}
    /\ UNCHANGED <<runVars, world, pending, listed, left, errors, warnings, observed, unread>>

-----------------------------------------------------------------------------
(* The validation of the package at hand.                                  *)

At(s) == pc = "gather" /\ step = s

\* The package has its result, and the walk goes on.
Conclude(result) ==
    /\ noted' = noted \cup {result}
    /\ current' = None /\ step' = "walk"
    /\ listed' = {} /\ left' = {} /\ errors' = {} /\ warnings' = {}
    /\ UNCHANGED <<pc, run, saved, pending, queue>>

\* A BagReadError ends the validation; the errors found until then count.
Reject(code) == Conclude(Judged(current, errors \cup {code}, warnings))

Continue(next) ==
    /\ step' = next
    /\ UNCHANGED <<runVars, pending, queue, current>>

Visible(p) ==
    IF p \in Zips \/ DataDir[p] \notin unreadable
    THEN {f \in Payload : file[p][f] # Absent} ELSE {}

\* BagReader.files: a directory that is gone has no files, an archive raises.
ListFiles ==
    /\ At("list")
    /\ LET seen == Visible(current) IN
       CASE current \in Zips /\ place[current] # "there" -> Conclude(Inconclusive(current))
         [] current \notin Zips /\ place[current] = "gone" ->
               Conclude(Judged(current,
                  {"BAG_REQUIRED_TAG_MISSING", "BAG_SUPPORTED_MANIFEST_MISSING"}, {}))
         [] place[current] = "there" /\ structure[current].unsafe -> Reject("BAG_UNSAFE")
         [] place[current] = "there" /\ ~structure[current].unsafe
               /\ \E f \in seen : file[current][f] = Link -> Reject("BAG_SYMLINK")
         [] OTHER ->
               /\ listed' = seen
               /\ Continue("tags")
               /\ UNCHANGED <<left, errors, warnings>>
    /\ UNCHANGED <<world, discovered, observed, unread>>

\* bagit.txt and bag-info.txt.
ReadTags ==
    /\ At("tags") /\ place[current] = "there"
    /\ LET tags == structure[current].tags IN
       IF tags = "malformed" THEN Reject("BAG_INVALID_TAG_FILE")
       ELSE /\ errors' = errors
                  \cup {c \in {"BAG_REQUIRED_TAG_MISSING"} : tags = "lacking"}
                  \cup {c \in {"BAG_UNSUPPORTED_VERSION"} : tags = "unsupported"}
            /\ warnings' = warnings \cup
                  {c \in {"BAG_NONSTANDARD_TAG_CONTINUATION"} : tags = "nonstandard"}
            /\ Continue("manifest")
            /\ UNCHANGED <<listed, left>>
    /\ UNCHANGED <<world, discovered, observed, unread>>

Declared(s) == {a \in Algorithms : s.manifest[a] # None}

\* Mutation: the legacy algorithm first.
PreferredLegacy(s) ==
    CASE "md5" \in Declared(s) -> "md5"
      [] "md5" \notin Declared(s) /\ "sha512" \in Declared(s) -> "sha512"
      [] OTHER -> "sha256"

\* The one payload manifest that is verified, when there is one.
Preferred(s) ==
    CASE "sha512" \in Declared(s) -> "sha512"
      [] "sha512" \notin Declared(s) /\ "sha256" \in Declared(s) -> "sha256"
      [] OTHER -> "md5"

Entries(s) == s.manifest[Preferred(s)]

\* A weak algorithm counts in the manifests of the payload and of the tag files.
Weaknesses(s) ==
    {c \in {"BAG_WEAK_MANIFEST_ALGORITHM"} :
            s.weakTags \/ Declared(s) \cap {"md5", "sha1"} # {}}
    \cup {c \in {"BAG_STRONG_MANIFEST_MISSING"} :
            "md5" \in Declared(s) /\ Declared(s) \cap {"sha512", "sha256"} = {}}

\* Mutation: the two differences are swapped.
CoverageSwapped(entries) ==
    {c \in {"BAG_PAYLOAD_UNLISTED"} : \E f \in Payload \ listed : entries[f] # None}
    \cup {c \in {"BAG_PAYLOAD_MISSING"} : \E f \in listed : entries[f] = None}

Coverage(entries) ==
    {c \in {"BAG_PAYLOAD_MISSING"} : \E f \in Payload \ listed : entries[f] # None}
    \cup {c \in {"BAG_PAYLOAD_UNLISTED"} : \E f \in listed : entries[f] = None}

\* The size of every file found is taken here: one that has disappeared since,
\* or whose archive has, makes the whole package inconclusive.
ReadManifest ==
    /\ At("manifest")
    /\ LET s == structure[current] IN
       CASE Declared(s) \subseteq {"sha1"} ->
               /\ errors' = errors \cup {"BAG_SUPPORTED_MANIFEST_MISSING"}
               /\ warnings' = warnings \cup Weaknesses(s)
               /\ Continue("tag manifest")
               /\ UNCHANGED <<listed, left>>
         [] ~(Declared(s) \subseteq {"sha1"}) /\ Entries(s) = Malformed ->
               Conclude(Judged(current, errors \cup {"BAG_INVALID_MANIFEST"},
                               warnings \cup Weaknesses(s)))
         [] ~(Declared(s) \subseteq {"sha1"}) /\ Entries(s) # Malformed
               /\ (place[current] # "there" \/ \E f \in listed : file[current][f] = Absent) ->
               Conclude(Inconclusive(current))
         [] OTHER ->
               /\ errors' = errors \cup Coverage(Entries(s))
               /\ warnings' = warnings \cup Weaknesses(s)
               /\ left' = {f \in listed : Entries(s)[f] # None}
               /\ Continue("digest")
               /\ UNCHANGED listed
    /\ UNCHANGED <<world, discovered, observed, unread>>

Readable(f) == place[current] = "there" /\ file[current][f] \in Contents

Digest(f) ==
    /\ At("digest")
    /\ f \in left /\ Readable(f)
    /\ left' = left \ {f}
    /\ errors' = errors \cup {c \in {"BAG_CHECKSUM_MISMATCH"} :
                                file[current][f] # Entries(structure[current])[f]}
    /\ Continue("digest")
    /\ UNCHANGED <<listed, warnings, world, discovered, observed, unread>>

\* OSError, KeyError, RuntimeError or BadZipFile: a BagReadError.
DigestFails(f) ==
    /\ At("digest")
    /\ f \in left
    /\ Reject("BAG_READ_ERROR")
    /\ unread' = unread \cup {current}
    /\ UNCHANGED <<world, discovered, observed>>

\* zlib.error is none of those: it goes through validate_bag, and through the
\* comprehension that holds the results of the other packages.
DecompressionRaises ==
    /\ current \in Zips /\ place[current] = "there"
    /\ \/ step \in {"tags", "manifest", "tag manifest"}
       \/ At("digest") /\ \E f \in left : file[current][f] = Damaged
    /\ GoTo("gather", "fail")
    /\ UNCHANGED <<run, noted, saved, world, walk, discovered, observed, unread>>

DigestsEnd ==
    /\ At("digest")
    /\ left = {}
    /\ Continue("tag manifest")
    /\ UNCHANGED <<listed, left, errors, warnings, world, discovered, observed, unread>>

TagErrors ==
    [none |-> {}, agrees |-> {}, differs |-> {"BAG_TAG_CHECKSUM_MISMATCH"},
     lacks |-> {"BAG_TAG_FILE_MISSING"}, malformed |-> {"BAG_INVALID_MANIFEST"}]

ReadTagManifest ==
    /\ At("tag manifest")
    /\ place[current] = "there" \/ structure[current].tagManifest = "none"
    /\ Conclude(Judged(current, errors \cup TagErrors[structure[current].tagManifest], warnings))
    /\ UNCHANGED <<world, discovered, observed, unread>>

\* A metadata file cannot be read; its size cannot even be taken.
MetadataUnreadable ==
    /\ pc = "gather" /\ step \in {"tags", "manifest", "tag manifest"}
    /\ Reject("BAG_READ_ERROR") \/ Conclude(Inconclusive(current))
    /\ unread' = unread \cup {current}
    /\ UNCHANGED <<world, discovered, observed>>

-----------------------------------------------------------------------------
(* The end of the audit.                                                   *)

DiscoveryEnds ==
    /\ step = "walk" /\ queue = {} /\ pending = {}
    /\ GoTo("gather", "save")
    /\ UNCHANGED <<run, noted, saved, world, walk, discovered, observed, unread>>

\* root.resolve(strict=True)
RootMissing ==
    /\ pc = "gather" /\ pending = {DirOf[p] : p \in Packages} /\ discovered = {}
    /\ queue = {}
    /\ pc' = "fail"
    /\ UNCHANGED <<run, noted, saved, world, walk, discovered, observed, unread>>

Whole == ~Has(noted, "UNKNOWN")

Close ==
    /\ SaveResults \/ FinishRun(Whole) \/ DatabaseRaises \/ FailRun \/ Crash
    /\ UNCHANGED <<world, walk, discovered, observed, unread>>

Audit ==
    \/ Start \/ RootMissing
    \/ \E d \in Dirs : ListDirectory(d)
    \/ \E p \in Packages : Examine(p)
    \/ ListFiles \/ ReadTags \/ ReadManifest
    \/ \E f \in Payload : Digest(f) \/ DigestFails(f)
    \/ DecompressionRaises \/ DigestsEnd \/ ReadTagManifest \/ MetadataUnreadable
    \/ DiscoveryEnds \/ Close

-----------------------------------------------------------------------------
(* Around the audit.                                                       *)

Begun == pc # "idle"

FileChanges(p, f, s) ==
    /\ file[p][f] # s
    /\ file' = [file EXCEPT ![p][f] = s]
    /\ during' = IF Begun THEN during \cup {<<p, f, s>>} ELSE {}
    /\ UNCHANGED <<runVars, place, structure, unreadable, walk, discovered, lost, hidden, unread>>

PackageChanges(p, s) ==
    /\ place[p] # s
    /\ place' = [place EXCEPT ![p] = s]
    /\ lost' = IF Begun /\ s # "there" THEN lost \cup {p} ELSE lost
    /\ UNCHANGED <<runVars, structure, file, unreadable, walk, discovered, during, hidden, unread>>

PermissionsChange(d) ==
    /\ unreadable' = IF d \in unreadable THEN unreadable \ {d} ELSE unreadable \cup {d}
    /\ hidden' = IF Begun THEN hidden \cup unreadable' ELSE {}
    /\ UNCHANGED <<runVars, place, structure, file, walk, discovered, during, lost, unread>>

Next ==
    \/ Audit
    \/ \E p \in Packages, f \in Payload : \E s \in FileStates(p) : FileChanges(p, f, s)
    \/ \E p \in Packages : \E s \in PlaceStates(p) : PackageChanges(p, s)
    \/ \E d \in Dirs : PermissionsChange(d)

Spec == Init /\ [][Next]_vars

-----------------------------------------------------------------------------
(* Properties.                                                             *)

Hidden(p) == p \notin Zips /\ DataDir[p] \in hidden

HasManifest(s) == ~(Declared(s) \subseteq {"sha1"})

\* What the manifest of an algorithm lists was there, and nothing else was.
Verified(p, entries) ==
    /\ entries # Malformed
    /\ \A f \in Payload :
          IF entries[f] # None THEN <<p, f, entries[f]>> \in during
          ELSE <<p, f, Absent>> \in during \/ Hidden(p)

\* A package that is made as it should be.
Sound(s) ==
    /\ s.tags \in {"good", "nonstandard"} /\ ~s.unsafe
    /\ s.tagManifest \in {"none", "agrees"}
    /\ HasManifest(s)

\* A package is PASS or WARNING only if it is made as it should be, if under
\* each name of one of its manifests there was its content and nothing else was
\* there, as far as its directory could be listed, and if that manifest is of a
\* strong algorithm when it has one.  PASS leaves out packages that declare an
\* algorithm no longer trusted.
PassMeansVerified ==
    \A n \in noted : n.status \in {"PASS", "WARNING"} =>
        LET s == structure[n.item]
            strong == Declared(s) \cap {"sha512", "sha256"} IN
        /\ Sound(s)
        /\ \E a \in IF strong = {} THEN {"md5"} ELSE strong : Verified(n.item, s.manifest[a])
        /\ n.status = "PASS" => Declared(s) = strong /\ ~s.weakTags /\ s.tags = "good"

\* No false alarm: a package reported changed, incomplete or with files beside
\* its manifest was so, and one that is FAIL had a defect to show, unless it
\* was removed or could not be read or listed meanwhile.
AlarmIsReal ==
    \A n \in noted :
        LET s == structure[n.item]
            held(f, c) == <<n.item, f, c>> \in during IN
        /\ "BAG_CHECKSUM_MISMATCH" \in n.errors =>
              \E f \in Payload, c \in Contents :
                 held(f, c) /\ Entries(s)[f] \in Contents \ {c}
        /\ "BAG_PAYLOAD_MISSING" \in n.errors =>
              Hidden(n.item) \/ \E f \in Payload : Entries(s)[f] # None /\ held(f, Absent)
        /\ "BAG_PAYLOAD_UNLISTED" \in n.errors =>
              \E f \in Payload : Entries(s)[f] = None /\ \E c \in FileState \ {Absent} : held(f, c)
        /\ n.status = "FAIL" =>
              \/ ~Sound(s) \/ Entries(s) = Malformed \/ n.item \in lost \cup unread \/ Hidden(n.item)
              \/ \E f \in Payload, c \in FileState :
                     held(f, c) /\ c # IF Entries(s)[f] = None THEN Absent ELSE Entries(s)[f]

\* No package is passed over: what is saved is what was discovered, a complete
\* scan has a result for every package that was there all along, provided every
\* directory could be listed, and the accounts of the audit agree.
NothingOverlooked ==
    /\ AccountsAgree
    /\ saved # {} => {n.item : n \in saved} = discovered
    /\ run.complete =>
          \A p \in Packages : p \in discovered \/ p \in lost \/ DirOf[p] \in hidden

\* metrics.py:42 "Pacotes BagIt descobertos na ultima auditoria.": the number of
\* results is the number of packages the last audit came upon, when the database
\* does not fail.
TotalIsDiscovered ==
    (pc = "done" \/ (pc = "raised" /\ current # None)) =>
        {n.item : n \in saved} = discovered

===============================================================================
