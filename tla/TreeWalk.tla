------------------------------- MODULE TreeWalk -------------------------------
(***************************************************************************)
(* The AIP root and iter_files (integrity.py), the walk both the integrity *)
(* check and the "baseline" command begin with.                            *)
(*                                                                         *)
(* A walk lists one directory after another while files come and go and    *)
(* directories lose and regain their permissions.  An execution is         *)
(* identified by an element of RunIds, whether or not it writes a row in   *)
(* audit_runs.                                                             *)
(***************************************************************************)
EXTENDS AuditStore

CONSTANTS
    Files,    \* regular files that may exist, by canonical relative path
    Dirs,     \* directories below the root, the root included
    DirOf,    \* the directory of each file
    Root,     \* the root, as the subject of a DIRECTORY_READ_ERROR
    Absent,   \* no file under that name
    Symlink   \* a symbolic link under that name

\* What hash_file returns for a file that can be read.
Content == [checksum : Checksums, size : Sizes]

ASSUME TreeAssumption ==
    /\ Files \subseteq Paths
    /\ DirOf \in [Files -> Dirs]
    /\ Root \notin Paths
    /\ Absent \notin Content /\ Symlink \notin Content

FileState == Content \cup {Absent, Symlink}

Result == [path : Paths \cup {Root}, status : {"PASS", "FAIL", "WARNING", "UNKNOWN"},
           code : {"", "NO_BASELINE", "CHECKSUM_MISMATCH", "FILE_MISSING",
                   "FILE_READ_ERROR", "SYMLINK_SKIPPED", "DIRECTORY_READ_ERROR"}]

Note(path, status, code) == [path |-> path, status |-> status, code |-> code]

VARIABLES
    tree,        \* what is under each name now
    unreadable,  \* directories the auditor may not list now
    pending,     \* directories os.walk has still to list
    listed,      \* the files iter_files has found
    traversal,   \* the errors it has found
    during,      \* observer: what each name has held since the walk began
    hidden       \* observer: directories unreadable at some time since then

world == <<tree, unreadable>>
walk == <<pending, listed, traversal>>
observed == <<during, hidden>>
walkVars == <<world, walk, observed>>

WalkTypeOK ==
    /\ tree \in [Files -> FileState]
    /\ unreadable \subseteq Dirs
    /\ pending \in [RunIds -> SUBSET Dirs]
    /\ listed \in [RunIds -> SUBSET Files]
    /\ traversal \in [RunIds -> SUBSET Result]
    /\ during \in [RunIds -> SUBSET (Files \X FileState)]
    /\ hidden \in [RunIds -> SUBSET Dirs]

WalkInit ==
    /\ tree \in [Files -> FileState]
    /\ unreadable = {}
    /\ pending = [r \in RunIds |-> {}]
    /\ listed = [r \in RunIds |-> {}]
    /\ traversal = [r \in RunIds |-> {}]
    /\ during = [r \in RunIds |-> {}]
    /\ hidden = [r \in RunIds |-> {}]

BeginWalk(r) ==
    /\ pending' = [pending EXCEPT ![r] = Dirs]
    /\ during' = [during EXCEPT ![r] = {<<f, tree[f]>> : f \in Files}]
    /\ hidden' = [hidden EXCEPT ![r] = unreadable]
    /\ UNCHANGED <<world, listed, traversal>>

RegularIn(d) == {f \in Files : DirOf[f] = d /\ tree[f] \in Content}
SymlinksIn(d) == {f \in Files : DirOf[f] = d /\ tree[f] = Symlink}

\* os.walk is given no onerror: a directory that cannot be listed contributes
\* no name and no error.
ListDirectory(r, d) ==
    /\ d \in pending[r]
    /\ pending' = [pending EXCEPT ![r] = @ \ {d}]
    /\ IF d \in unreadable
       THEN UNCHANGED <<listed, traversal>>
       ELSE /\ listed' = [listed EXCEPT ![r] = @ \cup RegularIn(d)]
            /\ traversal' = [traversal EXCEPT ![r] = @ \cup
                  {Note(f, "UNKNOWN", "SYMLINK_SKIPPED") : f \in SymlinksIn(d)}]
    /\ UNCHANGED <<world, observed>>

\* A directory that can be listed but not entered: examining a name in it
\* raises OSError, which ends the walk with what was found until then.
WalkAborts(r) ==
    /\ pending[r] # {}
    /\ pending' = [pending EXCEPT ![r] = {}]
    /\ traversal' = [traversal EXCEPT ![r] = @ \cup
          {Note(Root, "UNKNOWN", "DIRECTORY_READ_ERROR")}]
    /\ UNCHANGED <<world, listed, observed>>

WalkStep(r) == WalkAborts(r) \/ \E d \in Dirs : ListDirectory(r, d)

-----------------------------------------------------------------------------
(* What happens to the AIP root meanwhile.                                 *)

Begun(r) == during[r] # {}

ChangeFile(f, state) ==
    /\ tree[f] # state
    /\ tree' = [tree EXCEPT ![f] = state]
    /\ during' = [r \in RunIds |->
          IF Begun(r) THEN during[r] \cup {<<f, state>>} ELSE {}]
    /\ UNCHANGED <<unreadable, walk, hidden>>

ChangePermissions(d) ==
    /\ unreadable' = IF d \in unreadable THEN unreadable \ {d} ELSE unreadable \cup {d}
    /\ hidden' = [r \in RunIds |->
          IF Begun(r) THEN hidden[r] \cup unreadable' ELSE {}]
    /\ UNCHANGED <<tree, walk, during>>

\* A file that has held regular content, whatever content, since the walk began.
ThereAllAlong(r, f) == \A s \in FileState : <<f, s>> \in during[r] => s \in Content

\* The walk met an error it could see.
WalkBroken(r) == \E n \in traversal[r] : n.code = "DIRECTORY_READ_ERROR"

=============================================================================
