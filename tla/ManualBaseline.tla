---------------------------- MODULE ManualBaseline ----------------------------
(***************************************************************************)
(* The "baseline" command (IntegrityAuditor.create_baseline, integrity.py; *)
(* exit status in cli.py): a walk, then for each file found a hash and one *)
(* transaction that inserts its baseline unless the path has one.          *)
(*                                                                         *)
(* The command holds no lock: executions of it overlap, and receipts are   *)
(* registered meanwhile.                                                   *)
(***************************************************************************)
EXTENDS TreeWalk

CONSTANT Nothing  \* no content hashed

ASSUME NothingAssumption == Nothing \notin Content

VARIABLES
    hashed,    \* the content of the file being registered, once hashed
    current,   \* that file, or Root
    visited,   \* files the loop is done with
    created,   \* what it registered: the counter, by row
    failed,    \* files hash_file could not read: the counter, by name
    onceHeld   \* observer: what each name has held since the beginning

commandLocals == <<hashed, current, visited, created, failed>>
commandVars == <<storeVars, walkVars, pc, commandLocals, onceHeld>>

CommandTypeOK ==
    /\ StoreTypeOK
    /\ WalkTypeOK
    /\ pc \in [RunIds -> {"idle", "walk", "hash", "insert", "done", "raised", "dead"}]
    /\ hashed \in [RunIds -> Content \cup {Nothing}]
    /\ current \in [RunIds -> Files \cup {Root}]
    /\ visited \in [RunIds -> SUBSET Files]
    /\ created \in [RunIds -> SUBSET BaselineRow]
    /\ failed \in [RunIds -> SUBSET Files]
    /\ onceHeld \subseteq Files \X FileState

CommandInit ==
    /\ StoreInit
    /\ WalkInit
    /\ pc = [r \in RunIds |-> "idle"]
    /\ hashed = [r \in RunIds |-> Nothing]
    /\ current = [r \in RunIds |-> Root]
    /\ visited = [r \in RunIds |-> {}]
    /\ created = [r \in RunIds |-> {}]
    /\ failed = [r \in RunIds |-> {}]
    /\ onceHeld = {<<f, tree[f]>> : f \in Files}

StartCommand(r) ==
    /\ GoTo(r, "idle", "walk")
    /\ BeginWalk(r)
    /\ UNCHANGED <<storeVars, commandLocals, onceHeld>>

CommandWalk(r) ==
    /\ GoTo(r, "walk", "walk")
    /\ WalkStep(r)
    /\ UNCHANGED <<storeVars, commandLocals, onceHeld>>

WalkEnds(r) ==
    /\ GoTo(r, "walk", "hash")
    /\ pending[r] = {}
    /\ UNCHANGED <<storeVars, walkVars, commandLocals, onceHeld>>

\* hash_file: the file is read as it is now.
HashFile(r, f) ==
    /\ GoTo(r, "hash", "insert")
    /\ f \in listed[r] \ visited[r]
    /\ tree[f] \in Content
    /\ hashed' = [hashed EXCEPT ![r] = tree[f]]
    /\ current' = [current EXCEPT ![r] = f]
    /\ UNCHANGED <<storeVars, walkVars, visited, created, failed, onceHeld>>

\* Mutation: the unreadable file is passed over in silence.
ReadFailsUncounted(r, f) ==
    /\ GoTo(r, "hash", "hash")
    /\ f \in listed[r] \ visited[r]
    /\ visited' = [visited EXCEPT ![r] = @ \cup {f}]
    /\ UNCHANGED <<storeVars, walkVars, hashed, current, created, failed, onceHeld>>

\* OSError: counted, and the loop goes on.
ReadFails(r, f) ==
    /\ GoTo(r, "hash", "hash")
    /\ f \in listed[r] \ visited[r]
    /\ visited' = [visited EXCEPT ![r] = @ \cup {f}]
    /\ failed' = [failed EXCEPT ![r] = @ \cup {f}]
    /\ UNCHANGED <<storeVars, walkVars, hashed, current, created, onceHeld>>

\* file_changed_during_hash is a RuntimeError, which the loop does not catch:
\* the command ends where it is.
ChangesDuringHash(r, f) ==
    /\ GoTo(r, "hash", "raised")
    /\ f \in listed[r] \ visited[r]
    /\ Cardinality({p \in during[r] : p[1] = f}) > 1
    /\ UNCHANGED <<storeVars, walkVars, commandLocals, onceHeld>>

\* Mutations: the size is taken when the file is inserted; the checksum column
\* gets all that hash_file returned.
RowSizedNow(r) ==
    LET now == tree[current[r]] IN
    [path |-> current[r], checksum |-> hashed[r].checksum,
     size |-> IF now \in Content THEN now.size ELSE hashed[r].size]
RowUnsplit(r) ==
    [path |-> current[r], checksum |-> hashed[r], size |-> hashed[r].size]

RowHashed(r) ==
    [path |-> current[r], checksum |-> hashed[r].checksum, size |-> hashed[r].size]

Insert(r) ==
    /\ GoTo(r, "insert", "hash")
    /\ add_baseline(RowHashed(r))
    /\ created' = IF PathTaken(current[r]) THEN created
                  ELSE [created EXCEPT ![r] = @ \cup {RowHashed(r)}]
    /\ visited' = [visited EXCEPT ![r] = @ \cup {current[r]}]
    /\ hashed' = [hashed EXCEPT ![r] = Nothing]
    /\ current' = [current EXCEPT ![r] = Root]
    /\ UNCHANGED <<walkVars, failed, onceHeld>>

\* Exit status 0 if no file failed and the walk met no error, else 2.
Clean(r) == failed[r] = {} /\ traversal[r] = {}

End(r) ==
    /\ GoTo(r, "hash", "done")
    /\ listed[r] \subseteq visited[r]
    /\ UNCHANGED <<storeVars, walkVars, commandLocals, onceHeld>>

\* Killed, or a transaction raises.
CommandCrash(r) ==
    /\ pc[r] \in {"walk", "hash", "insert"}
    /\ pc' = [pc EXCEPT ![r] = "dead"]
    /\ UNCHANGED <<storeVars, walkVars, commandLocals, onceHeld>>

Command(r) ==
    \/ StartCommand(r) \/ CommandWalk(r) \/ WalkEnds(r)
    \/ \E f \in Files : HashFile(r, f) \/ ReadFails(r, f) \/ ChangesDuringHash(r, f)
    \/ Insert(r) \/ End(r)

TreeChanges(f, state) ==
    /\ ChangeFile(f, state)
    /\ onceHeld' = onceHeld \cup {<<f, state>>}
    /\ UNCHANGED <<storeVars, pc, commandLocals>>

DirectoryChanges(d) ==
    /\ ChangePermissions(d)
    /\ UNCHANGED <<storeVars, pc, commandLocals, onceHeld>>

\* A receipt is registered (AutoBaseline), with a content the file has held.
ReceiptRegistered(f) ==
    /\ \E c \in Content, q \in Registration :
        /\ <<f, c>> \in onceHeld
        /\ q.path = f /\ q.checksum = c.checksum /\ q.size = c.size
        /\ Register(q, {})
    /\ UNCHANGED <<walkVars, pc, commandLocals, onceHeld>>

CommandNext ==
    \/ \E r \in RunIds : Command(r) \/ CommandCrash(r)
    \/ \E f \in Files, s \in FileState : TreeChanges(f, s)
    \/ \E d \in Dirs : DirectoryChanges(d)
    \/ \E f \in Files : ReceiptRegistered(f)

CommandSpec == CommandInit /\ [][CommandNext]_commandVars

-----------------------------------------------------------------------------
\* No baseline is anything but a content its file has held, whatever happens to
\* the file between its hash and its insertion (integrity.py:83-88).
BaselineWasHeld ==
    \A b \in baselines :
        <<b.path, [checksum |-> b.checksum, size |-> b.size]>> \in onceHeld

\* Exit status 0 means that every file that was there all along has a baseline,
\* as far as every directory could be listed.
CleanMeansRegistered ==
    \A r \in RunIds : pc[r] = "done" /\ Clean(r) /\ hidden[r] = {} =>
        \A f \in Files : ThereAllAlong(r, f) => PathTaken(f)

\* A baseline has one author and stays as the author wrote it: of the executions
\* that overlap and the receipts registered meanwhile, only the first to write a
\* path has it in its counter (README:31 "nunca substitui baselines existentes"; rowcount in add_baseline).
FirstWriterWins ==
    /\ UNION {created[r] : r \in RunIds} =
          {b \in baselines : \A e \in events : e.path # b.path}
    /\ \A r, s \in RunIds : \A b \in created[r], c \in created[s] :
          b.path = c.path => r = s

=============================================================================
