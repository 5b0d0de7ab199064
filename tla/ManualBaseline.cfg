\* One file, two executions of the command, receipts, changes of content.
SPECIFICATION CommandSpec
CONSTANTS
    c1 = c1 fa = fa fb = fb d1 = d1 d2 = d2
    RunIds = {r1, r2}
    Paths = {fa}
    Checksums = {c1, c2}
    Sizes = {1, 2}
    Events = {e1}
    Aips = {p1}
    Replicas = {t1}
    Keys = {k1}
    Files = {fa}
    Dirs = {d1}
    DirOf <- MCDirOf
    Root = Root
    Nothing = Nothing
    Absent = Absent
    Symlink = Symlink
SYMMETRY EitherRun
CONSTRAINT SomeCommandLeft
CONSTRAINT SizeOfItsChecksum
INVARIANTS
    CommandTypeOK
    BaselineWasHeld
    FirstWriterWins
    CleanMeansRegistered
