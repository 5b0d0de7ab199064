\* One check of two files in two directories, and a baseline under a spelling
\* the walk does not use.
SPECIFICATION Spec
CONSTANTS
    fa = fa fb = fb alias = alias c1 = c1 d1 = d1 d2 = d2
    RunIds = {r1}
    Paths = {fa, fb, alias}
    Checksums = {c1, c2}
    Sizes = {1}
    Events = {e1}
    Aips = {p1}
    Replicas = {t1}
    Keys = {k1}
    Files = {fa, fb}
    Dirs = {d1, d2}
    DirOf <- MCDirOf
    Root = Root
    Absent = Absent
    Symlink = Symlink
CONSTRAINT SomeCheckLeft
CONSTRAINT SecondFileIsPlain
INVARIANTS
    TypeOK
    PassMeansVerified
    AlarmIsReal
    CompleteMeansCovered
PROPERTY RunIsAccounted
