\* An archive and a directory, each with up to two files.
SPECIFICATION Spec
CONSTANTS
    pz = pz pd = pd f1 = f1 f2 = f2 c1 = c1 c2 = c2 top = top data = data
    Items = {pz, pd}
    Codes <- MCCodes
    Packages = {pz, pd}
    Zips = {pz}
    Dirs = {top, data}
    DirOf <- MCDirOf
    DataDir <- MCDataDir
    Payload = {f1, f2}
    Contents = {c1, c2}
    Absent = Absent
    Link = Link
    Damaged = Damaged
    Structures <- MCStructures
    None = None
    Malformed = Malformed
CONSTRAINT StillRunning
CONSTRAINT FewChanges
CONSTRAINT OneAtATime
CHECK_DEADLOCK FALSE
INVARIANTS
    TypeOK
    PassMeansVerified
    AlarmIsReal
    NothingOverlooked
