\* Up to three DOIs, read one at a time and audited by two threads.
SPECIFICATION Spec
CONSTANTS
    Items <- MCItems
    Codes <- MCCodes
    MaxRedirects = 2
    d1 = d1 d2 = d2 d3 = d3
    Dois = {d1, d2, d3}
    PageSize = 1
    Targets <- MCTargets
    Maxima = {0, 2}
    Workers = 2
    MaxRecords = 3
    NoChain = NoChain
CONSTRAINT FewStarts
CONSTRAINT FirstDoiVaries
CONSTRAINT FirstRecordVaries
CHECK_DEADLOCK FALSE
INVARIANTS
    ChainIsSafe
    NothingLost
PROPERTY
    AuditEnds
