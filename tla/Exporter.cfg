\* Two executions: of one kind, or a job and its check.
SPECIFICATION Spec
CONSTANTS
    RunIds = {r1, r2}
    NoRun = NoRun
    Limit = 1
    MaxTime = 3
    Copies = 2
    RowBound = 2
SYMMETRY RunSymmetry
CONSTRAINT OneKindScraped
CONSTRAINT FewRows
CHECK_DEADLOCK FALSE
INVARIANTS
    TypeOK
    QuietMeansConforming
    JobFollowsItsCheck
    EvidenceNotBehind
PROPERTIES
    NeverShownOlder
    RunsAreAccounted
