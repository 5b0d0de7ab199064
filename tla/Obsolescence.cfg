\* An archive with two payload files.
SPECIFICATION Spec
CONSTANTS
    m1 = m1 m2 = m2 zip = zip p1 = p1 p2 = p2 pdf = pdf txt = txt
    Items = {m1, m2, zip}
    Codes <- MCCodes
    Members = {m1, m2}
    ArchiveOf <- MCArchiveOf
    Extension <- MCExtension
    Puids = {p1, p2}
    Unknown = Unknown
    Extensions = {pdf, txt}
    Policies <- MCPolicies
    Identified <- MCIdentified
    Absent = Absent
    None = None
    Invalid = Invalid
CONSTRAINT FewChanges
CONSTRAINT Interesting
CHECK_DEADLOCK FALSE
INVARIANTS
    RatedByFirstRule
    PayloadCovered
    ReportRemoved
