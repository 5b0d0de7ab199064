------------------------------ MODULE MCDoiAudit ------------------------------
(* Small instances of DoiAudit for TLC.                                      *)
EXTENDS DoiAudit, TLC

MCCodes ==
    {"DOI_NOT_FINDABLE", "DOI_METADATA_MISSING", "DOI_LANDING_FIELDS_MISSING",
     "DOI_INSECURE_REDIRECT", "DOI_REDIRECT_FORBIDDEN", "DOI_REDIRECT_INVALID",
     "DOI_REDIRECT_LIMIT", "DOI_LANDING_HTTP_ERROR", "DOI_LANDING_INVALID_RESPONSE"}

MCItems == 1..MaxRecords

On(host, scheme) == [host |-> host, scheme |-> scheme]

MCTargets == {On("data.scielo.org", "https"), On("data.scielo.org", "http"), On("other", "https")}

CONSTANTS d1, d2, d3

\* With fewer DOIs at the start than there are, some are registered meanwhile.
FewStarts == pc = "idle" => register \in {<<>>, <<d1, d2>>, <<d2, d3, d1>>}

\* What DataCite may say is explored for the first DOI, and what may happen to
\* a chain for the first record, when the register stays what it was.  Other
\* records are sent to their page at once, which is as it should be, or does not
\* answer, or their thread breaks.
Steady == register = <<d1, d2>> /\ ~removed

FirstDoiVaries ==
    \A d \in Dois : attributes[d] # [findable |-> TRUE, whole |-> TRUE] => d = d1 /\ Steady

FirstRecordVaries ==
    \A i \in Items : (i = 1 /\ Steady) \/
        /\ chain[i] # NoChain /\ chain[i].requests > 0 =>
              chain[i].url = On("data.scielo.org", "https")
        /\ Len(trail[i]) <= 2
        /\ \A n \in noted : n.item = i => n.status = "PASS" \/ (n.status = "UNKNOWN" /\ Steady)
===============================================================================
