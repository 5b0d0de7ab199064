------------------------------ MODULE DoiLanding ------------------------------
(***************************************************************************)
(* The landing page of a DOI (_fetch_landing of doi_audit.py): redirections*)
(* are followed one by one within a list of hosts, and what is found in the*)
(* end is judged together with what DataCite says of the DOI (audit_doi).  *)
(*                                                                         *)
(* A chain is where the loop over the redirections stands.                 *)
(***************************************************************************)
EXTENDS AuditRun

CONSTANTS MaxRedirects  \* MAX_REDIRECTS

ASSUME LandingAssumption ==
    /\ MaxRedirects \in Nat
    /\ {"DOI_NOT_FINDABLE", "DOI_METADATA_MISSING", "DOI_LANDING_FIELDS_MISSING",
        "DOI_INSECURE_REDIRECT", "DOI_REDIRECT_FORBIDDEN", "DOI_REDIRECT_INVALID",
        "DOI_REDIRECT_LIMIT", "DOI_LANDING_HTTP_ERROR",
        "DOI_LANDING_INVALID_RESPONSE"} \subseteq Codes

\* What the checks on a URL tell apart.
Url == [host : {"doi.org", "data.scielo.org", "other"}, scheme : {"https", "http", "other"}]

\* What DataCite says of a DOI: whether it is active and findable, and whether
\* the metadata that is demanded is there.
Attributes == [findable : BOOLEAN, whole : BOOLEAN]

Chain == [url : Url, requests : 0..(MaxRedirects + 1), insecure : BOOLEAN]

FirstChain ==
    [url |-> [host |-> "doi.org", scheme |-> "https"], requests |-> 0, insecure |-> FALSE]

Spent(c) == c.requests = MaxRedirects + 1

\* ALLOWED_LANDING_HOSTS, http or https.
Allowed(u) == u.host \in {"doi.org", "data.scielo.org"} /\ u.scheme \in {"https", "http"}

\* The chain after the request that is about to be made.
Asked(c) ==
    [c EXCEPT !.requests = @ + 1, !.insecure = @ \/ c.url.scheme = "http"]

\* Mutation: each redirection is followed by a loop of its own.
FollowedAfresh(c, u) == [FirstChain EXCEPT !.url = u]

\* A redirection: the host of its target is looked at before it is asked.
Followed(c, u) == [Asked(c) EXCEPT !.url = u]

\* Errors of an answer that ends the chain with no page to look at, one of
\* them (5xx, an OSError, a body too large) without a conclusion.
Answers == {"unavailable", "client error", "no location", "not html", "page", "poor page"}

AnswerErrors(c, answer) ==
    CASE answer = "client error" -> {"DOI_LANDING_HTTP_ERROR"}
      [] answer = "no location" -> {"DOI_REDIRECT_INVALID"}
      [] answer = "not html" -> {"DOI_LANDING_INVALID_RESPONSE"}
      [] answer \in {"page", "poor page"} /\ c.url.host # "data.scielo.org" ->
            {"DOI_REDIRECT_FORBIDDEN"}
      [] answer = "poor page" /\ c.url.host = "data.scielo.org" ->
            {"DOI_LANDING_FIELDS_MISSING"}
      [] OTHER -> {}

RecordErrors(a) ==
    {e \in {"DOI_NOT_FINDABLE"} : ~a.findable} \cup {e \in {"DOI_METADATA_MISSING"} : ~a.whole}

\* Only a chain that has reached a page has the warning.
ReachedPage(c, answer) == answer \in {"page", "poor page"} /\ c.url.host = "data.scielo.org"

\* The result when the chain ends in an answer ...
AnswerResult(x, a, c, answer) ==
    IF answer = "unavailable" THEN Inconclusive(x)
    ELSE Judged(x, RecordErrors(a) \cup AnswerErrors(c, answer),
                {w \in {"DOI_INSECURE_REDIRECT"} : ReachedPage(c, answer) /\ Asked(c).insecure})

\* ... and when it ends before another request is made.
StoppedResult(x, a, c) ==
    Judged(x, RecordErrors(a)
              \cup (IF Spent(c) THEN {"DOI_REDIRECT_LIMIT"} ELSE {"DOI_REDIRECT_FORBIDDEN"}), {})

===============================================================================
