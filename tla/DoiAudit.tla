------------------------------- MODULE DoiAudit -------------------------------
(***************************************************************************)
(* DoiAuditor.check (doi_audit.py): the DOIs of a prefix are read from     *)
(* DataCite page by page, while it registers and removes DOIs; a pool of   *)
(* threads then asks for their landing pages, and the results are gathered *)
(* as the threads complete them.                                           *)
(*                                                                         *)
(* DataCite's register is a sequence; a page is a slice of what it is when *)
(* the page is asked for.  A record that has been read is known by its     *)
(* place, as a DOI may be read twice.                                      *)
(***************************************************************************)
EXTENDS DoiLanding, Sequences, Functions

CONSTANTS
    Dois,        \* names
    PageSize,    \* records of a page
    Maxima,      \* what --max-dois may be, 0 for none
    Workers,     \* threads of the pool
    Targets,     \* where redirections may lead
    MaxRecords,  \* bound on the records the audit may read
    NoChain      \* a record whose landing page is not being asked for

ASSUME DoiAssumption ==
    /\ PageSize \in Nat \ {0} /\ Workers \in Nat \ {0} /\ Maxima \subseteq Nat
    /\ MaxRecords \in Nat /\ Items = 1..MaxRecords
    /\ Targets \subseteq Url /\ NoChain \notin Chain

VARIABLES
    register,   \* what DataCite has under the prefix
    attributes, \* what it says of each DOI
    maxDois,    \* --max-dois
    page,       \* the next page to ask for
    reading,    \* whether pages are still asked for
    records,    \* the records read
    queued,     \* records no thread has taken yet
    chain,      \* where the threads are
    broken,     \* records whose thread raised
    trail,      \* observer: the URLs asked for each record
    atStart,    \* observer: the register when the audit began
    removed     \* observer: a DOI was removed while pages were read

external == <<register, attributes, maxDois>>
pool == <<queued, chain, broken>>
observed == <<trail, atStart, removed>>
vars == <<runVars, external, page, reading, records, pool, observed>>

TypeOK ==
    /\ RunTypeOK
    /\ register \in Seq(Dois) /\ attributes \in [Dois -> Attributes]
    /\ maxDois \in Maxima
    /\ page \in Nat \ {0} /\ reading \in BOOLEAN
    /\ records \in Seq(Dois) /\ Len(records) <= MaxRecords
    /\ queued \subseteq DOMAIN records
    /\ chain \in [Items -> Chain \cup {NoChain}]
    /\ broken \subseteq DOMAIN records
    /\ trail \in [Items -> Seq(Url)]
    /\ atStart \subseteq Dois /\ removed \in BOOLEAN

Init ==
    /\ RunInit
    /\ register \in UNION {Injection(1..n, Dois) : n \in 0..Cardinality(Dois)}
    /\ attributes \in [Dois -> Attributes]
    /\ maxDois \in Maxima
    /\ page = 1 /\ reading = TRUE /\ records = <<>>
    /\ queued = {} /\ chain = [i \in Items |-> NoChain] /\ broken = {}
    /\ trail = [i \in Items |-> <<>>] /\ atStart = {} /\ removed = FALSE

-----------------------------------------------------------------------------
(* The records.                                                            *)

Start ==
    /\ StartRun
    /\ atStart' = Range(register)
    /\ UNCHANGED <<external, page, reading, records, pool, trail, removed>>

\* page_size = min(1000, max_dois or 1000)
Size == IF maxDois = 0 \/ PageSize < maxDois THEN PageSize ELSE maxDois

Slice(s, n) ==
    SubSeq(s, (n - 1) * Size + 1, IF n * Size < Len(s) THEN n * Size ELSE Len(s))

\* The generator stops in the middle of a page at the maximum.
UpToMaximum(s) == IF maxDois > 0 /\ Len(s) > maxDois THEN SubSeq(s, 1, maxDois) ELSE s

\* Mutation: the last page is thought to begin at the total.
LastPageEarly(s, n) == (n + 1) * Size >= Len(s)

\* page >= totalPages, with as many pages as it takes.
LastPage(s, n) == n * Size >= Len(s)

FetchPage ==
    /\ pc = "gather" /\ reading
    /\ LET data == Slice(register, page) IN
       /\ Len(records) + Len(data) <= MaxRecords
       /\ records' = UpToMaximum(records \o data)
       /\ reading' = ~(\/ maxDois > 0 /\ Len(records') = maxDois
                       \/ LastPage(register, page) \/ data = <<>>)
       /\ page' = page + 1
       /\ queued' = IF reading' THEN {} ELSE DOMAIN records'
    /\ UNCHANGED <<runVars, external, chain, broken, observed>>

\* Anything but a JSON object with a list in it is a DoiAuditError.
FetchFails ==
    /\ reading
    /\ GoTo("gather", "fail")
    /\ UNCHANGED <<run, noted, saved, external, page, reading, records, pool, observed>>

-----------------------------------------------------------------------------
(* The threads.  They end whatever becomes of the main one, but for a kill. *)

Running == {i \in Items : chain[i] # NoChain}

TakeTask(i) ==
    /\ pc = "gather"
    /\ i \in queued /\ \A j \in queued : i <= j
    /\ Cardinality(Running) < Workers
    /\ queued' = queued \ {i}
    /\ chain' = [chain EXCEPT ![i] = FirstChain]
    /\ UNCHANGED <<runVars, external, page, reading, records, broken, observed>>

Goes(i) == pc = "gather" /\ i \in Running

MayAsk(c) == ~Spent(c) /\ Allowed(c.url)

\* The main thread gathers the results as they come, and does nothing else.
Complete(i, result) ==
    /\ noted' = noted \cup {result}
    /\ chain' = [chain EXCEPT ![i] = NoChain]
    /\ UNCHANGED <<pc, run, saved, queued, broken>>

\* A host or a scheme that is not allowed, or one redirection too many.
StopAt(i) ==
    /\ Goes(i) /\ ~MayAsk(chain[i])
    /\ Complete(i, StoppedResult(i, attributes[records[i]], chain[i]))
    /\ UNCHANGED <<external, page, reading, records, observed>>

AskNext(i) ==
    /\ Goes(i) /\ MayAsk(chain[i])
    /\ trail' = [trail EXCEPT ![i] = Append(@, chain[i].url)]
    /\ UNCHANGED <<external, page, reading, records, atStart, removed>>

Redirected(i, u) ==
    /\ AskNext(i)
    /\ chain' = [chain EXCEPT ![i] = Followed(@, u)]
    /\ UNCHANGED <<runVars, queued, broken>>

Answered(i, answer) ==
    /\ AskNext(i)
    /\ Complete(i, AnswerResult(i, attributes[records[i]], chain[i], answer))

\* An exception the thread does not catch: http.client's are no OSError.
Broken(i) ==
    /\ AskNext(i)
    /\ broken' = broken \cup {i}
    /\ chain' = [chain EXCEPT ![i] = NoChain]
    /\ UNCHANGED <<runVars, queued>>

Thread(i) ==
    \/ TakeTask(i) \/ StopAt(i)
    \/ \E u \in Targets : Redirected(i, u)
    \/ \E answer \in Answers : Answered(i, answer)
    \/ Broken(i)

-----------------------------------------------------------------------------
(* The end of the audit.                                                   *)

\* Mutation: the end of the audit awaits a result of every record.
PoolEndsWithAll ==
    /\ ~reading /\ {n.item : n \in noted} = DOMAIN records
    /\ GoTo("gather", "save")
    /\ UNCHANGED <<run, noted, saved, external, page, reading, records, pool, observed>>

\* future.result() raises what the thread raised, once all of them are over.
PoolEnds ==
    /\ ~reading /\ queued = {} /\ Running = {}
    /\ GoTo("gather", IF broken = {} THEN "save" ELSE "fail")
    /\ UNCHANGED <<run, noted, saved, external, page, reading, records, pool, observed>>

\* bool(results) and no UNKNOWN
Whole == noted # {} /\ ~Has(noted, "UNKNOWN")

Close ==
    /\ SaveResults \/ FinishRun(Whole) \/ DatabaseRaises \/ FailRun
    /\ UNCHANGED <<external, page, reading, records, pool, observed>>

Kill == Crash /\ UNCHANGED <<external, page, reading, records, pool, observed>>

Main == Start \/ FetchPage \/ FetchFails \/ PoolEnds \/ Close

\* DataCite registers or removes a DOI, which shifts the ones after it.  What
\* it does before the audit is in Init, and afterwards it is seen by nobody.
RegisterChanges ==
    /\ pc = "gather" /\ reading
    /\ \/ \E n \in 1..(Len(register) + 1), d \in Dois \ Range(register) :
            /\ register' = SubSeq(register, 1, n - 1) \o <<d>> \o SubSeq(register, n, Len(register))
            /\ UNCHANGED removed
       \/ \E n \in DOMAIN register :
            /\ register' = SubSeq(register, 1, n - 1) \o SubSeq(register, n + 1, Len(register))
            /\ removed' = TRUE
    /\ UNCHANGED <<runVars, attributes, maxDois, page, reading, records, pool, trail, atStart>>

Next ==
    \/ Main
    \/ \E i \in Items : Thread(i)
    \/ Kill \/ RegisterChanges

\* Every request has a timeout and a bound on what it reads, so that each step of
\* the audit, and of each of its threads, comes.  No kill is counted on.
Fairness ==
    /\ WF_vars(FetchPage \/ FetchFails) /\ WF_vars(PoolEnds) /\ WF_vars(Close)
    /\ \A i \in Items : WF_vars(Thread(i))

Spec == Init /\ [][Next]_vars /\ Fairness

-----------------------------------------------------------------------------
(* Properties.                                                             *)

\* No thread asks a host that is not allowed or makes more than MaxRedirects + 1
\* requests, and what is said of a chain is so: a DOI that passes was findable
\* and whole and was answered for by data.scielo.org, it is a warning when one
\* of the requests was not encrypted, and the limit was reached by as many
\* requests.
ChainIsSafe ==
    /\ \A i \in Items :
          /\ Len(trail[i]) <= MaxRedirects + 1
          /\ \A k \in DOMAIN trail[i] : Allowed(trail[i][k])
    /\ \A n \in noted :
          LET asked == trail[n.item]
              plain == \E k \in DOMAIN asked : asked[k].scheme = "http"
              about == attributes[records[n.item]] IN
          /\ n.status \in {"PASS", "WARNING"} =>
                /\ about.findable /\ about.whole
                /\ asked # <<>> /\ asked[Len(asked)].host = "data.scielo.org"
                /\ n.status = "WARNING" <=> plain
          /\ "DOI_REDIRECT_LIMIT" \in n.errors => Len(asked) = MaxRedirects + 1
          /\ "DOI_INSECURE_REDIRECT" \in n.warnings => plain

\* Every record that was read has its result, and without removals meanwhile
\* every DOI that was under the prefix is among them, up to the maximum.
NothingLost ==
    /\ AccountsAgree
    /\ saved # {} => {n.item : n \in saved} = DOMAIN records
    /\ pc # "idle" /\ ~reading /\ ~removed =>
          \/ atStart \subseteq Range(records)
          \/ maxDois > 0 /\ Len(records) = maxDois
    /\ maxDois > 0 => Len(records) <= maxDois

\* However landing pages redirect, without end included, and whichever threads
\* break, the audit ends, unless it is killed.  Of DataCite this takes for granted
\* that its register is finite and that it states how many pages it has
\* (doi_audit.py:113-116).
AuditEnds == pc = "gather" ~> pc \in {"done", "raised", "dead"}

===============================================================================
