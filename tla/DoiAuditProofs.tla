---------------------------- MODULE DoiAuditProofs ----------------------------
(***************************************************************************)
(* Proofs about DoiAudit, for any DOIs, pages, maximum, threads and limit  *)
(* of redirections.                                                        *)
(***************************************************************************)
EXTENDS DoiAudit, AuditRunProofs, SequenceTheorems

Plain(asked) == \E k \in DOMAIN asked : asked[k].scheme = "http"

\* No thread is at work before the records are read, and none afterwards when
\* the results are saved.
Phases ==
    /\ pc = "idle" => reading /\ page = 1 /\ ~removed
    /\ reading => noted = {} /\ queued = {} /\ broken = {}
                  /\ \A i \in Items : chain[i] = NoChain /\ trail[i] = <<>>
    /\ pc \in {"save", "finish", "done"} => ~reading /\ queued = {} /\ broken = {}
                  /\ \A i \in Items : chain[i] = NoChain
    /\ maxDois > 0 => Len(records) <= maxDois

\* A record is waiting, at a thread, broken, or has its result, and only one.
Tasks ==
    /\ \A i \in Items : chain[i] # NoChain \/ i \in queued =>
          /\ i \in DOMAIN records /\ i \notin broken
          /\ \A n \in noted : n.item # i
    /\ \A i \in queued : chain[i] = NoChain /\ trail[i] = <<>>
    /\ \A n \in noted : n.item \in DOMAIN records
    /\ ~reading => \A i \in DOMAIN records :
          i \in queued \/ i \in broken \/ chain[i] # NoChain \/ \E n \in noted : n.item = i
    /\ saved # {} => \A i \in DOMAIN records : \E n \in noted : n.item = i

\* The trail of a record is what its chain counts.
Trails ==
    \A i \in Items :
        /\ Len(trail[i]) <= MaxRedirects + 1
        /\ \A k \in DOMAIN trail[i] : Allowed(trail[i][k])
        /\ chain[i] # NoChain => /\ chain[i].requests = Len(trail[i])
                                 /\ chain[i].insecure <=> Plain(trail[i])

\* What a result rests on.
Grounded(n) ==
    LET asked == trail[n.item]
        about == attributes[records[n.item]] IN
    /\ n.status \in {"PASS", "WARNING"} =>
          /\ about.findable /\ about.whole
          /\ asked # <<>> /\ asked[Len(asked)].host = "data.scielo.org"
          /\ n.status = "WARNING" <=> Plain(asked)
    /\ "DOI_REDIRECT_LIMIT" \in n.errors => Len(asked) = MaxRedirects + 1
    /\ "DOI_INSECURE_REDIRECT" \in n.warnings => Plain(asked)

\* A DOI that was there has been read, or is on a page still to come.
Coming ==
    pc # "idle" /\ ~removed =>
        IF reading
        THEN \A d \in atStart :
                d \in Range(records)
                \/ \E k \in DOMAIN register : k > (page - 1) * Size /\ register[k] = d
        ELSE atStart \subseteq Range(records) \/ (maxDois > 0 /\ Len(records) = maxDois)

IndInv ==
    /\ TypeOK /\ RunInv /\ Phases /\ Tasks /\ Trails /\ Coming
    /\ \A n \in noted : Grounded(n)

-----------------------------------------------------------------------------
(* Sequences and pages.                                                    *)

LEMMA RecordItems == ASSUME TypeOK PROVE DOMAIN records \subseteq Items
  <1>1. DOMAIN records = 1..Len(records) /\ Len(records) \in Nat /\ Len(records) <= MaxRecords
    BY LenProperties DEF TypeOK
  <1>2. QED
    BY <1>1, DoiAssumption

LEMMA SizeType == ASSUME TypeOK PROVE Size \in Nat \ {0}
  BY DoiAssumption DEF TypeOK, Size

LEMMA PageBounds ==
    ASSUME NEW n \in Nat \ {0}, NEW m \in Nat \ {0}
    PROVE  /\ (n - 1) * m \in Nat /\ n * m \in Nat
           /\ n * m = (n - 1) * m + m
           /\ ((n + 1) - 1) * m = n * m
  <1>1. n - 1 \in Nat /\ (n + 1) - 1 = n
    OBVIOUS
  <1>2. \A a, b \in Nat : a * b \in Nat
    OBVIOUS
  <1>3. n * m = (n - 1) * m + m
    OBVIOUS
  <1>4. QED
    BY <1>1, <1>2, <1>3

LEMMA RangeMember ==
    ASSUME NEW S, NEW s \in Seq(S), NEW d
    PROVE  d \in Range(s) <=> \E k \in 1..Len(s) : s[k] = d
  BY DEF Range

\* A page holds what the register has between two multiples of its size.
LEMMA SliceIs ==
    ASSUME TypeOK
    PROVE  LET data == Slice(register, page)
               lo == (page - 1) * Size IN
           /\ data \in Seq(Dois)
           /\ \A k \in DOMAIN register : k > lo /\ k <= page * Size =>
                 k - lo \in 1..Len(data) /\ data[k - lo] = register[k]
           /\ data = <<>> => \A k \in DOMAIN register : ~(k > lo)
  <1> DEFINE lo == (page - 1) * Size
             top == page * Size
             total == Len(register)
             hi == IF top < total THEN top ELSE total
             data == Slice(register, page)
  <1>1. /\ register \in [1..total -> Dois] /\ total \in Nat
        /\ DOMAIN register = 1..total
    BY LenProperties DEF TypeOK
  <1>2. lo \in Nat /\ top \in Nat /\ lo < top
    BY SizeType, PageBounds DEF TypeOK
  <1>3. data = SubSeq(register, lo + 1, hi)
    BY DEF Slice
  <1> HIDE DEF lo, top, total, data
  <1>4. hi \in Nat /\ hi <= total /\ hi <= top /\ (hi = total \/ hi = top)
    BY <1>1, <1>2
  <1> HIDE DEF hi
  <1>5. \A i \in (lo + 1)..hi : i \in 1..total
    BY <1>1, <1>2, <1>4
  <1>6. \A i \in (lo + 1)..hi : register[i] \in Dois
    BY <1>1, <1>5
  <1>7. /\ data \in Seq(Dois)
        /\ Len(data) = IF lo + 1 <= hi THEN hi - (lo + 1) + 1 ELSE 0
        /\ \A i \in 1..(hi - (lo + 1) + 1) : data[i] = register[(lo + 1) + i - 1]
    <2>1. lo + 1 \in Int /\ hi \in Int
      BY <1>2, <1>4
    <2>2. QED
      BY <1>3, <1>6, <2>1, SubSeqProperties
  <1>8. ASSUME NEW k \in DOMAIN register, k > lo, k <= top
        PROVE  k - lo \in 1..Len(data) /\ data[k - lo] = register[k]
    <2>1. k \in Nat /\ k <= total
      BY <1>1, <1>8
    <2>2. k <= hi /\ lo + 1 <= hi
      BY <1>2, <1>4, <1>8, <2>1
    <2>3. /\ k - lo \in 1..(hi - (lo + 1) + 1) /\ (lo + 1) + (k - lo) - 1 = k
          /\ hi - (lo + 1) + 1 \in Nat
      BY <1>2, <1>4, <1>8, <2>1, <2>2
    <2>4. QED
      BY <1>7, <2>2, <2>3
  <1>9. ASSUME data = <<>>, NEW k \in DOMAIN register, k > lo
        PROVE  FALSE
    <2>1. Len(data) = 0
      BY <1>9
    <2>2. ~(lo + 1 <= hi)
      BY <1>2, <1>4, <1>7, <2>1
    <2>3. k \in Nat /\ k <= total
      BY <1>1, <1>9
    <2>4. QED
      BY <1>1, <1>2, <1>4, <1>9, <2>2, <2>3
  <1>10. QED
    BY <1>7, <1>8, <1>9 DEF lo, top, data

\* Appending a page keeps what was read, and the maximum cuts it short.
LEMMA PageAppended ==
    ASSUME TypeOK, NEW data \in Seq(Dois)
    PROVE  LET all == records \o data
               kept == UpToMaximum(all) IN
           /\ kept \in Seq(Dois) /\ Len(kept) <= Len(records) + Len(data)
           /\ maxDois > 0 => Len(kept) <= maxDois
           /\ kept = all \/ (maxDois > 0 /\ Len(kept) = maxDois)
           /\ Len(all) = Len(records) + Len(data)
           /\ Range(records) \subseteq Range(all) /\ Range(data) \subseteq Range(all)
  <1> DEFINE all == records \o data
             kept == UpToMaximum(all)
  <1>1. records \in Seq(Dois) /\ maxDois \in Nat
    BY DoiAssumption DEF TypeOK
  <1>2. /\ all \in Seq(Dois) /\ Len(all) = Len(records) + Len(data)
        /\ \A i \in 1..(Len(records) + Len(data)) :
              all[i] = IF i <= Len(records) THEN records[i] ELSE data[i - Len(records)]
    BY <1>1, ConcatProperties
  <1>3. Len(records) \in Nat /\ Len(data) \in Nat /\ Len(all) \in Nat
    BY <1>1, <1>2
  <1> HIDE DEF all
  <1>4. ASSUME maxDois > 0, Len(all) > maxDois
        PROVE  kept \in Seq(Dois) /\ Len(kept) = maxDois
    <2>1. kept = SubSeq(all, 1, maxDois)
      BY <1>4 DEF UpToMaximum
    <2>2. \A i \in 1..maxDois : i \in 1..Len(all)
      BY <1>1, <1>3, <1>4
    <2>3. \A i \in 1..maxDois : all[i] \in Dois
      BY <1>2, <2>2, ElementOfSeq
    <2>4. /\ SubSeq(all, 1, maxDois) \in Seq(Dois)
          /\ Len(SubSeq(all, 1, maxDois)) = IF 1 <= maxDois THEN maxDois - 1 + 1 ELSE 0
      BY <1>1, <2>3, SubSeqProperties
    <2>5. QED
      BY <1>1, <1>4, <2>1, <2>4
  <1>5. ~(maxDois > 0 /\ Len(all) > maxDois) => kept = all
    BY DEF UpToMaximum
  <1>6. Range(records) \subseteq Range(all)
    BY <1>1, <1>2, <1>3, RangeMember
  <1>7. Range(data) \subseteq Range(all)
    <2>1. ASSUME NEW d \in Range(data) PROVE d \in Range(all)
      <3>1. PICK k \in 1..Len(data) : data[k] = d
        BY <2>1, RangeMember
      <3>2. /\ Len(records) + k \in 1..Len(all) /\ ~(Len(records) + k <= Len(records))
            /\ (Len(records) + k) - Len(records) = k
        BY <1>2, <1>3
      <3>3. all[Len(records) + k] = d
        BY <1>2, <3>1, <3>2
      <3>4. QED
        BY <1>2, <3>2, <3>3, RangeMember
    <2>2. QED
      BY <2>1
  <1>8. /\ kept \in Seq(Dois) /\ (kept = all \/ (maxDois > 0 /\ Len(kept) = maxDois))
        /\ Len(kept) <= Len(all) /\ (maxDois > 0 => Len(kept) <= maxDois)
    <2> HIDE DEF kept
    <2>1. CASE maxDois > 0 /\ Len(all) > maxDois
      BY <1>1, <1>3, <1>4, <2>1
    <2>2. CASE ~(maxDois > 0 /\ Len(all) > maxDois)
      BY <1>1, <1>2, <1>3, <1>5, <2>2
    <2>3. QED
      BY <2>1, <2>2
  <1>9. QED
    BY <1>2, <1>3, <1>6, <1>7, <1>8 DEF all

-----------------------------------------------------------------------------
(* Chains and their results.                                               *)

LEMMA FirstChainType == FirstChain \in Chain /\ FirstChain.requests = 0 /\ FirstChain.insecure = FALSE
  BY LandingAssumption DEF FirstChain, Chain, Url

\* One more request is counted, and remembered when it was not encrypted.
LEMMA AskedIs ==
    ASSUME NEW c \in Chain, ~Spent(c)
    PROVE  /\ Asked(c) \in Chain
           /\ Asked(c).requests = c.requests + 1
           /\ Asked(c).insecure <=> (c.insecure \/ c.url.scheme = "http")
           /\ Asked(c).url = c.url
  <1>1. c.requests + 1 \in 0..(MaxRedirects + 1)
    BY LandingAssumption DEF Spent, Chain
  <1>2. QED
    BY <1>1 DEF Asked, Chain

LEMMA FollowedIs ==
    ASSUME NEW c \in Chain, ~Spent(c), NEW u \in Targets
    PROVE  /\ Followed(c, u) \in Chain
           /\ Followed(c, u).requests = c.requests + 1
           /\ Followed(c, u).insecure <=> (c.insecure \/ c.url.scheme = "http")
  <1>1. u \in Url
    BY DoiAssumption
  <1>2. QED
    BY <1>1, AskedIs DEF Followed, Chain

\* A trail that grows by a request that is allowed.
LEMMA TrailGrows ==
    ASSUME NEW asked \in Seq(Url), NEW u \in Url
    PROVE  LET more == Append(asked, u) IN
           /\ more \in Seq(Url) /\ Len(more) = Len(asked) + 1 /\ more # <<>>
           /\ more[Len(more)] = u
           /\ Plain(more) <=> (Plain(asked) \/ u.scheme = "http")
           /\ \A k \in DOMAIN more : (\E j \in DOMAIN asked : more[k] = asked[j]) \/ more[k] = u
  <1> DEFINE more == Append(asked, u)
  <1>1. /\ more \in Seq(Url) /\ Len(more) = Len(asked) + 1 /\ more # <<>>
        /\ \A k \in 1..Len(asked) : more[k] = asked[k]
        /\ more[Len(asked) + 1] = u
    BY AppendProperties
  <1>2. /\ DOMAIN asked = 1..Len(asked) /\ DOMAIN more = 1..(Len(asked) + 1)
        /\ Len(asked) \in Nat
    BY <1>1, LenProperties
  <1> HIDE DEF more
  <1>3. \A k \in DOMAIN more : k \in 1..Len(asked) \/ k = Len(asked) + 1
    BY <1>2
  <1>4. Len(asked) + 1 \in DOMAIN more /\ \A k \in DOMAIN asked : k \in DOMAIN more
    BY <1>2
  <1>5. Plain(more) <=> (Plain(asked) \/ u.scheme = "http")
    BY <1>1, <1>2, <1>3, <1>4 DEF Plain
  <1>6. QED
    BY <1>1, <1>2, <1>3, <1>5 DEF more

LEMMA AnswerIs ==
    ASSUME NEW x \in Items, NEW a \in Attributes, NEW c \in Chain, NEW answer \in Answers,
           ~Spent(c)
    PROVE  LET n == AnswerResult(x, a, c, answer) IN
           /\ n \in Result /\ n.item = x
           /\ n.status \in {"PASS", "WARNING"} =>
                 /\ a.findable /\ a.whole /\ c.url.host = "data.scielo.org"
                 /\ n.status = "WARNING" <=> Asked(c).insecure
           /\ "DOI_REDIRECT_LIMIT" \notin n.errors
           /\ "DOI_INSECURE_REDIRECT" \in n.warnings => Asked(c).insecure
  <1> DEFINE found == RecordErrors(a) \cup AnswerErrors(c, answer)
             flagged == {w \in {"DOI_INSECURE_REDIRECT"} : ReachedPage(c, answer) /\ Asked(c).insecure}
             n == AnswerResult(x, a, c, answer)
  <1>1. RecordErrors(a) \subseteq {"DOI_NOT_FINDABLE", "DOI_METADATA_MISSING"}
        /\ (RecordErrors(a) = {} => a.findable /\ a.whole)
    BY DEF RecordErrors
  <1>2. AnswerErrors(c, answer) \subseteq
            {"DOI_LANDING_HTTP_ERROR", "DOI_REDIRECT_INVALID", "DOI_LANDING_INVALID_RESPONSE",
             "DOI_REDIRECT_FORBIDDEN", "DOI_LANDING_FIELDS_MISSING"}
    BY DEF AnswerErrors
  <1>3. answer # "unavailable" /\ AnswerErrors(c, answer) = {} => ReachedPage(c, answer)
    BY DEF AnswerErrors, ReachedPage, Answers
  <1>4. flagged # {} <=> ReachedPage(c, answer) /\ Asked(c).insecure
    OBVIOUS
  <1>5. flagged \in SUBSET Codes /\ found \in SUBSET Codes /\ "DOI_REDIRECT_LIMIT" \notin found
    BY <1>1, <1>2, LandingAssumption
  <1>6. ReachedPage(c, answer) => c.url.host = "data.scielo.org"
    BY DEF ReachedPage
  <1>7. found = {} => RecordErrors(a) = {} /\ AnswerErrors(c, answer) = {}
    OBVIOUS
  <1>8. "DOI_INSECURE_REDIRECT" \in flagged => Asked(c).insecure
    OBVIOUS
  <1>9. n = IF answer = "unavailable" THEN Inconclusive(x) ELSE Judged(x, found, flagged)
    BY DEF AnswerResult
  <1> HIDE DEF found, flagged, n
  <1>10. CASE answer = "unavailable"
    <2>1. n = Inconclusive(x)
      BY <1>9, <1>10
    <2>2. QED
      BY <2>1, InconclusiveType DEF Inconclusive, n
  <1>11. CASE answer # "unavailable"
    <2>1. n = Judged(x, found, flagged)
      BY <1>9, <1>11
    <2>2. n \in Result
      BY <1>5, <2>1, JudgedType
    <2>3. /\ n.item = x /\ n.errors = found /\ n.warnings = flagged
          /\ n.status \in {"PASS", "WARNING"} => found = {}
          /\ found = {} => (n.status = "WARNING" <=> flagged # {})
      BY <2>1 DEF Judged
    <2>4. QED
      BY <1>1, <1>3, <1>4, <1>5, <1>6, <1>7, <1>8, <1>11, <2>2, <2>3 DEF n
  <1>12. QED
    BY <1>10, <1>11

LEMMA StoppedIs ==
    ASSUME NEW x \in Items, NEW a \in Attributes, NEW c \in Chain
    PROVE  LET n == StoppedResult(x, a, c) IN
           /\ n \in Result /\ n.item = x /\ n.status = "FAIL" /\ n.warnings = {}
           /\ "DOI_REDIRECT_LIMIT" \in n.errors => Spent(c)
  <1> DEFINE found == RecordErrors(a)
                 \cup (IF Spent(c) THEN {"DOI_REDIRECT_LIMIT"} ELSE {"DOI_REDIRECT_FORBIDDEN"})
             n == StoppedResult(x, a, c)
  <1>1. RecordErrors(a) \subseteq {"DOI_NOT_FINDABLE", "DOI_METADATA_MISSING"}
    BY DEF RecordErrors
  <1>2. /\ found \in SUBSET Codes /\ found # {} /\ {} \in SUBSET Codes
        /\ "DOI_REDIRECT_LIMIT" \in found => Spent(c)
    BY <1>1, LandingAssumption
  <1>3. n = Judged(x, found, {})
    BY DEF StoppedResult
  <1> HIDE DEF found, n
  <1>4. n \in Result
    BY <1>2, <1>3, JudgedType
  <1>5. n.item = x /\ n.errors = found /\ n.warnings = {} /\ n.status = "FAIL"
    BY <1>2, <1>3 DEF Judged
  <1>6. QED
    BY <1>2, <1>4, <1>5 DEF n

-----------------------------------------------------------------------------
(* The steps of the main thread.                                           *)

LEMMA InitIndInv == Init => IndInv
  <1> SUFFICES ASSUME Init PROVE IndInv
    OBVIOUS
  <1>1. RunTypeOK /\ RunInv /\ noted = {} /\ saved = {} /\ pc = "idle"
    BY InitRun DEF Init, RunInit
  <1>2. register \in Seq(Dois)
    <2>1. PICK n \in 0..Cardinality(Dois) : register \in Injection(1..n, Dois)
      BY DEF Init
    <2>2. register \in [1..n -> Dois] /\ n \in Nat
      BY <2>1 DEF Injection
    <2>3. QED
      BY <2>2, SeqDef
  <1>3. /\ <<>> \in Seq(Url) /\ <<>> \in Seq(Dois) /\ Len(<<>>) = 0
        /\ \A k \in DOMAIN <<>> : FALSE
    BY EmptySeq
  <1>4. TypeOK
    <2>1. records \in Seq(Dois) /\ Len(records) <= MaxRecords
      BY <1>3, DoiAssumption DEF Init
    <2>2. trail \in [Items -> Seq(Url)] /\ chain \in [Items -> Chain \cup {NoChain}]
      BY <1>3 DEF Init
    <2>3. /\ attributes \in [Dois -> Attributes] /\ maxDois \in Maxima
          /\ page = 1 /\ reading = TRUE /\ removed = FALSE
          /\ queued = {} /\ broken = {} /\ atStart = {}
      BY DEF Init
    <2>4. queued \subseteq DOMAIN records /\ broken \subseteq DOMAIN records /\ atStart \subseteq Dois
      BY <2>3
    <2>5. page \in Nat \ {0}
      BY <2>3
    <2>6. reading \in BOOLEAN /\ removed \in BOOLEAN
      BY <2>3
    <2>7. QED
      BY <1>1, <1>2, <2>1, <2>2, <2>3, <2>4, <2>5, <2>6 DEF TypeOK
  <1>5. Phases
    BY <1>1, <1>3, DoiAssumption DEF Phases, Init
  <1>6. Tasks
    BY <1>1, <1>3 DEF Tasks, Init
  <1>7. Trails
    BY <1>1, <1>3, LandingAssumption DEF Trails, Init
  <1>8. Coming
    BY <1>1 DEF Coming
  <1>9. QED
    BY <1>1, <1>4, <1>5, <1>6, <1>7, <1>8 DEF IndInv

\* The audit starts with the whole register still to come.
LEMMA StartKeeps == ASSUME IndInv, Start PROVE IndInv'
  <1> USE DEF IndInv, Start, external, pool
  <1>1. RunTypeOK' /\ RunInv' /\ noted' = noted
    BY ClosingSteps DEF TypeOK
  <1>2. pc = "idle" /\ pc' = "gather" /\ reading /\ page = 1 /\ ~removed
        /\ noted = {} /\ saved = {} /\ saved' = {}
    BY DEF StartRun, GoTo, Phases, RunInv
  <1>3. register \in Seq(Dois) /\ Range(register) \subseteq Dois
    <2>1. register \in [1..Len(register) -> Dois]
      BY LenProperties DEF TypeOK
    <2>2. QED
      BY <2>1 DEF TypeOK, Range
  <1>4. TypeOK'
    BY <1>1, <1>3 DEF TypeOK
  <1>5. Phases'
    BY <1>1, <1>2 DEF Phases
  <1>6. Tasks'
    BY <1>1, <1>2 DEF Tasks
  <1>7. Trails'
    BY DEF Trails, Plain
  <1>8. Coming'
    <2> DEFINE lo == (page' - 1) * Size'
    <2>1. lo = 0
      BY <1>2, <1>4, SizeType DEF TypeOK, Size
    <2> HIDE DEF lo
    <2>2. \A d \in atStart' : \E k \in DOMAIN register' : k > lo /\ register'[k] = d
      <3>1. ASSUME NEW d \in Range(register)
            PROVE  \E k \in DOMAIN register : k > lo /\ register[k] = d
        <4>1. DOMAIN register = 1..Len(register) /\ Len(register) \in Nat
          BY <1>3, LenProperties
        <4>2. PICK k \in 1..Len(register) : register[k] = d
          BY <1>3, <3>1, RangeMember
        <4>3. k > lo
          BY <2>1, <4>1, <4>2
        <4>4. QED
          BY <4>1, <4>2, <4>3
      <3>2. QED
        BY <3>1
    <2>3. QED
      BY <1>2, <2>2 DEF Coming, lo
  <1>9. QED
    BY <1>1, <1>2, <1>4, <1>5, <1>6, <1>7, <1>8

\* A page holds the DOIs that were on it, and leaves the others to come.
LEMMA FetchPageKeeps == ASSUME IndInv, FetchPage PROVE IndInv'
  <1> USE DEF IndInv
  <1> DEFINE data == Slice(register, page)
             all == records \o data
             lo == (page - 1) * Size
             top == page * Size
  <1>1. /\ pc = "gather" /\ reading /\ Len(records) + Len(data) <= MaxRecords
        /\ records' = UpToMaximum(all)
        /\ reading' = ~(\/ maxDois > 0 /\ Len(records') = maxDois
                        \/ top >= Len(register) \/ data = <<>>)
        /\ page' = page + 1
        /\ queued' = IF reading' THEN {} ELSE DOMAIN records'
        /\ UNCHANGED <<pc, run, noted, saved, register, attributes, maxDois, chain,
                       broken, trail, atStart, removed>>
    BY DEF FetchPage, LastPage, runVars, external, observed
  <1>2. /\ data \in Seq(Dois)
        /\ \A k \in DOMAIN register : k > lo /\ k <= top =>
              k - lo \in 1..Len(data) /\ data[k - lo] = register[k]
        /\ data = <<>> => \A k \in DOMAIN register : ~(k > lo)
    BY SliceIs
  <1>3. lo \in Nat /\ top \in Nat /\ ((page + 1) - 1) * Size = top
    BY SizeType, PageBounds DEF TypeOK
  <1> HIDE DEF data, lo, top
  <1>4. /\ records' \in Seq(Dois) /\ Len(records') <= Len(records) + Len(data)
        /\ maxDois > 0 => Len(records') <= maxDois
        /\ records' = all \/ (maxDois > 0 /\ Len(records') = maxDois)
        /\ Range(records) \subseteq Range(all) /\ Range(data) \subseteq Range(all)
    BY <1>1, <1>2, PageAppended
  <1> HIDE DEF all
  <1>5. /\ Len(records') \in Nat /\ Len(records') <= MaxRecords
        /\ DOMAIN records' = 1..Len(records') /\ DOMAIN records' \subseteq Items
    <2>1. Len(records) \in Nat /\ Len(data) \in Nat /\ Len(records') \in Nat
          /\ DOMAIN records' = 1..Len(records')
      BY <1>2, <1>4, LenProperties DEF TypeOK
    <2>2. QED
      BY <1>1, <1>4, <2>1, DoiAssumption
  <1>6. /\ noted = {} /\ queued = {} /\ broken = {} /\ saved = {}
        /\ \A i \in Items : chain[i] = NoChain /\ trail[i] = <<>>
    BY <1>1 DEF Phases, RunInv
  <1>7. TypeOK'
    <2>1. RunTypeOK' /\ reading' \in BOOLEAN /\ page' \in Nat \ {0}
      BY <1>1 DEF TypeOK, RunTypeOK
    <2>2. queued' \subseteq DOMAIN records' /\ broken' \subseteq DOMAIN records'
      BY <1>1, <1>6
    <2>3. QED
      BY <1>1, <1>4, <1>5, <2>1, <2>2 DEF TypeOK
  <1>8. RunInv'
    BY <1>1, IdleStep DEF runVars, TypeOK
  <1>9. Phases'
    BY <1>1, <1>4, <1>5, <1>6 DEF Phases
  <1>10. Tasks'
    BY <1>1, <1>5, <1>6 DEF Tasks
  <1>11. Trails'
    BY <1>1 DEF Trails, Plain
  <1>12. Coming'
    <2> DEFINE reached == maxDois > 0 /\ Len(records') = maxDois
    <2>1. ASSUME ~reached, ~removed, NEW d \in atStart
          PROVE  \/ d \in Range(records')
                 \/ \E k \in DOMAIN register : k > top /\ register[k] = d /\ data # <<>>
      <3>1. records' = all
        BY <1>4, <2>1
      <3>2. d \in Range(records) \/ \E k \in DOMAIN register : k > lo /\ register[k] = d
        BY <1>1, <2>1 DEF Coming, lo
      <3>3. CASE d \in Range(records)
        BY <1>4, <3>1, <3>3
      <3>4. CASE \E k \in DOMAIN register : k > lo /\ register[k] = d
        <4>1. PICK k \in DOMAIN register : k > lo /\ register[k] = d
          BY <3>4
        <4>2. k \in Nat
          BY LenProperties DEF TypeOK
        <4>3. CASE k <= top
          <5>1. k - lo \in 1..Len(data) /\ data[k - lo] = d
            BY <1>2, <4>1, <4>3
          <5>2. d \in Range(data)
            BY <1>2, <5>1, RangeMember
          <5>3. QED
            BY <1>4, <3>1, <5>2
        <4>4. CASE ~(k <= top)
          <5>1. k > top
            BY <1>3, <4>2, <4>4
          <5>2. QED
            BY <1>2, <4>1, <5>1
        <4>5. QED
          BY <4>3, <4>4
      <3>5. QED
        BY <3>2, <3>3, <3>4
    <2>2. ASSUME top >= Len(register) PROVE \A k \in DOMAIN register : ~(k > top)
      <3>1. DOMAIN register = 1..Len(register) /\ Len(register) \in Nat
        BY LenProperties DEF TypeOK
      <3>2. QED
        BY <1>3, <2>2, <3>1
    <2> HIDE DEF reached
    <2>3. CASE reading'
      <3>1. ~reached
        BY <1>1, <2>3 DEF reached
      <3>2. (page' - 1) * Size' = top
        BY <1>1, <1>3 DEF Size
      <3>3. ~removed => \A d \in atStart :
                d \in Range(records') \/ \E k \in DOMAIN register : k > top /\ register[k] = d
        BY <2>1, <3>1
      <3>4. QED
        BY <1>1, <2>3, <3>2, <3>3 DEF Coming
    <2>4. CASE ~reading'
      <3>1. CASE reached
        BY <1>1, <2>4, <3>1 DEF Coming, reached
      <3>2. CASE ~reached
        <4>1. top >= Len(register) \/ data = <<>>
          BY <1>1, <2>4, <3>2 DEF reached
        <4>2. ~removed => atStart \subseteq Range(records')
          BY <2>1, <2>2, <3>2, <4>1
        <4>3. QED
          BY <1>1, <2>4, <4>2 DEF Coming
      <3>3. QED
        BY <3>1, <3>2
    <2>5. QED
      BY <1>1, <2>3, <2>4
  <1>13. QED
    BY <1>1, <1>6, <1>7, <1>8, <1>9, <1>10, <1>11, <1>12

\* A step that neither reads nor takes part in the work of the threads.
LEMMA RestKeeps ==
    ASSUME IndInv, RunTypeOK', RunInv', noted' = noted,
           UNCHANGED <<external, page, reading, records, pool, observed>>,
           pc # "idle", pc' # "idle",
           pc' \in {"save", "finish", "done"} =>
               ~reading /\ queued = {} /\ broken = {} /\ \A i \in Items : chain[i] = NoChain,
           saved' # {} => saved # {} \/ pc' \in {"save", "finish", "done"}
    PROVE  IndInv'
  <1> USE DEF IndInv, external, pool, observed
  <1>1. TypeOK'
    BY DEF TypeOK
  <1>2. Phases'
    BY DEF Phases
  <1>3. Tasks'
    <2>1. saved' # {} => \A i \in DOMAIN records : \E n \in noted : n.item = i
      <3>1. CASE saved # {}
        BY <3>1 DEF Tasks
      <3>2. CASE pc' \in {"save", "finish", "done"}
        <4>1. \A i \in DOMAIN records : i \in Items
          BY RecordItems
        <4>2. QED
          BY <3>2, <4>1 DEF Tasks
      <3>3. QED
        BY <3>1, <3>2
    <2>2. QED
      BY <2>1 DEF Tasks
  <1>4. Trails'
    BY DEF Trails, Plain
  <1>5. Coming'
    BY DEF Coming, Size
  <1>6. \A n \in noted' : Grounded(n)'
    BY DEF Grounded, Plain
  <1>7. QED
    BY <1>1, <1>2, <1>3, <1>4, <1>5, <1>6

-----------------------------------------------------------------------------
(* The steps of the threads.                                               *)

\* What there is to know about a record a thread is at work on.
LEMMA AtWork ==
    ASSUME IndInv, NEW i \in Items, Goes(i)
    PROVE  /\ pc = "gather" /\ ~reading /\ saved = {} /\ i \in DOMAIN records
           /\ chain[i] \in Chain /\ chain[i] # NoChain /\ i \notin queued /\ i \notin broken
           /\ \A n \in noted : n.item # i
           /\ attributes[records[i]] \in Attributes
           /\ trail[i] \in Seq(Url) /\ chain[i].requests = Len(trail[i])
           /\ chain[i].insecure <=> Plain(trail[i])
           /\ chain[i].requests \in 0..(MaxRedirects + 1)
  <1> USE DEF IndInv
  <1>1. pc = "gather" /\ chain[i] # NoChain
    BY DEF Goes, Running
  <1>2. chain[i] \in Chain /\ trail[i] \in Seq(Url)
    BY <1>1 DEF TypeOK
  <1>3. ~reading /\ saved = {}
    BY <1>1 DEF Phases, RunInv
  <1>4. /\ i \in DOMAIN records /\ i \notin broken /\ i \notin queued
        /\ \A n \in noted : n.item # i
    BY <1>1 DEF Tasks
  <1>5. records[i] \in Dois
    BY <1>4, LenProperties, ElementOfSeq DEF TypeOK
  <1>6. attributes[records[i]] \in Attributes
    BY <1>5 DEF TypeOK
  <1>7. /\ chain[i].requests = Len(trail[i])
        /\ chain[i].insecure <=> Plain(trail[i])
    BY <1>1 DEF Trails
  <1>8. chain[i].requests \in 0..(MaxRedirects + 1)
    BY <1>2 DEF Chain
  <1>9. QED
    BY <1>1, <1>2, <1>3, <1>4, <1>6, <1>7, <1>8

\* A trail that grows stays within the limit, and still is what its chain counts.
LEMMA AskNextGrows ==
    ASSUME IndInv, NEW i \in Items, AskNext(i)
    PROVE  /\ trail' \in [Items -> Seq(Url)]
           /\ \A j \in Items \ {i} : trail'[j] = trail[j]
           /\ Len(trail'[i]) = chain[i].requests + 1
           /\ Len(trail'[i]) <= MaxRedirects + 1
           /\ \A k \in DOMAIN trail'[i] : Allowed(trail'[i][k])
           /\ trail'[i] # <<>> /\ trail'[i][Len(trail'[i])] = chain[i].url
           /\ Plain(trail'[i]) <=> (chain[i].insecure \/ chain[i].url.scheme = "http")
           /\ Goes(i) /\ ~Spent(chain[i])
           /\ UNCHANGED <<external, page, reading, records, atStart, removed>>
  <1>1. /\ Goes(i) /\ ~Spent(chain[i]) /\ Allowed(chain[i].url)
        /\ trail' = [trail EXCEPT ![i] = Append(trail[i], chain[i].url)]
        /\ UNCHANGED <<external, page, reading, records, atStart, removed>>
    BY DEF AskNext, MayAsk
  <1>2. /\ chain[i] \in Chain /\ trail[i] \in Seq(Url) /\ chain[i].requests = Len(trail[i])
        /\ chain[i].insecure <=> Plain(trail[i])
        /\ chain[i].requests \in 0..(MaxRedirects + 1)
    BY <1>1, AtWork
  <1>3. chain[i].url \in Url
    BY <1>2 DEF Chain
  <1> DEFINE more == Append(trail[i], chain[i].url)
  <1>4. /\ more \in Seq(Url) /\ Len(more) = Len(trail[i]) + 1 /\ more # <<>>
        /\ more[Len(more)] = chain[i].url
        /\ Plain(more) <=> (Plain(trail[i]) \/ chain[i].url.scheme = "http")
        /\ \A k \in DOMAIN more :
              (\E j \in DOMAIN trail[i] : more[k] = trail[i][j]) \/ more[k] = chain[i].url
    BY <1>2, <1>3, TrailGrows
  <1>5. /\ trail \in [Items -> Seq(Url)]
        /\ \A k \in DOMAIN trail[i] : Allowed(trail[i][k])
    BY DEF IndInv, TypeOK, Trails
  <1>6. trail' = [trail EXCEPT ![i] = more]
    BY <1>1
  <1> HIDE DEF more
  <1>7. /\ trail' \in [Items -> Seq(Url)] /\ trail'[i] = more
        /\ \A j \in Items \ {i} : trail'[j] = trail[j]
    BY <1>4, <1>5, <1>6
  <1>8. \A k \in DOMAIN more : Allowed(more[k])
    BY <1>1, <1>4, <1>5
  <1>9. Len(more) <= MaxRedirects + 1
    BY <1>1, <1>2, <1>4, LandingAssumption DEF Spent
  <1>10. QED
    BY <1>1, <1>2, <1>4, <1>7, <1>8, <1>9

\* What is said of another record rests on what it rested on.
LEMMA OthersGrounded ==
    ASSUME IndInv, NEW i \in Items, \A n \in noted : n.item # i,
           \A j \in Items \ {i} : trail'[j] = trail[j],
           UNCHANGED <<records, attributes>>
    PROVE  \A n \in noted : Grounded(n)'
  <1>1. SUFFICES ASSUME NEW n \in noted PROVE Grounded(n)'
    OBVIOUS
  <1>2. n.item \in Items \ {i}
    BY <1>1 DEF IndInv, TypeOK, RunTypeOK, Result
  <1>3. trail'[n.item] = trail[n.item]
    BY <1>2
  <1>4. Grounded(n)
    BY <1>1 DEF IndInv
  <1>5. QED
    BY <1>3, <1>4 DEF Grounded

\* A thread that ends with a result, after a request or before it.
LEMMA CompleteKeeps ==
    ASSUME IndInv, NEW i \in Items, Goes(i), NEW result \in Result, result.item = i,
           Complete(i, result),
           UNCHANGED <<external, page, reading, records, atStart, removed>>,
           trail' \in [Items -> Seq(Url)], \A j \in Items \ {i} : trail'[j] = trail[j],
           Len(trail'[i]) <= MaxRedirects + 1,
           \A k \in DOMAIN trail'[i] : Allowed(trail'[i][k]),
           Grounded(result)'
    PROVE  IndInv'
  <1>1. /\ pc = "gather" /\ ~reading /\ saved = {} /\ i \in DOMAIN records
        /\ i \notin queued /\ i \notin broken /\ \A n \in noted : n.item # i
    BY AtWork
  <1>2. /\ noted' = noted \cup {result} /\ chain' = [chain EXCEPT ![i] = NoChain]
        /\ UNCHANGED <<pc, run, saved, queued, broken>>
    BY DEF Complete
  <1> USE DEF IndInv, external
  <1>3. RunTypeOK' /\ RunInv'
    <2>1. OneEach(noted \cup {result})
      BY <1>1, OneMore DEF RunInv
    <2>2. noted' \subseteq Result /\ OneEach(noted')
      BY <1>2, <2>1 DEF TypeOK, RunTypeOK
    <2>3. QED
      BY <1>1, <1>2, <2>2, GatheringStep DEF TypeOK
  <1>4. /\ chain' \in [Items -> Chain \cup {NoChain}] /\ chain'[i] = NoChain
        /\ \A j \in Items \ {i} : chain'[j] = chain[j]
    BY <1>2 DEF TypeOK
  <1>5. TypeOK'
    BY <1>2, <1>3, <1>4 DEF TypeOK
  <1>6. Phases'
    BY <1>1, <1>2 DEF Phases
  <1>7. Tasks'
    <2>1. \A j \in Items : chain'[j] # NoChain \/ j \in queued =>
              /\ j \in DOMAIN records /\ j \notin broken /\ \A n \in noted' : n.item # j
      BY <1>1, <1>2, <1>4 DEF Tasks
    <2>2. \A j \in queued : chain'[j] = NoChain /\ trail'[j] = <<>>
      <3>1. \A j \in queued : j \in Items \ {i}
        BY <1>1, RecordItems DEF TypeOK
      <3>2. QED
        BY <1>4, <3>1 DEF Tasks
    <2>3. \A n \in noted' : n.item \in DOMAIN records
      BY <1>1, <1>2 DEF Tasks
    <2>4. ASSUME NEW j \in DOMAIN records
          PROVE  \/ j \in queued \/ j \in broken \/ chain'[j] # NoChain
                 \/ \E n \in noted' : n.item = j
      <3>1. j \in Items
        BY <2>4, RecordItems
      <3>2. CASE j = i
        BY <1>2, <3>2
      <3>3. CASE j # i
        BY <1>1, <1>2, <1>4, <2>4, <3>1, <3>3 DEF Tasks
      <3>4. QED
        BY <3>2, <3>3
    <2>5. /\ queued' = queued /\ broken' = broken /\ records' = records
          /\ saved' = {} /\ reading' = reading
      BY <1>1, <1>2
    <2> HIDE DEF IndInv, external
    <2>6. QED
      BY <2>1, <2>2, <2>3, <2>4, <2>5 DEF Tasks
  <1>8. Trails'
    <2>1. ASSUME NEW j \in Items
          PROVE  /\ Len(trail'[j]) <= MaxRedirects + 1
                 /\ \A k \in DOMAIN trail'[j] : Allowed(trail'[j][k])
                 /\ chain'[j] # NoChain => /\ chain'[j].requests = Len(trail'[j])
                                           /\ chain'[j].insecure <=> Plain(trail'[j])
      <3>1. CASE j = i
        BY <1>4, <3>1
      <3>2. CASE j # i
        <4>1. trail'[j] = trail[j] /\ chain'[j] = chain[j]
          BY <1>4, <3>2
        <4>2. QED
          BY <4>1 DEF Trails
      <3>3. QED
        BY <3>1, <3>2
    <2>2. QED
      BY <2>1 DEF Trails, Plain
  <1>9. Coming'
    BY <1>1, <1>2 DEF Coming
  <1>10. \A n \in noted : Grounded(n)'
    BY <1>1, OthersGrounded
  <1>11. \A n \in noted' : Grounded(n)'
    BY <1>2, <1>10
  <1>12. QED
    BY <1>3, <1>5, <1>6, <1>7, <1>8, <1>9, <1>11

\* A thread that goes on without a result: to another host, or because it raised.
LEMMA OnwardKeeps ==
    ASSUME IndInv, NEW i \in Items, AskNext(i), UNCHANGED <<runVars, queued>>,
           NEW c \in Chain \cup {NoChain}, chain' = [chain EXCEPT ![i] = c],
           c # NoChain => /\ c.requests = chain[i].requests + 1 /\ broken' = broken
                          /\ c.insecure <=> (chain[i].insecure \/ chain[i].url.scheme = "http"),
           c = NoChain => broken' = broken \cup {i}
    PROVE  IndInv'
  <1>1. /\ pc = "gather" /\ ~reading /\ saved = {} /\ i \in DOMAIN records
        /\ i \notin queued /\ i \notin broken /\ \A n \in noted : n.item # i
    BY AtWork DEF AskNext
  <1>2. /\ trail' \in [Items -> Seq(Url)]
        /\ \A j \in Items \ {i} : trail'[j] = trail[j]
        /\ Len(trail'[i]) = chain[i].requests + 1
        /\ Len(trail'[i]) <= MaxRedirects + 1
        /\ \A k \in DOMAIN trail'[i] : Allowed(trail'[i][k])
        /\ Plain(trail'[i]) <=> (chain[i].insecure \/ chain[i].url.scheme = "http")
        /\ UNCHANGED <<external, page, reading, records, atStart, removed>>
    BY AskNextGrows
  <1> USE DEF IndInv, external
  <1>3. RunTypeOK' /\ RunInv'
    BY IdleStep DEF TypeOK
  <1>4. /\ chain' \in [Items -> Chain \cup {NoChain}] /\ chain'[i] = c
        /\ \A j \in Items \ {i} : chain'[j] = chain[j]
    BY DEF TypeOK
  <1>5. broken' = broken \cup {i} \/ broken' = broken
    OBVIOUS
  <1>6. TypeOK'
    BY <1>1, <1>2, <1>3, <1>4, <1>5 DEF TypeOK
  <1>7. Phases'
    BY <1>1, <1>2 DEF Phases, runVars
  <1>8. Tasks'
    <2>1. noted' = noted /\ saved' = saved /\ queued' = queued
      BY DEF runVars
    <2>2. \A j \in Items : chain'[j] # NoChain \/ j \in queued =>
              /\ j \in DOMAIN records /\ j \notin broken' /\ \A n \in noted : n.item # j
      <3>1. ASSUME NEW j \in Items, chain'[j] # NoChain \/ j \in queued
            PROVE  j \in DOMAIN records /\ j \notin broken' /\ \A n \in noted : n.item # j
        <4>1. CASE j = i
          BY <1>1, <1>4, <3>1, <4>1
        <4>2. CASE j # i
          BY <1>4, <1>5, <3>1, <4>2 DEF Tasks
        <4>3. QED
          BY <4>1, <4>2
      <3>2. QED
        BY <3>1
    <2>3. \A j \in queued : chain'[j] = NoChain /\ trail'[j] = <<>>
      <3>1. \A j \in queued : j \in Items \ {i}
        BY <1>1, RecordItems DEF TypeOK
      <3>2. QED
        BY <1>2, <1>4, <3>1 DEF Tasks
    <2>4. ASSUME NEW j \in DOMAIN records
          PROVE  \/ j \in queued \/ j \in broken' \/ chain'[j] # NoChain
                 \/ \E n \in noted : n.item = j
      <3>1. j \in Items
        BY <2>4, RecordItems
      <3>2. CASE j = i
        BY <1>4, <3>2
      <3>3. CASE j # i
        BY <1>1, <1>4, <1>5, <2>4, <3>1, <3>3 DEF Tasks
      <3>4. QED
        BY <3>2, <3>3
    <2>5. QED
      BY <1>1, <1>2, <2>1, <2>2, <2>3, <2>4 DEF Tasks
  <1>9. Trails'
    <2>1. ASSUME NEW j \in Items
          PROVE  /\ Len(trail'[j]) <= MaxRedirects + 1
                 /\ \A k \in DOMAIN trail'[j] : Allowed(trail'[j][k])
                 /\ chain'[j] # NoChain => /\ chain'[j].requests = Len(trail'[j])
                                           /\ chain'[j].insecure <=> Plain(trail'[j])
      <3>1. CASE j = i
        BY <1>2, <1>4, <3>1
      <3>2. CASE j # i
        <4>1. trail'[j] = trail[j] /\ chain'[j] = chain[j]
          BY <1>2, <1>4, <3>2
        <4>2. QED
          BY <4>1 DEF Trails
      <3>3. QED
        BY <3>1, <3>2
    <2>2. QED
      BY <2>1 DEF Trails, Plain
  <1>10. Coming'
    BY <1>1, <1>2 DEF Coming, runVars
  <1>11. \A n \in noted' : Grounded(n)'
    BY <1>1, <1>2, OthersGrounded DEF runVars
  <1>12. QED
    BY <1>3, <1>6, <1>7, <1>8, <1>9, <1>10, <1>11

\* A thread takes a record that has no trail yet.
LEMMA TakeTaskKeeps == ASSUME IndInv, NEW i \in Items, TakeTask(i) PROVE IndInv'
  <1>1. /\ i \in queued /\ queued' = queued \ {i}
        /\ chain' = [chain EXCEPT ![i] = FirstChain]
        /\ UNCHANGED <<runVars, external, page, reading, records, broken, observed>>
    BY DEF TakeTask
  <1> USE DEF IndInv, external, observed
  <1>2. chain[i] = NoChain /\ trail[i] = <<>> /\ ~reading /\ pc = "gather"
    BY <1>1 DEF Tasks, Phases, TakeTask
  <1>3. FirstChain \in Chain /\ FirstChain # NoChain
    BY FirstChainType, DoiAssumption
  <1>4. /\ chain' \in [Items -> Chain \cup {NoChain}] /\ chain'[i] = FirstChain
        /\ \A j \in Items \ {i} : chain'[j] = chain[j]
    BY <1>1, <1>3 DEF TypeOK
  <1>5. RunTypeOK' /\ RunInv'
    BY <1>1, IdleStep DEF TypeOK
  <1>6. TypeOK'
    BY <1>1, <1>4, <1>5 DEF TypeOK
  <1>7. Phases'
    BY <1>1, <1>2 DEF Phases, runVars
  <1>8. Tasks'
    <2>1. \A j \in Items : chain'[j] # NoChain \/ j \in queued' => chain[j] # NoChain \/ j \in queued
      BY <1>1, <1>4
    <2>2. \A j \in queued' : j \in Items \ {i} /\ j \in queued
      BY <1>1, RecordItems DEF TypeOK
    <2>3. \A j \in DOMAIN records :
              j \in queued \/ chain[j] # NoChain => j \in queued' \/ chain'[j] # NoChain
      <3>1. \A j \in DOMAIN records : j \in Items
        BY RecordItems
      <3>2. QED
        BY <1>1, <1>3, <1>4, <3>1
    <2>4. QED
      BY <1>1, <1>4, <2>1, <2>2, <2>3 DEF Tasks, runVars
  <1>9. Trails'
    <2>1. FirstChain.requests = Len(trail[i]) /\ (FirstChain.insecure <=> Plain(trail[i]))
      BY <1>2, FirstChainType, EmptySeq DEF Plain
    <2>2. QED
      BY <1>1, <1>4, <2>1 DEF Trails, Plain
  <1>10. Coming'
    BY <1>1, <1>2 DEF Coming, runVars
  <1>11. \A n \in noted' : Grounded(n)'
    BY <1>1 DEF Grounded, runVars, Plain
  <1>12. QED
    BY <1>5, <1>6, <1>7, <1>8, <1>9, <1>10, <1>11

LEMMA StopAtKeeps == ASSUME IndInv, NEW i \in Items, StopAt(i) PROVE IndInv'
  <1> DEFINE about == attributes[records[i]]
  <1> PICK result : result = StoppedResult(i, about, chain[i])
    OBVIOUS
  <1>1. /\ Goes(i) /\ ~MayAsk(chain[i]) /\ Complete(i, result)
        /\ UNCHANGED <<external, page, reading, records, observed>>
    BY DEF StopAt
  <1>2. /\ about \in Attributes /\ chain[i] \in Chain /\ chain[i].requests = Len(trail[i])
        /\ ~reading
    BY <1>1, AtWork
  <1>3. /\ result \in Result /\ result.item = i /\ result.status = "FAIL"
        /\ result.warnings = {} /\ ("DOI_REDIRECT_LIMIT" \in result.errors => Spent(chain[i]))
    BY <1>2, StoppedIs
  <1>4. trail' = trail
    BY <1>1 DEF observed
  <1>5. /\ trail \in [Items -> Seq(Url)] /\ Len(trail[i]) <= MaxRedirects + 1
        /\ \A k \in DOMAIN trail[i] : Allowed(trail[i][k])
    BY DEF IndInv, TypeOK, Trails
  <1>6. Grounded(result)'
    BY <1>2, <1>3, <1>4 DEF Grounded, Spent
  <1>7. QED
    BY <1>1, <1>3, <1>4, <1>5, <1>6, CompleteKeeps DEF observed

LEMMA AnsweredKeeps ==
    ASSUME IndInv, NEW i \in Items, NEW answer \in Answers, Answered(i, answer)
    PROVE  IndInv'
  <1> DEFINE about == attributes[records[i]]
  <1> PICK result : result = AnswerResult(i, about, chain[i], answer)
    OBVIOUS
  <1>1. AskNext(i) /\ Complete(i, result)
    BY DEF Answered
  <1>2. /\ trail' \in [Items -> Seq(Url)]
        /\ \A j \in Items \ {i} : trail'[j] = trail[j]
        /\ Len(trail'[i]) <= MaxRedirects + 1
        /\ \A k \in DOMAIN trail'[i] : Allowed(trail'[i][k])
        /\ trail'[i] # <<>> /\ trail'[i][Len(trail'[i])] = chain[i].url
        /\ Plain(trail'[i]) <=> (chain[i].insecure \/ chain[i].url.scheme = "http")
        /\ Goes(i) /\ ~Spent(chain[i])
        /\ UNCHANGED <<external, page, reading, records, atStart, removed>>
    BY <1>1, AskNextGrows
  <1>3. about \in Attributes /\ chain[i] \in Chain
    BY <1>2, AtWork
  <1>4. Asked(chain[i]).insecure <=> Plain(trail'[i])
    BY <1>2, <1>3, AskedIs
  <1>5. /\ result \in Result /\ result.item = i
        /\ result.status \in {"PASS", "WARNING"} =>
              /\ about.findable /\ about.whole /\ chain[i].url.host = "data.scielo.org"
              /\ result.status = "WARNING" <=> Asked(chain[i]).insecure
        /\ "DOI_REDIRECT_LIMIT" \notin result.errors
        /\ "DOI_INSECURE_REDIRECT" \in result.warnings => Asked(chain[i]).insecure
    BY <1>2, <1>3, AnswerIs
  <1>6. attributes'[records'[i]] = about
    BY <1>2 DEF external
  <1> HIDE DEF about
  <1>7. Grounded(result)'
    BY <1>2, <1>4, <1>5, <1>6 DEF Grounded
  <1>8. QED
    BY <1>1, <1>2, <1>5, <1>7, CompleteKeeps

LEMMA RedirectedKeeps ==
    ASSUME IndInv, NEW i \in Items, NEW u \in Targets, Redirected(i, u)
    PROVE  IndInv'
  <1>1. /\ AskNext(i) /\ chain' = [chain EXCEPT ![i] = Followed(chain[i], u)]
        /\ UNCHANGED <<runVars, queued, broken>>
    BY DEF Redirected
  <1>2. ~Spent(chain[i]) /\ chain[i] \in Chain
    BY <1>1, AskNextGrows, AtWork
  <1>3. /\ Followed(chain[i], u) \in Chain
        /\ Followed(chain[i], u).requests = chain[i].requests + 1
        /\ Followed(chain[i], u).insecure <=> (chain[i].insecure \/ chain[i].url.scheme = "http")
    BY <1>2, FollowedIs
  <1>4. Followed(chain[i], u) # NoChain
    BY <1>3, DoiAssumption
  <1>5. QED
    BY <1>1, <1>3, <1>4, OnwardKeeps

LEMMA BrokenKeeps == ASSUME IndInv, NEW i \in Items, Broken(i) PROVE IndInv'
  <1>1. /\ AskNext(i) /\ chain' = [chain EXCEPT ![i] = NoChain]
        /\ broken' = broken \cup {i} /\ UNCHANGED <<runVars, queued>>
    BY DEF Broken
  <1>2. QED
    BY <1>1, OnwardKeeps

-----------------------------------------------------------------------------
(* The register, and the steps together.                                   *)

\* A DOI that is registered shifts others, to pages still to come.
LEMMA RegisterKeeps == ASSUME IndInv, RegisterChanges PROVE IndInv'
  <1>1. /\ pc = "gather" /\ reading
        /\ UNCHANGED <<runVars, attributes, maxDois, page, reading, records, pool, trail, atStart>>
    BY DEF RegisterChanges
  <1> USE DEF IndInv, pool
  <1>2. /\ register \in Seq(Dois) /\ DOMAIN register = 1..Len(register) /\ Len(register) \in Nat
    BY LenProperties DEF TypeOK
  <1> DEFINE total == Len(register)
             before(n) == SubSeq(register, 1, n - 1)
             after(n) == SubSeq(register, n, total)
             lo == (page - 1) * Size
  <1>3. lo \in Nat
    BY SizeType, PageBounds DEF TypeOK
  <1>4. ASSUME NEW n \in 1..(total + 1)
        PROVE  /\ before(n) \in Seq(Dois) /\ Len(before(n)) = n - 1
               /\ \A k \in 1..(n - 1) : before(n)[k] = register[k]
               /\ after(n) \in Seq(Dois) /\ Len(after(n)) = total - n + 1
               /\ \A k \in 1..(total - n + 1) : after(n)[k] = register[n + k - 1]
    <2>1. \A k \in 1..total : register[k] \in Dois
      BY <1>2, ElementOfSeq
    <2>2. /\ \A k \in 1..(n - 1) : register[k] \in Dois
          /\ \A k \in n..total : register[k] \in Dois
      BY <1>2, <1>4, <2>1
    <2>3. 1 \in Int /\ n \in Int /\ n - 1 \in Int /\ total \in Int
      BY <1>2
    <2>4. /\ before(n) \in Seq(Dois)
          /\ Len(before(n)) = IF 1 <= n - 1 THEN n - 1 - 1 + 1 ELSE 0
          /\ \A k \in 1..(n - 1 - 1 + 1) : before(n)[k] = register[1 + k - 1]
      BY <2>2, <2>3, SubSeqProperties
    <2>5. /\ after(n) \in Seq(Dois)
          /\ Len(after(n)) = IF n <= total THEN total - n + 1 ELSE 0
          /\ \A k \in 1..(total - n + 1) : after(n)[k] = register[n + k - 1]
      BY <2>2, <2>3, SubSeqProperties
    <2> HIDE DEF before, after, total
    <2>6. QED
      BY <1>4, <2>3, <2>4, <2>5
  <1>5. CASE \E n \in 1..(total + 1), d \in Dois \ Range(register) :
                /\ register' = before(n) \o <<d>> \o after(n)
                /\ UNCHANGED removed
    <2>1. PICK n \in 1..(total + 1), d \in Dois :
                 register' = before(n) \o <<d>> \o after(n) /\ removed' = removed
      BY <1>5
    <2> DEFINE first == before(n) \o <<d>>
    <2>0. /\ before(n) \in Seq(Dois) /\ Len(before(n)) = n - 1
          /\ \A k \in 1..(n - 1) : before(n)[k] = register[k]
          /\ after(n) \in Seq(Dois) /\ Len(after(n)) = total - n + 1
          /\ \A k \in 1..(total - n + 1) : after(n)[k] = register[n + k - 1]
      BY <1>4
    <2>2. /\ first \in Seq(Dois) /\ Len(first) = n
          /\ \A k \in 1..(n - 1) : first[k] = register[k]
      <3>1. <<d>> \in Seq(Dois) /\ Len(<<d>>) = 1
        OBVIOUS
      <3> HIDE DEF before
      <3>2. /\ first \in Seq(Dois) /\ Len(first) = Len(before(n)) + 1
            /\ \A k \in 1..(Len(before(n)) + 1) :
                  first[k] = IF k <= Len(before(n)) THEN before(n)[k] ELSE <<d>>[k - Len(before(n))]
        BY <2>0, <3>1, ConcatProperties
      <3> HIDE DEF first
      <3>3. n \in Nat /\ Len(first) = n
        BY <1>2, <2>0, <3>2
      <3>4. \A k \in 1..(n - 1) : k \in 1..(Len(before(n)) + 1) /\ k <= Len(before(n))
        BY <2>0, <3>3
      <3>5. \A k \in 1..(n - 1) : first[k] = register[k]
        BY <2>0, <3>2, <3>4
      <3>6. QED
        BY <3>2, <3>3, <3>5
    <2>3. /\ register' \in Seq(Dois) /\ Len(register') = total + 1
          /\ \A k \in 1..(n - 1) : register'[k] = register[k]
          /\ \A k \in n..total : register'[k + 1] = register[k]
      <3> HIDE DEF before, after, first
      <3>1. register' = first \o after(n)
        BY <2>1 DEF first
      <3>2. /\ register' \in Seq(Dois) /\ Len(register') = Len(first) + Len(after(n))
            /\ \A k \in 1..(Len(first) + Len(after(n))) :
                  register'[k] = IF k <= Len(first) THEN first[k] ELSE after(n)[k - Len(first)]
        <4> DEFINE rest == after(n)
        <4>1. first \in Seq(Dois) /\ rest \in Seq(Dois)
          BY <2>0, <2>2
        <4> HIDE DEF rest
        <4>2. /\ first \o rest \in Seq(Dois) /\ Len(first \o rest) = Len(first) + Len(rest)
              /\ \A k \in 1..(Len(first) + Len(rest)) :
                    (first \o rest)[k] = IF k <= Len(first) THEN first[k] ELSE rest[k - Len(first)]
          BY <4>1, ConcatProperties
        <4>3. QED
          BY <3>1, <4>2 DEF rest
      <3>3. Len(first) + Len(after(n)) = total + 1 /\ total \in Nat
        BY <1>2, <2>0, <2>2
      <3> HIDE DEF total
      <3>4. \A k \in 1..(n - 1) : register'[k] = register[k]
        BY <2>2, <3>2, <3>3
      <3>5. ASSUME NEW k \in n..total PROVE register'[k + 1] = register[k]
        <4>1. /\ k + 1 \in 1..(total + 1) /\ ~(k + 1 <= n) /\ (k + 1) - n \in 1..(total - n + 1)
              /\ n + ((k + 1) - n) - 1 = k
          BY <3>3, <3>5
        <4>2. register'[k + 1] = after(n)[(k + 1) - n]
          BY <2>2, <3>2, <3>3, <4>1
        <4>3. QED
          BY <2>0, <4>1, <4>2
      <3>6. QED
        BY <3>2, <3>3, <3>4, <3>5
    <2>4. DOMAIN register' = 1..(total + 1)
      BY <2>3, LenProperties
    <2>5. TypeOK'
      BY <1>1, <2>1, <2>3 DEF TypeOK, RunTypeOK, runVars
    <2>6. Coming'
      <3> HIDE DEF total, lo
      <3>1. ASSUME NEW k \in DOMAIN register, k > lo
            PROVE  \E j \in DOMAIN register' : j > lo /\ register'[j] = register[k]
        <4>1. total \in Nat /\ k \in 1..total /\ n \in Nat
          BY <1>2, <3>1 DEF total
        <4>2. CASE k < n
          <5>1. k \in 1..(n - 1) /\ k \in 1..(total + 1)
            BY <4>1, <4>2
          <5>2. QED
            BY <2>3, <2>4, <3>1, <5>1
        <4>3. CASE ~(k < n)
          <5>1. k \in n..total /\ k + 1 \in 1..(total + 1) /\ k + 1 > lo
            BY <1>3, <3>1, <4>1, <4>3
          <5>2. QED
            BY <2>3, <2>4, <5>1
        <4>4. QED
          BY <4>2, <4>3
      <3>2. (page' - 1) * Size' = lo
        BY <1>1 DEF Size, lo
      <3>3. ~removed => \A d_1 \in atStart : \/ d_1 \in Range(records)
                \/ \E k \in DOMAIN register : k > lo /\ register[k] = d_1
        BY <1>1 DEF Coming, lo
      <3>4. ~removed => \A d_1 \in atStart : \/ d_1 \in Range(records)
                \/ \E j \in DOMAIN register' : j > lo /\ register'[j] = d_1
        BY <3>1, <3>3
      <3>5. QED
        BY <1>1, <2>1, <3>2, <3>4 DEF Coming, runVars
    <2>7. QED
      BY <1>1, <2>1, <2>5, <2>6, IdleStep DEF TypeOK, Phases, Tasks, Trails, Plain, Grounded, runVars
  <1>6. CASE \E n \in DOMAIN register :
                register' = before(n) \o SubSeq(register, n + 1, total) /\ removed' = TRUE
    <2>1. PICK n \in 1..total : register' = before(n) \o after(n + 1) /\ removed' = TRUE
      BY <1>2, <1>6
    <2>2. n \in 1..(total + 1) /\ n + 1 \in 1..(total + 1)
      BY <1>2, <2>1
    <2>3. register' \in Seq(Dois)
      BY <1>4, <2>1, <2>2, ConcatProperties
    <2>4. TypeOK'
      BY <1>1, <2>1, <2>3 DEF TypeOK, RunTypeOK, runVars
    <2>5. Coming'
      BY <2>1 DEF Coming
    <2>6. QED
      BY <1>1, <2>1, <2>4, <2>5, IdleStep DEF TypeOK, Phases, Tasks, Trails, Plain, Grounded, runVars
  <1>7. QED
    BY <1>2, <1>5, <1>6 DEF RegisterChanges

LEMMA IdleKeeps == ASSUME IndInv, UNCHANGED vars PROVE IndInv'
  <1>1. UNCHANGED <<runVars, external, page, reading, records, pool, observed>>
    BY DEF vars
  <1>2. RunTypeOK' /\ RunInv'
    BY <1>1, IdleStep DEF IndInv, TypeOK
  <1> USE DEF external, pool, observed, runVars
  <1>3. TypeOK'
    BY <1>1, <1>2 DEF IndInv, TypeOK
  <1>4. Phases' /\ Tasks' /\ Trails'
    BY <1>1 DEF IndInv, Phases, Tasks, Trails, Plain
  <1>5. Coming'
    BY <1>1 DEF IndInv, Coming, Size
  <1>6. \A n \in noted' : Grounded(n)'
    BY <1>1 DEF IndInv, Grounded, Plain
  <1>7. QED
    BY <1>2, <1>3, <1>4, <1>5, <1>6 DEF IndInv

\* The end of the audit, and its failures.
LEMMA EndKeeps ==
    ASSUME IndInv, FetchFails \/ PoolEnds \/ Close \/ Kill
    PROVE  IndInv'
  <1>1. CASE FetchFails \/ PoolEnds
    <2>1. /\ pc = "gather" /\ pc' \in {"save", "fail"}
          /\ UNCHANGED <<run, noted, saved, external, page, reading, records, pool, observed>>
      BY <1>1 DEF FetchFails, PoolEnds, GoTo
    <2>2. pc' = "save" =>
              ~reading /\ queued = {} /\ broken = {} /\ \A i \in Items : chain[i] = NoChain
      BY <1>1 DEF FetchFails, PoolEnds, GoTo, Running
    <2>3. RunTypeOK' /\ RunInv'
      BY <2>1, GatheringStep DEF IndInv, TypeOK, RunTypeOK, RunInv
    <2>4. QED
      BY <2>1, <2>2, <2>3, RestKeeps
  <1>2. CASE Close \/ Kill
    <2>1. /\ SaveResults \/ FinishRun(Whole) \/ DatabaseRaises \/ FailRun \/ Crash
          /\ UNCHANGED <<external, page, reading, records, pool, observed>>
      BY <1>2 DEF Close, Kill
    <2>2. Whole \in BOOLEAN /\ (Whole => ~Has(noted, "UNKNOWN"))
      BY DEF Whole
    <2>3. RunTypeOK' /\ RunInv' /\ noted' = noted
      BY <2>1, <2>2, ClosingSteps DEF IndInv, TypeOK
    <2>4. pc # "idle" /\ pc' # "idle"
      BY <2>1 DEF SaveResults, FinishRun, DatabaseRaises, FailRun, Crash, GoTo
    <2>5. pc' \in {"save", "finish", "done"} => pc \in {"save", "finish", "done"}
      BY <2>1 DEF SaveResults, FinishRun, DatabaseRaises, FailRun, Crash, GoTo
    <2>6. saved' # {} => saved # {} \/ pc' \in {"save", "finish", "done"}
      BY <2>1 DEF SaveResults, FinishRun, DatabaseRaises, FailRun, Crash, GoTo
    <2>7. pc' \in {"save", "finish", "done"} =>
              ~reading /\ queued = {} /\ broken = {} /\ \A i \in Items : chain[i] = NoChain
      BY <2>5 DEF IndInv, Phases
    <2>8. QED
      BY <2>1, <2>3, <2>4, <2>6, <2>7, RestKeeps
  <1>3. QED
    BY <1>1, <1>2

LEMMA StepKeeps == IndInv /\ [Next]_vars => IndInv'
  <1> SUFFICES ASSUME IndInv, [Next]_vars PROVE IndInv'
    OBVIOUS
  <1>1. CASE Main
    BY <1>1, StartKeeps, FetchPageKeeps, EndKeeps DEF Main
  <1>2. ASSUME NEW i \in Items, Thread(i) PROVE IndInv'
    BY <1>2, TakeTaskKeeps, StopAtKeeps, RedirectedKeeps, AnsweredKeeps, BrokenKeeps DEF Thread
  <1>3. CASE Kill
    BY <1>3, EndKeeps
  <1>4. CASE RegisterChanges
    BY <1>4, RegisterKeeps
  <1>5. CASE UNCHANGED vars
    BY <1>5, IdleKeeps
  <1>6. QED
    BY <1>1, <1>2, <1>3, <1>4, <1>5 DEF Next

LEMMA InvariantHolds == Spec => []IndInv
  BY InitIndInv, StepKeeps, PTL DEF Spec

-----------------------------------------------------------------------------
(* Theorems.                                                               *)

\* The variables hold what they are declared to.
THEOREM TypesHold == Spec => []TypeOK
  <1>1. IndInv => TypeOK
    BY DEF IndInv
  <1>2. QED
    BY InvariantHolds, <1>1, PTL

\* Only hosts that are allowed are asked, within the limit, and what is said of
\* a DOI is what was asked for it.
THEOREM ChainsAreSafe == Spec => []ChainIsSafe
  <1>1. IndInv => ChainIsSafe
    BY DEF IndInv, Trails, Grounded, Plain, ChainIsSafe
  <1>2. QED
    BY InvariantHolds, <1>1, PTL

\* Every record that was read has its result, and no DOI that stays is passed over.
THEOREM NothingIsLost == Spec => []NothingLost
  <1>1. ASSUME IndInv PROVE NothingLost
    <2>1. AccountsAgree
      BY <1>1, AccountsFromInv DEF IndInv, TypeOK
    <2>2. saved # {} => {n.item : n \in saved} = DOMAIN records
      <3>1. saved # {} => saved = noted
        BY <1>1 DEF IndInv, RunInv
      <3>2. QED
        BY <1>1, <3>1 DEF IndInv, Tasks
    <2>3. pc # "idle" /\ ~reading /\ ~removed =>
              atStart \subseteq Range(records) \/ (maxDois > 0 /\ Len(records) = maxDois)
      BY <1>1 DEF IndInv, Coming
    <2>4. maxDois > 0 => Len(records) <= maxDois
      BY <1>1 DEF IndInv, Phases
    <2>5. QED
      BY <2>1, <2>2, <2>3, <2>4 DEF NothingLost
  <1>2. QED
    BY InvariantHolds, <1>1, PTL

-----------------------------------------------------------------------------
(* What readers of the run's row and of its results may rely on.           *)

LEMMA StepIsAccounted == IndInv /\ [Next]_vars => [Ledger!Next]_Book
  <1> SUFFICES ASSUME IndInv, [Next]_vars PROVE [Ledger!Next]_Book
    OBVIOUS
  <1>1. Whole \in BOOLEAN /\ (Whole => ~Has(noted, "UNKNOWN")) /\ RunTypeOK /\ RunInv
    BY DEF Whole, IndInv, TypeOK
  <1>2. CASE Start \/ Close \/ Kill
    BY <1>1, <1>2, ClosingIsAccounted DEF Start, Close, Kill
  <1>3. CASE ~(Start \/ Close \/ Kill)
    <2>1. UNCHANGED <<run, saved>>
      BY <1>3 DEF Next, Main, FetchPage, FetchFails, PoolEnds, Thread, TakeTask, StopAt,
         Redirected, Answered, Broken, AskNext, Complete, RegisterChanges, GoTo, vars,
         runVars
    <2>2. QED
      BY <2>1, GatheringIsAccounted
  <1>4. QED
    BY <1>2, <1>3

\* The exporter may rely on what an audit of DOIs stores: its row is closed once, with a
\* status that the results stored by then justify, and then neither changes.
THEOREM WellAccounted == Spec => RunIsAccounted
  <1>1. Init => Ledger!Init
    BY LedgerBegins DEF Init
  <1>2. QED
    BY <1>1, StepIsAccounted, InvariantHolds, PTL DEF Spec, RunIsAccounted, Ledger!Spec

===============================================================================
