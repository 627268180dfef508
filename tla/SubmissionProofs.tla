-------------------------- MODULE SubmissionProofs --------------------------
(***************************************************************************)
(* Theorems about Submission, for any number of requests, overrides,       *)
(* firewall queries and digests.  The invariant says who owns an id.  Ids  *)
(* are handed out in order and no row is ever deleted, so the row of an id *)
(* was inserted by one request; and a request that no other one shared its *)
(* id with is the only one that has written, or may still delete, the      *)
(* sample of that id.                                                      *)
(***************************************************************************)
EXTENDS Submission, AnalysisDbProofs, FiniteSetTheorems

\* A verdict, once given, is allow or block.
VerdictsGiven ==
    /\ \A t \in Tasks : Settled(t) => fod[t].verdict # "none"
    /\ \A a \in Admins : overrides[a] # None => overrides[a].verdict # "none"

\* The transaction of LogCommit still finds what LogPrepare read.
AnalysisCurrent ==
    analysis # None => live[analysis.task] # None /\ analysis.dups \subseteq dup

\* The ids in use are an interval; those below the id of a request are in use.
IdsInOrder ==
    /\ \E n \in 1 .. MaxTask + 1 : \A t \in Tasks : fod[t] # None <=> t < n
    /\ \A r \in Requests : requests[r] # None =>
            \A t \in Tasks : t < requests[r].id => fod[t] # None

Stored(r) == At(r, "known") \/ At(r, "queued")

\* Every row was inserted by a request that has ended.
RowsOwned ==
    /\ \A t \in Tasks : fod[t] # None => \E r \in Requests : Stored(r) /\ requests[r].id = t
    /\ \A r \in Requests : Stored(r) => fod[requests[r].id] # None

\* Of the requests with the id of an unshared one, only that one did not fail.
UnsharedAlone ==
    \A r, s \in Requests :
        /\ r # s /\ requests[r] # None /\ requests[s] # None
        /\ requests[r].id = requests[s].id
        /\ ~requests[r].shared /\ requests[r].stage # "failed"
        => requests[s].stage = "failed"

\* A duplicate of the analysis that is about to be settled by its report.
Reported(t) == analysis # None /\ ~analysis.aborted /\ t \in analysis.dups

\* A sample is deleted when its file has its verdict, or is about to have it.
DeletionsDue ==
    \A t \in deletions : fod[t] # None /\ (Settled(t) \/ Reported(t))

Found(r) == At(r, "readVerdict") \/ At(r, "insertKnown")

\* What a request carries from one statement to the next.
RequestsCarry ==
    \A r \in Requests : requests[r] # None =>
        /\ requests[r].stage \notin {"storing", "hashing", "failed"} => requests[r].hash # NoHash
        /\ Found(r) => requests[r].verdict # "none"
        /\ At(r, "insertKnown") => requests[r].rating # "none"

SettledAs(h, V) ==
    \E t \in Tasks : Settled(t) /\ fod[t].hash = h /\ fod[t].verdict \in V

\* A digest that had a verdict and was not disturbed is found by the look-up
\* that is left.
KnownFound ==
    /\ \A r \in Requests : requests[r] # None /\ requests[r].known =>
        /\ requests[r].stage \notin {"counting", "inserting", "queued"}
        /\ At(r, "isClean") => SettledAs(requests[r].hash, {"allow", "block"})
        /\ At(r, "isMalware") => SettledAs(requests[r].hash, {"block"})
    /\ \A f \in Firewalls : queries[f] # None /\ queries[f].known =>
        /\ queries[f].stage # "empty"
        /\ queries[f].stage = "isClean" =>
              queries[f].malware \/ SettledAs(queries[f].hash, {"allow"})

\* The file of an unshared request is on disk as it was sent, from the moment it
\* was stored to the moment its deletion is due.
Due(t) == Settled(t) \/ Reported(t)

SamplesKept ==
    \A r \in Requests : requests[r] # None /\ ~requests[r].shared =>
        /\ (Running(r) /\ ~At(r, "storing")) \/ (At(r, "queued") /\ ~Due(requests[r].id))
           => files[requests[r].id] = requests[r].content
        /\ requests[r].stage \in {"counting", "inserting", "queued"}
              \/ At(r, "isClean") \/ At(r, "isMalware") \/ Found(r)
           => requests[r].hash = requests[r].content
        /\ At(r, "queued") => fod[requests[r].id].hash = requests[r].content

SubmissionInv ==
    /\ SubmissionTypeOK /\ OnePlace
    /\ VerdictsGiven /\ AnalysisCurrent /\ IdsInOrder /\ RowsOwned /\ UnsharedAlone
    /\ DeletionsDue /\ RequestsCarry /\ KnownFound /\ SamplesKept

-----------------------------------------------------------------------------
(* The start, and steps that only move the pointers of a request.          *)

LEMMA InitSubmission == SubmissionInit => SubmissionInv
<1>. SUFFICES ASSUME SubmissionInit PROVE SubmissionInv
  OBVIOUS
<1>1. SubmissionTypeOK
  BY DEF SubmissionInit, SubmissionTypeOK, DbTypeOK
<1>2. OnePlace /\ VerdictsGiven /\ DeletionsDue
  BY DEF SubmissionInit, OnePlace, Settled, VerdictsGiven, DeletionsDue
<1>3. AnalysisCurrent /\ UnsharedAlone /\ RequestsCarry /\ KnownFound /\ SamplesKept
  BY DEF SubmissionInit, AnalysisCurrent, UnsharedAlone, RequestsCarry, KnownFound, SamplesKept
<1>4. IdsInOrder
  <2>1. 1 \in 1 .. MaxTask + 1
    BY DbAssumption
  <2>2. \A t \in Tasks : fod[t] # None <=> t < 1
    BY DEF SubmissionInit, Tasks
  <2>. QED
    BY <2>1, <2>2 DEF IdsInOrder, SubmissionInit
<1>5. RowsOwned
  BY DEF SubmissionInit, RowsOwned, Stored, At
<1>. QED
  BY <1>1, <1>2, <1>3, <1>4, <1>5 DEF SubmissionInv

\* Overrides and firewall queries read the tables only.
LEMMA RequestsSame ==
    ASSUME SubmissionInv, UNCHANGED <<dbVars, requests, analysis, deletions>>
    PROVE  /\ OnePlace' /\ AnalysisCurrent' /\ IdsInOrder' /\ RowsOwned' /\ UnsharedAlone'
           /\ DeletionsDue' /\ RequestsCarry' /\ SamplesKept'
<1>1. OnePlace' /\ AnalysisCurrent' /\ IdsInOrder' /\ UnsharedAlone' /\ DeletionsDue'
  BY DEF SubmissionInv, OnePlace, Settled, AnalysisCurrent, IdsInOrder, UnsharedAlone,
         DeletionsDue, Reported, dbVars
<1>2. RowsOwned' /\ RequestsCarry' /\ SamplesKept'
  BY DEF SubmissionInv, RowsOwned, Stored, At, RequestsCarry, Found, SamplesKept, Running, Due,
         Settled, Reported, dbVars
<1>. QED
  BY <1>1, <1>2

\* A request goes on to its next statement, or gives up.
LEMMA RequestStep ==
    ASSUME SubmissionInv, NEW r \in Requests, NEW k \in Request,
           Running(r), ~At(r, "storing"),
           requests' = [requests EXCEPT ![r] = k],
           UNCHANGED <<dbVars, overrides, queries, analysis, deletions>>,
           k.id = requests[r].id, k.content = requests[r].content,
           k.shared = requests[r].shared,
           k.stage \notin {"storing", "hashing", "known", "queued"},
           k.stage # "failed" => k.hash # NoHash,
           ~k.shared /\ k.stage # "failed" => k.hash = k.content,
           k.stage \in {"readVerdict", "insertKnown"} => k.verdict # "none",
           k.stage = "insertKnown" => k.rating # "none",
           k.known => /\ k.stage \notin {"counting", "inserting"}
                      /\ k.stage = "isClean" => SettledAs(k.hash, {"allow", "block"})
                      /\ k.stage = "isMalware" => SettledAs(k.hash, {"block"})
    PROVE  SubmissionInv'
<1>1. /\ requests \in [Requests -> Request \cup {None}] /\ requests[r] # None
      /\ requests'[r] = k /\ k # None
      /\ \A s \in Requests \ {r} : requests'[s] = requests[s]
  BY SubmissionAssumption DEF SubmissionInv, SubmissionTypeOK, Running
<1>2. SubmissionTypeOK' /\ OnePlace' /\ VerdictsGiven' /\ AnalysisCurrent' /\ DeletionsDue'
  BY <1>1 DEF SubmissionInv, SubmissionTypeOK, DbTypeOK, OnePlace, Settled, VerdictsGiven,
              AnalysisCurrent, DeletionsDue, Reported, dbVars
<1>3. IdsInOrder'
  BY <1>1 DEF SubmissionInv, IdsInOrder, dbVars
<1>4. RowsOwned'
  <2>1. ~Stored(r) /\ ~Stored(r)'
    BY <1>1 DEF Stored, At, Running, RequestEnds
  <2>2. \A s \in Requests \ {r} : Stored(s)' <=> Stored(s)
    BY <1>1 DEF Stored, At
  <2>. QED
    BY <1>1, <2>1, <2>2 DEF SubmissionInv, RowsOwned, dbVars
<1>5. UnsharedAlone'
  BY <1>1 DEF SubmissionInv, UnsharedAlone, Running, RequestEnds
<1>6. RequestsCarry'
  BY <1>1 DEF SubmissionInv, RequestsCarry, Found, At
<1>7. KnownFound'
  BY <1>1 DEF SubmissionInv, KnownFound, SettledAs, Settled, At, dbVars
<1>8. SamplesKept'
  <2>1. ~k.shared => files'[k.id] = k.content
    BY <1>1 DEF SubmissionInv, SamplesKept, dbVars
  <2>. QED
    BY <1>1, <2>1 DEF SubmissionInv, SamplesKept, Running, At, Found, Due, Settled, Reported, dbVars
<1>. QED
  BY <1>2, <1>3, <1>4, <1>5, <1>6, <1>7, <1>8 DEF SubmissionInv

-----------------------------------------------------------------------------
(* The statements of a request that find, count or fail.                   *)

LEMMA AtRequest ==
    ASSUME SubmissionInv, NEW r \in Requests, NEW s, At(r, s)
    PROVE  requests[r] \in Request /\ requests[r].stage = s /\ requests[r].id \in Tasks
BY DEF SubmissionInv, SubmissionTypeOK, At, Request

LEMMA HashInv ==
    ASSUME SubmissionInv, NEW r \in Requests, SubmitHash(r)
    PROVE  SubmissionInv'
<1>. DEFINE q == requests[r]
            h == Digest(files[q.id])
            k == [q EXCEPT !.stage = "isClean", !.hash = h, !.known = SettledDigest(h)]
<1>1. q \in Request /\ q.stage = "hashing" /\ At(r, "hashing") /\ q.id \in Tasks
  BY AtRequest DEF SubmitHash
<1>2. h \in Hashes /\ h # NoHash
  BY <1>1, DbAssumption, SubmissionAssumption DEF Digest, SubmissionInv, SubmissionTypeOK, DbTypeOK
<1>3. SettledDigest(h) \in BOOLEAN
  BY DEF SettledDigest
<1>4. SettledDigest(h) => SettledAs(h, {"allow", "block"})
  <2>. SUFFICES ASSUME NEW t \in Tasks, Settled(t), fod[t].hash = h
                PROVE  fod[t].verdict \in {"allow", "block"}
    BY DEF SettledDigest, SettledAs
  <2>1. fod[t] \in FodRow /\ fod[t].verdict # "none"
    BY DEF SubmissionInv, SubmissionTypeOK, DbTypeOK, Settled, VerdictsGiven
  <2>. QED
    BY <2>1 DEF FodRow, Verdicts
<1>5. ~q.shared => h = q.content
  <2>1. q.content \in Contents
    BY <1>1 DEF Request
  <2>2. ~q.shared => files[q.id] = q.content
    BY <1>1 DEF SubmissionInv, SamplesKept, At, Running, RequestEnds
  <2>. QED
    BY <2>1, <2>2, DbAssumption DEF Digest, Contents
<1>. HIDE DEF h
<1>6. /\ k \in Request /\ k.stage = "isClean" /\ k.hash = h /\ k.known = SettledDigest(h)
      /\ k.id = q.id /\ k.content = q.content /\ k.shared = q.shared
  BY <1>1, <1>2, <1>3 DEF Request, RequestStages
<1>7. requests' = [requests EXCEPT ![r] = k]
  BY DEF SubmitHash, h
<1>8. Running(r) /\ ~At(r, "storing")
  BY <1>1 DEF At, Running, RequestEnds
<1>. HIDE DEF q, k
<1>9. UNCHANGED <<dbVars, overrides, queries, analysis, deletions>>
  BY DEF SubmitHash
<1>. QED
  BY <1>2, <1>4, <1>5, <1>6, <1>7, <1>8, <1>9, RequestStep DEF q

\* A look-up by digest: found, not found, or in error.
LEMMA LookUpInv ==
    ASSUME SubmissionInv, NEW r \in Requests, NEW match \in BOOLEAN,
           NEW here, NEW next, NEW verdict \in {"allow", "block"},
           SubmitLookUp(r, here, match, next, verdict),
           here \in {"isClean", "isMalware"}, next \in {"isMalware", "counting"},
           ~match /\ requests[r].known =>
               /\ next # "counting"
               /\ next = "isMalware" => SettledAs(requests[r].hash, {"block"})
    PROVE  SubmissionInv'
<1>. DEFINE q == requests[r]
            found == [q EXCEPT !.stage = "readVerdict", !.verdict = verdict]
            on == [q EXCEPT !.stage = next]
            failed == [q EXCEPT !.stage = "counting", !.known = FALSE]
<1>1. q \in Request /\ q.stage = here /\ At(r, here) /\ q.id \in Tasks
  BY AtRequest DEF SubmitLookUp
<1>2. Running(r) /\ ~At(r, "storing")
  BY <1>1 DEF At, Running, RequestEnds
<1>3. q.hash # NoHash /\ (~q.shared => q.hash = q.content)
  BY <1>1 DEF SubmissionInv, RequestsCarry, SamplesKept, At
<1>4. UNCHANGED <<dbVars, overrides, queries, analysis, deletions>>
  BY DEF SubmitLookUp
<1>5. CASE requests' = [requests EXCEPT ![r] = found]
  <2>1. /\ found \in Request /\ found.stage = "readVerdict" /\ found.verdict = verdict
        /\ found.hash = q.hash /\ found.id = q.id /\ found.content = q.content
        /\ found.shared = q.shared
    BY <1>1 DEF Request, RequestStages, Verdicts
  <2>. HIDE DEF q, found
  <2>. QED
    BY <1>2, <1>3, <1>4, <1>5, <2>1, RequestStep DEF q
<1>6. CASE ~match /\ requests' = [requests EXCEPT ![r] = on]
  <2>1. /\ on \in Request /\ on.stage = next /\ on.known = q.known
        /\ on.hash = q.hash /\ on.id = q.id /\ on.content = q.content
        /\ on.shared = q.shared
    BY <1>1 DEF Request, RequestStages
  <2>. HIDE DEF q, on
  <2>. QED
    BY <1>2, <1>3, <1>4, <1>6, <2>1, RequestStep DEF q
<1>7. CASE requests' = [requests EXCEPT ![r] = failed]
  <2>1. /\ failed \in Request /\ failed.stage = "counting" /\ failed.known = FALSE
        /\ failed.hash = q.hash /\ failed.id = q.id /\ failed.content = q.content
        /\ failed.shared = q.shared
    BY <1>1 DEF Request, RequestStages
  <2>. HIDE DEF q, failed
  <2>. QED
    BY <1>2, <1>3, <1>4, <1>7, <2>1, RequestStep DEF q
<1>. QED
  BY <1>5, <1>6, <1>7 DEF SubmitLookUp, GoesTo, FailsTo

LEMMA CheckCleanInv ==
    ASSUME SubmissionInv, NEW r \in Requests, SubmitCheckClean(r)
    PROVE  SubmissionInv'
<1>. DEFINE h == requests[r].hash
<1>1. requests[r].known => SettledAs(h, {"allow", "block"})
  BY DEF SubmissionInv, KnownFound, SubmitCheckClean, SubmitLookUp, At
<1>2. ~IsCleanHashFromDb(h) /\ SettledAs(h, {"allow", "block"}) => SettledAs(h, {"block"})
  BY DEF IsCleanHashFromDb, RowsWith, SettledAs, Settled
<1>3. IsCleanHashFromDb(h) \in BOOLEAN
  BY DEF IsCleanHashFromDb
<1>. QED
  BY <1>1, <1>2, <1>3, LookUpInv DEF SubmitCheckClean

LEMMA CheckMalwareInv ==
    ASSUME SubmissionInv, NEW r \in Requests, SubmitCheckMalware(r)
    PROVE  SubmissionInv'
<1>. DEFINE h == requests[r].hash
<1>1. requests[r].known => SettledAs(h, {"block"})
  BY DEF SubmissionInv, KnownFound, SubmitCheckMalware, SubmitLookUp, At
<1>2. SettledAs(h, {"block"}) => IsMalwareHashFromDb(h)
  BY DEF IsMalwareHashFromDb, RowsWith, SettledAs, Settled
<1>3. IsMalwareHashFromDb(h) \in BOOLEAN
  BY DEF IsMalwareHashFromDb
<1>. QED
  BY <1>1, <1>2, <1>3, LookUpInv DEF SubmitCheckMalware

LEMMA ReadVerdictInv ==
    ASSUME SubmissionInv, NEW r \in Requests, SubmitReadVerdict(r)
    PROVE  SubmissionInv'
<1>. DEFINE q == requests[r]
<1>1. q \in Request /\ q.stage = "readVerdict" /\ At(r, "readVerdict") /\ q.id \in Tasks
  BY AtRequest DEF SubmitReadVerdict
<1>2. q.hash # NoHash /\ (~q.shared => q.hash = q.content) /\ q.verdict # "none"
  BY <1>1 DEF SubmissionInv, RequestsCarry, SamplesKept, At, Found
<1>3. PICK answer \in {ReadVerdict(r, d) : d \in FilesOf(q.hash)} \cup {Fallback(q.verdict)} :
        requests' = [requests EXCEPT ![r].stage = "insertKnown", ![r].rating = answer.rating,
                                     ![r].verdict = answer.verdict]
  BY DEF SubmitReadVerdict
<1>4. /\ answer.rating \in Ratings \ {"none"} /\ answer.verdict \in Verdicts \ {"none"}
  <2>1. CASE answer = Fallback(q.verdict)
    BY <1>1, <1>2, <2>1 DEF Fallback, Ratings, Request
  <2>2. ASSUME NEW d \in FilesOf(q.hash), answer = ReadVerdict(r, d)
        PROVE  /\ answer.rating \in Ratings \ {"none"} /\ answer.verdict \in Verdicts \ {"none"}
    <3>1. fod[d] \in FodRow
      BY <2>2 DEF FilesOf, SubmissionInv, SubmissionTypeOK, DbTypeOK
    <3>. QED
      BY <2>1, <2>2, <3>1 DEF ReadVerdict, FodRow
  <2>. QED
    BY <1>3, <2>1, <2>2
<1>. DEFINE k == [q EXCEPT !.stage = "insertKnown", !.rating = answer.rating,
                           !.verdict = answer.verdict]
<1>5. /\ k \in Request /\ k.stage = "insertKnown" /\ k.rating = answer.rating
      /\ k.verdict = answer.verdict /\ k.hash = q.hash /\ k.id = q.id
      /\ k.content = q.content /\ k.shared = q.shared
  BY <1>1, <1>4 DEF Request, RequestStages
<1>6. requests' = [requests EXCEPT ![r] = k]
  BY <1>3
<1>7. Running(r) /\ ~At(r, "storing")
  BY <1>1 DEF At, Running, RequestEnds
<1>8. UNCHANGED <<dbVars, overrides, queries, analysis, deletions>>
  BY DEF SubmitReadVerdict
<1>. HIDE DEF q, k
<1>. QED
  BY <1>2, <1>4, <1>5, <1>6, <1>7, <1>8, RequestStep DEF q

\* A request that carries on or gives up without a digest known.
LEMMA UnknownStep ==
    ASSUME SubmissionInv, NEW r \in Requests, NEW k, NEW s \in {"counting", "inserting", "failed"},
           At(r, "insertKnown") \/ At(r, "counting") \/ At(r, "inserting"),
           requests' = [requests EXCEPT ![r] = k], k \in Request, k.stage = s, ~k.known,
           k.hash = requests[r].hash, k.id = requests[r].id,
           k.content = requests[r].content, k.shared = requests[r].shared,
           UNCHANGED <<dbVars, overrides, queries, analysis, deletions>>
    PROVE  SubmissionInv'
<1>1. Running(r) /\ ~At(r, "storing")
  BY DEF At, Running, RequestEnds
<1>2. k.hash # NoHash /\ (~k.shared => k.hash = k.content)
  BY DEF SubmissionInv, RequestsCarry, SamplesKept, At, Found
<1>. QED
  BY <1>1, <1>2, RequestStep

LEMMA CountInv ==
    ASSUME SubmissionInv, NEW r \in Requests, SubmitCount(r)
    PROVE  SubmissionInv'
<1>. DEFINE q == requests[r]
            first == \A t \in LiveTasks : live[t].hash # q.hash
            counted == [q EXCEPT !.stage = "inserting", !.first = first]
            failed == [q EXCEPT !.stage = "failed", !.known = FALSE]
<1>1. q \in Request /\ At(r, "counting") /\ first \in BOOLEAN
  BY AtRequest DEF SubmitCount
<1>. HIDE DEF first
<1>2. ~q.known
  BY <1>1 DEF SubmissionInv, KnownFound, At
<1>3. CASE requests' = [requests EXCEPT ![r] = counted]
  <2>1. /\ counted \in Request /\ counted.stage = "inserting" /\ ~counted.known
        /\ counted.hash = q.hash /\ counted.id = q.id /\ counted.content = q.content
        /\ counted.shared = q.shared
    BY <1>1, <1>2 DEF Request, RequestStages
  <2>. HIDE DEF counted
  <2>. QED
    BY <1>1, <1>3, <2>1, UnknownStep DEF SubmitCount
<1>4. CASE requests' = [requests EXCEPT ![r] = failed]
  <2>1. /\ failed \in Request /\ failed.stage = "failed" /\ ~failed.known
        /\ failed.hash = q.hash /\ failed.id = q.id /\ failed.content = q.content
        /\ failed.shared = q.shared
    BY <1>1 DEF Request, RequestEnds
  <2>. HIDE DEF failed
  <2>. QED
    BY <1>1, <1>4, <2>1, UnknownStep DEF SubmitCount
<1>. QED
  BY <1>3, <1>4 DEF SubmitCount, FailsTo, first

-----------------------------------------------------------------------------
(* Ids and samples.                                                        *)

\* There is an id left for every request: each has taken at most one.
LEMMA NextIdFree ==
    ASSUME SubmissionInv, NEW r \in Requests, requests[r] = None
    PROVE  /\ NextId \in Tasks
           /\ \A t \in Tasks : fod[t] # None <=> t < NextId
<1>1. PICK n \in 1 .. MaxTask + 1 : \A t \in Tasks : fod[t] # None <=> t < n
  BY DEF SubmissionInv, IdsInOrder
<1>2. n <= MaxTask
  <2>. DEFINE S == 1 .. n - 1
              Owner(t) == CHOOSE s \in Requests : Stored(s) /\ requests[s].id = t
              f == [t \in S |-> Owner(t)]
              others == Requests \ {r}
  <2>1. S \subseteq Tasks /\ \A t \in S : fod[t] # None
    BY <1>1, DbAssumption DEF Tasks
  <2>2. \A t \in S : /\ Owner(t) \in Requests /\ Stored(Owner(t))
                     /\ requests[Owner(t)].id = t
    BY <2>1 DEF SubmissionInv, RowsOwned
  <2>3. ~Stored(r)
    BY SubmissionAssumption DEF Stored, At
  <2>4. f \in [S -> others]
    BY <2>2, <2>3
  <2>5. \A t, u \in S : f[t] = f[u] => t = u
    BY <2>2
  <2>6. f \in Injection(S, others)
    BY <2>4, <2>5 DEF Injection, IsInjective
  <2>7. IsFiniteSet(others) /\ Cardinality(others) = Cardinality(Requests) - 1
    BY FS_RemoveElement, SubmissionAssumption
  <2>8. Cardinality(S) <= Cardinality(others)
    BY <2>6, <2>7, FS_Injection
  <2>9. Cardinality(S) = n - 1
    BY FS_Interval
  <2>10. Cardinality(Requests) \in Nat /\ Cardinality(Requests) <= MaxTask
    BY SubmissionAssumption, FS_CardinalityType
  <2>. QED
    BY <2>7, <2>8, <2>9, <2>10, DbAssumption
<1>. DEFINE P(m) == /\ \A t \in Tasks : fod[t] # None => t < m
                    /\ m = 1 \/ fod[m - 1] # None
<1>3. P(n)
  <2>1. n # 1 => n - 1 \in Tasks
    BY DbAssumption DEF Tasks
  <2>. QED
    BY <1>1, <2>1
<1>4. ASSUME NEW m \in 1 .. MaxTask + 1, P(m) PROVE m = n
  <2>1. m # 1 => m - 1 \in Tasks
    BY DbAssumption DEF Tasks
  <2>2. n # 1 => n - 1 \in Tasks
    BY DbAssumption DEF Tasks
  <2>3. m # 1 => m - 1 < n
    BY <1>1, <1>4, <2>1
  <2>4. n # 1 => n - 1 < m
    BY <1>3, <1>4, <2>2
  <2>. QED
    BY <2>3, <2>4, DbAssumption
<1>5. NextId = n
  BY <1>3, <1>4 DEF NextId
<1>. QED
  BY <1>1, <1>2, <1>5 DEF Tasks

LEMMA ReadInv ==
    ASSUME SubmissionInv, NEW r \in Requests, NEW c \in Contents, SubmitRead(r, c)
    PROVE  SubmissionInv'
<1>. DEFINE n == NextId
            twins == {q \in Requests : Running(q) /\ requests[q].id = n}
            meets == twins # {}
            k == [stage |-> "storing", id |-> n, content |-> c, hash |-> NoHash,
                  rating |-> "none", verdict |-> "none", first |-> FALSE,
                  known |-> FALSE, shared |-> meets]
<1>1. requests[r] = None
  BY DEF SubmitRead
<1>2. n \in Tasks /\ \A t \in Tasks : fod[t] # None <=> t < n
  BY <1>1, NextIdFree
<1>. HIDE DEF n
<1>3. /\ k \in Request /\ k # None /\ k.stage = "storing" /\ k.id = n /\ ~k.known
      /\ ~k.shared => twins = {}
  <2>1. meets \in BOOLEAN
    OBVIOUS
  <2>2. ~meets => twins = {}
    OBVIOUS
  <2>. HIDE DEF meets, twins
  <2>3. k \in Request
    BY <1>2, <2>1 DEF Request, RequestStages, Ratings, Verdicts
  <2>4. k.stage = "storing" /\ k.id = n
    OBVIOUS
  <2>5. k.known = FALSE
    OBVIOUS
  <2>6. k.shared = meets
    OBVIOUS
  <2>. QED
    BY <2>2, <2>3, <2>4, <2>5, <2>6, SubmissionAssumption
<1>. HIDE DEF k
<1>4. /\ requests' = [q \in Requests |->
            IF q = r THEN k
            ELSE IF q \in twins THEN [requests[q] EXCEPT !.shared = TRUE] ELSE requests[q]]
      /\ UNCHANGED <<dbVars, overrides, queries, analysis, deletions>>
  BY DEF SubmitRead, n, k
<1>5. /\ requests \in [Requests -> Request \cup {None}]
      /\ r \notin twins
      /\ \A q \in twins : requests[q] # None /\ requests[q].stage \notin RequestEnds
  BY <1>1, <1>3 DEF SubmissionInv, SubmissionTypeOK, Running
<1>6. requests'[r] = k
  BY <1>4
<1>7. \A q \in Requests \ {r} :
        /\ requests'[q] # None <=> requests[q] # None
        /\ requests[q] # None =>
             /\ requests'[q] \in Request
             /\ requests'[q].stage = requests[q].stage /\ requests'[q].id = requests[q].id
             /\ requests'[q].content = requests[q].content /\ requests'[q].hash = requests[q].hash
             /\ requests'[q].rating = requests[q].rating
             /\ requests'[q].verdict = requests[q].verdict
             /\ requests'[q].known => requests[q].known
             /\ ~requests'[q].shared => ~requests[q].shared /\ q \notin twins
  <2>. SUFFICES ASSUME NEW q \in Requests \ {r}
                PROVE  /\ requests'[q] # None <=> requests[q] # None
                       /\ requests[q] # None =>
                            /\ requests'[q] \in Request
                            /\ requests'[q].stage = requests[q].stage
                            /\ requests'[q].id = requests[q].id
                            /\ requests'[q].content = requests[q].content
                            /\ requests'[q].hash = requests[q].hash
                            /\ requests'[q].rating = requests[q].rating
                            /\ requests'[q].verdict = requests[q].verdict
                            /\ requests'[q].known => requests[q].known
                            /\ ~requests'[q].shared => ~requests[q].shared /\ q \notin twins
    OBVIOUS
  <2>. DEFINE m == [requests[q] EXCEPT !.shared = TRUE]
  <2>1. CASE q \in twins
    <3>1. requests[q] \in Request /\ requests[q] # None /\ requests'[q] = m
      BY <1>4, <1>5, <2>1
    <3>2. m \in Request /\ m # None
      BY <3>1, SubmissionAssumption DEF Request
    <3>. QED
      BY <2>1, <3>1, <3>2 DEF Request
  <2>2. CASE q \notin twins
    <3>1. requests'[q] = requests[q]
      BY <1>4, <2>2
    <3>2. requests[q] # None => requests[q].shared \in BOOLEAN /\ requests[q] \in Request
      BY <1>5 DEF Request
    <3>. QED
      BY <2>2, <3>1, <3>2
  <2>. QED
    BY <2>1, <2>2
<1>8. SubmissionTypeOK' /\ OnePlace' /\ VerdictsGiven' /\ AnalysisCurrent' /\ DeletionsDue'
  <2>1. requests' \in [Requests -> Request \cup {None}]
    BY <1>3, <1>4, <1>5, <1>6, <1>7
  <2>. QED
    BY <1>4, <2>1 DEF SubmissionInv, SubmissionTypeOK, DbTypeOK, OnePlace, Settled,
              VerdictsGiven, AnalysisCurrent, DeletionsDue, Reported, dbVars
<1>9. IdsInOrder'
  <2>1. ASSUME NEW q \in Requests, requests'[q] # None, NEW t \in Tasks, t < requests'[q].id
        PROVE  fod'[t] # None
    BY <1>2, <1>3, <1>4, <1>6, <1>7, <2>1 DEF SubmissionInv, IdsInOrder, dbVars
  <2>. QED
    BY <1>4, <2>1 DEF SubmissionInv, IdsInOrder, dbVars
<1>10. \A q \in Requests : Stored(q)' <=> Stored(q)
  BY <1>1, <1>3, <1>6, <1>7 DEF Stored, At
<1>11. RowsOwned'
  <2>1. ASSUME NEW q \in Requests, Stored(q) PROVE q # r /\ requests'[q].id = requests[q].id
    BY <1>1, <1>7, <2>1 DEF Stored, At
  <2>. QED
    BY <1>4, <1>10, <2>1 DEF SubmissionInv, RowsOwned, dbVars
<1>12. UnsharedAlone'
  <2>1. ASSUME NEW q \in Requests \ {r}, requests[q] # None, requests[q].id = n, q \notin twins
        PROVE  requests[q].stage = "failed"
    <3>1. requests[q].stage \in RequestEnds
      BY <2>1 DEF Running
    <3>2. ~Stored(q)
      BY <1>2, <2>1 DEF SubmissionInv, RowsOwned, Tasks
    <3>. QED
      BY <2>1, <3>1, <3>2 DEF RequestEnds, Stored, At
  <2>2. ASSUME NEW p \in Requests, NEW q \in Requests, p # q,
               requests'[p] # None, requests'[q] # None, requests'[p].id = requests'[q].id,
               ~requests'[p].shared, requests'[p].stage # "failed"
        PROVE  requests'[q].stage = "failed"
    <3>1. CASE p = r
      BY <1>3, <1>6, <1>7, <2>1, <2>2, <3>1
    <3>2. CASE q = r
      BY <1>3, <1>6, <1>7, <2>1, <2>2, <3>2
    <3>3. CASE p # r /\ q # r
      BY <1>7, <2>2, <3>3 DEF SubmissionInv, UnsharedAlone
    <3>. QED
      BY <3>1, <3>2, <3>3
  <2>. QED
    BY <2>2 DEF UnsharedAlone
<1>13. RequestsCarry'
  BY <1>3, <1>6, <1>7 DEF SubmissionInv, RequestsCarry, Found, At
<1>14. KnownFound'
  BY <1>3, <1>4, <1>6, <1>7 DEF SubmissionInv, KnownFound, SettledAs, Settled, At, dbVars
<1>15. SamplesKept'
  BY <1>3, <1>4, <1>6, <1>7 DEF SubmissionInv, SamplesKept, Running, At, Found, Due, Settled, Reported,
                          dbVars
<1>. QED
  BY <1>8, <1>9, <1>11, <1>12, <1>13, <1>14, <1>15 DEF SubmissionInv

LEMMA StoreInv ==
    ASSUME SubmissionInv, NEW r \in Requests, SubmitStore(r)
    PROVE  SubmissionInv'
<1>. DEFINE q == requests[r]
            k == [q EXCEPT !.stage = "hashing"]
<1>1. q \in Request /\ q # None /\ q.stage = "storing" /\ At(r, "storing") /\ q.id \in Tasks
  BY AtRequest DEF SubmitStore, At
<1>2. /\ k \in Request /\ k.stage = "hashing" /\ k.known = q.known /\ k.id = q.id
      /\ k.content = q.content /\ k.shared = q.shared
  BY <1>1 DEF Request, RequestStages
<1>3. k # None /\ q.content \in Hashes
  BY <1>1, <1>2, SubmissionAssumption DEF Request, Contents
<1>. HIDE DEF k
<1>4. /\ requests \in [Requests -> Request \cup {None}]
      /\ requests' = [requests EXCEPT ![r] = k]
      /\ files' = [files EXCEPT ![q.id] = q.content]
      /\ UNCHANGED <<fod, live, dup, finished, overrides, queries, analysis, deletions>>
  BY DEF SubmitStore, GoesTo, k, SubmissionInv, SubmissionTypeOK
<1>5. requests'[r] = k /\ \A s \in Requests \ {r} : requests'[s] = requests[s]
  BY <1>4
<1>. HIDE DEF q
<1>6. SubmissionTypeOK' /\ OnePlace' /\ VerdictsGiven' /\ AnalysisCurrent' /\ DeletionsDue'
  BY <1>1, <1>2, <1>3, <1>4 DEF SubmissionInv, SubmissionTypeOK, DbTypeOK, OnePlace, Settled,
        VerdictsGiven, AnalysisCurrent, DeletionsDue, Reported
<1>7. IdsInOrder'
  BY <1>1, <1>2, <1>4, <1>5 DEF SubmissionInv, IdsInOrder, q
<1>8. RowsOwned'
  <2>1. ~Stored(r) /\ ~Stored(r)'
    BY <1>1, <1>2, <1>5 DEF Stored, At, q
  <2>2. \A s \in Requests \ {r} : Stored(s)' <=> Stored(s)
    BY <1>5 DEF Stored, At
  <2>. QED
    BY <1>4, <1>5, <2>1, <2>2 DEF SubmissionInv, RowsOwned
<1>9. UnsharedAlone'
  BY <1>1, <1>2, <1>5 DEF SubmissionInv, UnsharedAlone, q
<1>10. RequestsCarry'
  BY <1>1, <1>2, <1>5 DEF SubmissionInv, RequestsCarry, Found, At
<1>11. KnownFound'
  BY <1>1, <1>2, <1>4, <1>5 DEF SubmissionInv, KnownFound, SettledAs, Settled, At, q
<1>12. SamplesKept'
  <2>1. files'[k.id] = k.content
    BY <1>1, <1>2, <1>4 DEF SubmissionInv, SubmissionTypeOK, DbTypeOK
  <2>2. ASSUME NEW s \in Requests \ {r}, requests[s] # None, ~requests[s].shared,
               requests[s].stage # "failed"
        PROVE  requests[s].id # q.id
    BY <1>1, <2>2 DEF SubmissionInv, UnsharedAlone, q
  <2>3. ASSUME NEW s \in Requests \ {r}, requests[s] # None, ~requests[s].shared,
               requests[s].stage # "failed"
        PROVE  files'[requests[s].id] = files[requests[s].id]
    <3>1. requests[s].id # q.id
      BY <2>2, <2>3
    <3>2. requests[s] \in Request
      BY <1>4, <2>3
    <3>3. requests[s].id \in Tasks
      BY <3>2 DEF Request
    <3>. QED
      BY <1>4, <3>1, <3>3 DEF SubmissionInv, SubmissionTypeOK, DbTypeOK
  <2>. QED
    BY <1>1, <1>2, <1>4, <1>5, <2>1, <2>3
       DEF SubmissionInv, SamplesKept, Running, RequestEnds, At, Found, Due, Settled, Reported
<1>. QED
  BY <1>6, <1>7, <1>8, <1>9, <1>10, <1>11, <1>12 DEF SubmissionInv

\* A row is inserted under the id of the request.
LEMMA InsertStep ==
    ASSUME SubmissionInv, NEW r \in Requests, NEW s \in {"known", "queued"},
           At(r, "insertKnown") \/ At(r, "inserting"),
           fod[requests[r].id] = None,
           NEW row \in FodRow, row.hash = requests[r].hash,
           requests' = [requests EXCEPT ![r].stage = s],
           fod' = [fod EXCEPT ![requests[r].id] = row],
           s = "queued" => ~requests[r].known /\ row.rating = "none",
           s = "known" => row.rating # "none" /\ row.verdict # "none",
           SubmissionTypeOK', OnePlace',
           \A t \in Tasks : live[t] # None => live'[t] # None,
           dup \subseteq dup',
           deletions' = deletions \cup (IF s = "known" THEN {requests[r].id} ELSE {}),
           UNCHANGED <<finished, files, overrides, queries, analysis>>
    PROVE  SubmissionInv'
<1>. DEFINE q == requests[r]
            id == q.id
            k == [q EXCEPT !.stage = s]
<1>1. q \in Request /\ q # None /\ id \in Tasks /\ q.stage \in {"insertKnown", "inserting"}
  BY AtRequest DEF At
<1>2. /\ k \in Request /\ k.stage = s /\ k.known = q.known /\ k.id = id /\ k.hash = q.hash
      /\ k.content = q.content /\ k.shared = q.shared
  BY <1>1 DEF Request, RequestEnds
<1>3. k # None /\ row # None
  BY <1>2, DbAssumption, SubmissionAssumption
<1>4. requests'[r] = k /\ \A p \in Requests \ {r} : requests'[p] = requests[p]
  BY DEF SubmissionInv, SubmissionTypeOK
<1>5. fod'[id] = row /\ \A t \in Tasks \ {id} : fod'[t] = fod[t]
  BY <1>1 DEF SubmissionInv, SubmissionTypeOK, DbTypeOK
<1>6. ~Settled(id) /\ \A t \in Tasks : Settled(t) => t # id /\ Settled(t)'
  BY <1>5 DEF Settled
<1>7. q.hash # NoHash /\ (~q.shared => q.hash = q.content /\ files[id] = q.content)
  BY <1>1 DEF SubmissionInv, RequestsCarry, SamplesKept, At, Found, Running, RequestEnds
<1>8. ~Stored(r)
  BY <1>1 DEF Stored, At
<1>. HIDE DEF k, q, id
<1>9. VerdictsGiven'
  <2>. SUFFICES ASSUME NEW t \in Tasks, Settled(t)' PROVE fod'[t].verdict # "none"
    BY DEF SubmissionInv, VerdictsGiven
  <2>1. CASE t = id
    BY <1>5, <2>1 DEF Settled
  <2>2. CASE t # id
    BY <1>5, <2>2 DEF Settled, SubmissionInv, VerdictsGiven
  <2>. QED
    BY <2>1, <2>2
<1>10. AnalysisCurrent'
  BY DEF SubmissionInv, AnalysisCurrent, SubmissionTypeOK, Analysis
<1>11. DeletionsDue'
  <2>. SUFFICES ASSUME NEW t \in deletions' PROVE fod'[t] # None /\ (Settled(t) \/ Reported(t))'
    BY DEF DeletionsDue
  <2>1. CASE t \in deletions
    <3>1. t \in Tasks /\ fod[t] # None /\ (Settled(t) \/ Reported(t))
      BY <2>1 DEF SubmissionInv, DeletionsDue, SubmissionTypeOK
    <3>2. fod'[t] = fod[t]
      BY <1>5, <3>1 DEF id, q
    <3>. QED
      BY <3>1, <3>2 DEF Settled, Reported
  <2>2. CASE t = id /\ s = "known"
    BY <1>3, <1>5, <2>2 DEF Settled
  <2>. QED
    BY <2>1, <2>2 DEF id, q
<1>12. IdsInOrder'
  <2>1. PICK n \in 1 .. MaxTask + 1 : \A t \in Tasks : fod[t] # None <=> t < n
    BY DEF SubmissionInv, IdsInOrder
  <2>2. \A t \in Tasks : t < id => fod[t] # None
    BY <1>1 DEF SubmissionInv, IdsInOrder, id, q
  <2>3. n = id
    <3>1. ~(id < n)
      BY <1>1, <2>1 DEF id, q
    <3>2. ~(n < id)
      BY <1>1, <2>1, <2>2, DbAssumption DEF Tasks
    <3>. QED
      BY <1>1, <3>1, <3>2, DbAssumption DEF Tasks
  <2>4. n + 1 \in 1 .. MaxTask + 1
    BY <1>1, <2>3, DbAssumption DEF Tasks
  <2>5. \A t \in Tasks : fod'[t] # None <=> t < n + 1
    BY <1>1, <1>3, <1>5, <2>1, <2>3, DbAssumption DEF Tasks
  <2>6. \A t \in Tasks : fod[t] # None => fod'[t] # None
    BY <1>3, <1>5
  <2>7. \A p \in Requests : requests'[p] # None =>
           requests[p] # None /\ requests'[p].id = requests[p].id
    BY <1>1, <1>2, <1>4 DEF q, id
  <2>. QED
    BY <2>4, <2>5, <2>6, <2>7 DEF SubmissionInv, IdsInOrder
<1>13. RowsOwned'
  <2>1. Stored(r)' /\ requests'[r].id = id
    BY <1>2, <1>3, <1>4 DEF Stored, At
  <2>2. \A p \in Requests \ {r} : (Stored(p)' <=> Stored(p)) /\ requests'[p].id = requests[p].id
    BY <1>4 DEF Stored, At
  <2>3. ASSUME NEW t \in Tasks, fod'[t] # None
        PROVE  \E p \in Requests : Stored(p)' /\ requests'[p].id = t
    <3>1. CASE t = id
      BY <2>1, <3>1
    <3>2. CASE t # id
      <4>1. PICK p \in Requests : Stored(p) /\ requests[p].id = t
        BY <1>5, <2>3, <3>2 DEF SubmissionInv, RowsOwned
      <4>. QED
        BY <1>8, <2>2, <4>1
    <3>. QED
      BY <3>1, <3>2
  <2>4. ASSUME NEW p \in Requests, Stored(p)' PROVE fod'[requests'[p].id] # None
    <3>1. CASE p = r
      BY <1>3, <1>5, <2>1, <3>1
    <3>2. CASE p # r
      <4>1. requests[p] \in Request /\ Stored(p) /\ fod[requests[p].id] # None
        BY <2>2, <2>4, <3>2 DEF SubmissionInv, RowsOwned, SubmissionTypeOK, Stored, At
      <4>2. requests[p].id \in Tasks
        BY <4>1 DEF Request
      <4>. QED
        BY <1>3, <1>5, <2>2, <3>2, <4>1, <4>2
    <3>. QED
      BY <3>1, <3>2
  <2>. QED
    BY <2>3, <2>4 DEF RowsOwned
<1>14. UnsharedAlone'
  BY <1>1, <1>2, <1>4 DEF SubmissionInv, UnsharedAlone, q, id
<1>15. RequestsCarry'
  BY <1>1, <1>2, <1>4, <1>7 DEF SubmissionInv, RequestsCarry, Found, At
<1>16. KnownFound'
  <2>1. ASSUME NEW p \in Requests, requests'[p] # None, requests'[p].known
        PROVE  /\ requests'[p].stage \notin {"counting", "inserting", "queued"}
               /\ At(p, "isClean")' => SettledAs(requests[p].hash, {"allow", "block"})
               /\ At(p, "isMalware")' => SettledAs(requests[p].hash, {"block"})
               /\ requests'[p].hash = requests[p].hash
    BY <1>1, <1>2, <1>4, <2>1 DEF SubmissionInv, KnownFound, At, q
  <2>2. ASSUME NEW p \in Requests, requests'[p] # None, requests'[p].known
        PROVE  /\ requests'[p].stage \notin {"counting", "inserting", "queued"}
               /\ At(p, "isClean")' => SettledAs(requests[p].hash, {"allow", "block"})'
               /\ At(p, "isMalware")' => SettledAs(requests[p].hash, {"block"})'
    BY <2>1, <2>2, <1>5, <1>6 DEF SettledAs
  <2>3. ASSUME NEW f \in Firewalls, queries[f] # None, queries[f].known
        PROVE  /\ queries[f].stage # "empty"
               /\ queries[f].stage = "isClean" =>
                     queries[f].malware \/ SettledAs(queries[f].hash, {"allow"})'
    BY <1>5, <1>6, <2>3 DEF SubmissionInv, KnownFound, SettledAs
  <2>. QED
    BY <2>2, <2>3 DEF KnownFound
<1>17. SamplesKept'
  <2>1. ASSUME NEW p \in Requests \ {r}, requests[p] # None, ~requests[p].shared,
               requests[p].stage # "failed", requests[p].id = id
        PROVE  FALSE
    BY <1>1, <2>1 DEF SubmissionInv, UnsharedAlone, q, id
  <2>2. ASSUME NEW p \in Requests \ {r}, requests[p] # None, ~requests[p].shared
        PROVE  /\ (Running(p) /\ ~At(p, "storing")) \/ (At(p, "queued") /\ ~Due(requests[p].id)')
                  => files[requests[p].id] = requests[p].content
               /\ At(p, "queued") => fod'[requests[p].id].hash = requests[p].content
    <3>1. requests[p].id \in Tasks
      <4>1. requests[p] \in Request
        BY <2>2 DEF SubmissionInv, SubmissionTypeOK
      <4>. QED
        BY <4>1 DEF Request
    <3>2. At(p, "queued") => requests[p].id # id
      BY <2>1, <2>2 DEF At
    <3>3. Due(requests[p].id) /\ requests[p].id # id => Due(requests[p].id)'
      BY <1>5, <3>1 DEF Due, Settled, Reported
    <3>. QED
      BY <1>5, <2>2, <3>1, <3>2, <3>3 DEF SubmissionInv, SamplesKept
  <2>. QED
    BY <1>2, <1>4, <1>5, <1>7, <2>2
       DEF SubmissionInv, SamplesKept, Running, RequestEnds, At, Found, q, id
<1>. QED
  BY <1>9, <1>10, <1>11, <1>12, <1>13, <1>14, <1>15, <1>16, <1>17 DEF SubmissionInv

LEMMA InsertKnownInv ==
    ASSUME SubmissionInv, NEW r \in Requests, SubmitInsertKnown(r)
    PROVE  SubmissionInv'
<1>. DEFINE q == requests[r]
            row == [hash |-> q.hash, rating |-> q.rating, verdict |-> q.verdict]
            failed == [q EXCEPT !.stage = "counting", !.known = FALSE]
<1>1. q \in Request /\ At(r, "insertKnown") /\ q.id \in Tasks
  BY AtRequest DEF SubmitInsertKnown
<1>2. q.hash # NoHash /\ q.rating # "none" /\ q.verdict # "none"
  BY <1>1 DEF SubmissionInv, RequestsCarry, Found, At
<1>3. PICK ok \in StatementOutcomes :
        /\ IF Inserts(r, ok)
           THEN fod' = [fod EXCEPT ![q.id] = row] /\ GoesTo(r, "known")
           ELSE FailsTo(r, "counting") /\ UNCHANGED fod
        /\ deletions' = deletions \cup Discarded(r, Inserts(r, ok))
  BY DEF SubmitInsertKnown
<1>4. UNCHANGED <<live, dup, finished, files, overrides, queries, analysis>>
  BY DEF SubmitInsertKnown
<1>5. CASE ~Inserts(r, ok)
  <2>1. /\ failed \in Request /\ failed.stage = "counting" /\ failed.known = FALSE
        /\ failed.hash = q.hash /\ failed.id = q.id /\ failed.content = q.content
        /\ failed.shared = q.shared
    BY <1>1 DEF Request, RequestStages
  <2>2. requests' = [requests EXCEPT ![r] = failed]
    BY <1>3, <1>5 DEF FailsTo
  <2>. HIDE DEF failed
  <2>3. UNCHANGED <<dbVars, overrides, queries, analysis, deletions>>
    BY <1>3, <1>4, <1>5 DEF Discarded, dbVars
  <2>. QED
    BY <1>1, <2>1, <2>2, <2>3, UnknownStep
<1>6. CASE Inserts(r, ok)
  <2>1. row \in FodRow /\ row.hash = q.hash /\ row.rating = q.rating /\ row.verdict = q.verdict
    BY <1>1, <1>2 DEF Request, FodRow
  <2>. HIDE DEF row
  <2>2. /\ fod' = [fod EXCEPT ![q.id] = row] /\ requests' = [requests EXCEPT ![r].stage = "known"]
        /\ deletions' = deletions \cup {q.id} /\ fod[q.id] = None
    BY <1>3, <1>6 DEF GoesTo, Discarded, Inserts
  <2>3. SubmissionTypeOK'
    <3>1. [q EXCEPT !.stage = "known"] \in Request
      BY <1>1 DEF Request, RequestEnds
    <3>. QED
      BY <1>1, <1>4, <2>1, <2>2, <3>1 DEF SubmissionInv, SubmissionTypeOK, DbTypeOK
  <2>4. OnePlace'
    <3>1. row # None
      BY <2>1, DbAssumption
    <3>. QED
      BY <1>1, <1>2, <1>4, <2>1, <2>2, <3>1
         DEF SubmissionInv, SubmissionTypeOK, DbTypeOK, OnePlace, Settled
  <2>. HIDE DEF q
  <2>. QED
    BY <1>1, <1>2, <1>4, <2>1, <2>2, <2>3, <2>4, InsertStep DEF q
<1>. QED
  BY <1>5, <1>6

LEMMA InsertInv ==
    ASSUME SubmissionInv, NEW r \in Requests, SubmitInsert(r)
    PROVE  SubmissionInv'
<1>. DEFINE q == requests[r]
            row == [hash |-> q.hash, rating |-> "none", verdict |-> "none"]
            failed == [q EXCEPT !.stage = "failed", !.known = FALSE]
<1>1. q \in Request /\ At(r, "inserting") /\ q.id \in Tasks
  BY AtRequest DEF SubmitInsert
<1>2. q.hash \in Hashes /\ ~q.known
  BY <1>1 DEF SubmissionInv, RequestsCarry, KnownFound, At, Request
<1>3. PICK ok \in StatementOutcomes :
        IF Inserts(r, ok)
        THEN /\ fod' = [fod EXCEPT ![q.id] = row]
             /\ IF q.first
                THEN live' = [live EXCEPT ![q.id] = NewLiveRow(q.hash)] /\ UNCHANGED dup
                ELSE dup' = dup \cup {q.id} /\ UNCHANGED live
             /\ GoesTo(r, "queued")
        ELSE FailsTo(r, "failed") /\ UNCHANGED <<fod, live, dup>>
  BY DEF SubmitInsert
<1>4. UNCHANGED <<finished, files, overrides, queries, analysis, deletions>>
  BY DEF SubmitInsert
<1>5. CASE ~Inserts(r, ok)
  <2>1. /\ failed \in Request /\ failed.stage = "failed" /\ failed.known = FALSE
        /\ failed.hash = q.hash /\ failed.id = q.id /\ failed.content = q.content
        /\ failed.shared = q.shared
    BY <1>1 DEF Request, RequestEnds
  <2>2. requests' = [requests EXCEPT ![r] = failed]
    BY <1>3, <1>5 DEF FailsTo
  <2>. HIDE DEF failed
  <2>3. UNCHANGED <<dbVars, overrides, queries, analysis, deletions>>
    BY <1>3, <1>4, <1>5 DEF dbVars
  <2>. QED
    BY <1>1, <2>1, <2>2, <2>3, UnknownStep
<1>6. CASE Inserts(r, ok)
  <2>1. row \in FodRow /\ row.hash = q.hash /\ row.rating = "none" /\ row # None
    BY <1>2, DbAssumption DEF FodRow, Ratings, Verdicts
  <2>. HIDE DEF row
  <2>2. /\ fod' = [fod EXCEPT ![q.id] = row] /\ requests' = [requests EXCEPT ![r].stage = "queued"]
        /\ deletions' = deletions /\ fod[q.id] = None
    BY <1>3, <1>4, <1>6 DEF GoesTo, Inserts
  <2>3. NewLiveRow(q.hash) \in RowOver(LiveStatuses) /\ NewLiveRow(q.hash) # None
    <3>1. NewLiveRow(q.hash) \in RowOver(LiveStatuses)
      BY <1>2 DEF NewLiveRow, RowOver, LiveStatuses
    <3>. QED
      BY <3>1, DbAssumption
  <2>4. \/ live' = [live EXCEPT ![q.id] = NewLiveRow(q.hash)] /\ dup' = dup
        \/ dup' = dup \cup {q.id} /\ live' = live
    BY <1>3, <1>6
  <2>5. SubmissionTypeOK'
    <3>1. [q EXCEPT !.stage = "queued"] \in Request
      BY <1>1 DEF Request, RequestEnds
    <3>. QED
      BY <1>1, <1>4, <2>1, <2>2, <2>3, <2>4, <3>1 DEF SubmissionInv, SubmissionTypeOK, DbTypeOK
  <2>6. \A t \in Tasks : /\ live'[t] # None => live[t] # None \/ t = q.id
                         /\ live[t] # None => live'[t] # None
                         /\ live'[q.id] # None \/ q.id \in dup'
                         /\ ~(live'[q.id] # None /\ q.id \in dup')
    <3>1. live[q.id] = None /\ q.id \notin dup
      BY <1>1, <2>2 DEF SubmissionInv, OnePlace
    <3>. QED
      BY <1>1, <2>3, <2>4, <3>1 DEF SubmissionInv, SubmissionTypeOK, DbTypeOK
  <2>7. dup \subseteq dup' /\ \A t \in dup' : t \in dup \/ t = q.id
    BY <2>4
  <2>8. OnePlace'
    <3>. SUFFICES ASSUME NEW t \in Tasks
                  PROVE  /\ live'[t] # None => t \notin dup' /\ ~Settled(t)' /\ fod'[t] # None
                         /\ t \in dup' => ~Settled(t)' /\ fod'[t] # None
                         /\ finished'[t] > 0 => Settled(t)'
                         /\ fod'[t] # None => live'[t] # None \/ t \in dup' \/ Settled(t)'
      BY DEF OnePlace
    <3>1. fod'[q.id] = row /\ (t # q.id => fod'[t] = fod[t])
      BY <1>1, <2>2 DEF SubmissionInv, SubmissionTypeOK, DbTypeOK
    <3>2. CASE t = q.id
      BY <1>1, <1>4, <2>1, <2>2, <2>6, <3>1, <3>2 DEF SubmissionInv, OnePlace, Settled
    <3>3. CASE t # q.id
      BY <1>4, <2>6, <2>7, <3>1, <3>3 DEF SubmissionInv, OnePlace, Settled
    <3>. QED
      BY <3>2, <3>3
  <2>. HIDE DEF q
  <2>. QED
    BY <1>1, <1>2, <1>4, <2>1, <2>2, <2>5, <2>6, <2>7, <2>8, InsertStep DEF q
<1>. QED
  BY <1>5, <1>6

\* A deletion that is due finds no unshared request still in need of the sample.
LEMMA DeleteInv ==
    ASSUME SubmissionInv, NEW t \in Tasks, DeleteLocalTask(t)
    PROVE  SubmissionInv'
<1>1. /\ t \in deletions /\ deletions' = deletions \ {t}
      /\ files' = [files EXCEPT ![t] = None]
      /\ UNCHANGED <<fod, live, dup, finished, requests, overrides, queries, analysis>>
  BY DEF DeleteLocalTask
<1>2. SubmissionTypeOK' /\ OnePlace' /\ VerdictsGiven' /\ AnalysisCurrent' /\ IdsInOrder'
      /\ DeletionsDue'
  BY <1>1 DEF SubmissionInv, SubmissionTypeOK, DbTypeOK, OnePlace, Settled, VerdictsGiven,
              AnalysisCurrent, IdsInOrder, DeletionsDue, Reported
<1>3. RowsOwned' /\ UnsharedAlone' /\ RequestsCarry' /\ KnownFound'
  BY <1>1 DEF SubmissionInv, RowsOwned, Stored, At, UnsharedAlone, RequestsCarry, Found, KnownFound,
              SettledAs, Settled
<1>4. fod[t] # None /\ Due(t)
  BY <1>1 DEF SubmissionInv, DeletionsDue, Due
<1>5. ASSUME NEW r \in Requests, requests[r] # None, ~requests[r].shared,
             (Running(r) /\ ~At(r, "storing")) \/ (At(r, "queued") /\ ~Due(requests[r].id))
      PROVE  requests[r].id # t
  <2>1. CASE At(r, "queued") /\ ~Due(requests[r].id)
    BY <1>4, <2>1
  <2>2. CASE Running(r)
    <3>1. PICK s \in Requests : Stored(s) /\ requests[s].id = t
      BY <1>4 DEF SubmissionInv, RowsOwned
    <3>2. ~Stored(r)
      BY <2>2 DEF Stored, At, Running, RequestEnds
    <3>. QED
      BY <1>5, <2>2, <3>1, <3>2
         DEF SubmissionInv, UnsharedAlone, Stored, At, Running, RequestEnds
  <2>. QED
    BY <1>5, <2>1, <2>2
<1>6. SamplesKept'
  <2>1. ASSUME NEW r \in Requests, requests[r] # None
        PROVE  requests[r].id # t => files'[requests[r].id] = files[requests[r].id]
    BY <1>1 DEF SubmissionInv, SubmissionTypeOK, DbTypeOK
  <2>. QED
    BY <1>1, <1>5, <2>1 DEF SubmissionInv, SamplesKept, Running, At, Found, Due, Settled, Reported
<1>. QED
  BY <1>2, <1>3, <1>6 DEF SubmissionInv

-----------------------------------------------------------------------------
(* Overrides and queries.                                                  *)

LEMMA OverrideReadInv ==
    ASSUME SubmissionInv, NEW a \in Admins, NEW t \in Tasks, NEW v \in {"allow", "block"},
           OverrideRead(a, t, v)
    PROVE  SubmissionInv'
<1>. DEFINE o == [hash |-> fod[t].hash, verdict |-> v, done |-> FALSE]
<1>1. /\ overrides' = [overrides EXCEPT ![a] = o] /\ Settled(t)
      /\ UNCHANGED <<dbVars, requests, queries, analysis, deletions>>
  BY DEF OverrideRead
<1>2. fod[t] \in FodRow
  BY <1>1 DEF Settled, SubmissionInv, SubmissionTypeOK, DbTypeOK
<1>3. o \in [hash : Hashes, verdict : Verdicts, done : BOOLEAN] /\ o.verdict = v
  BY <1>2 DEF FodRow, Verdicts
<1>. HIDE DEF o
<1>4. SubmissionTypeOK' /\ VerdictsGiven' /\ KnownFound'
  BY <1>1, <1>3 DEF SubmissionInv, SubmissionTypeOK, DbTypeOK, VerdictsGiven, KnownFound,
                    SettledAs, Settled, At, dbVars
<1>. QED
  BY <1>1, <1>4, RequestsSame DEF SubmissionInv

\* An override only clears the history variable of the look-ups it disturbs.
LEMMA DisturbedEffect ==
    ASSUME NEW rs, NEW h, NEW x \in DOMAIN rs
    PROVE  /\ rs[x] = None => Disturbed(rs, h)[x] = None
           /\ rs[x] # None => \/ Disturbed(rs, h)[x] = [rs[x] EXCEPT !.known = FALSE]
                              \/ Disturbed(rs, h)[x] = rs[x] /\ rs[x].hash # h
BY DEF Disturbed

LEMMA OverrideWriteInv ==
    ASSUME SubmissionInv, NEW a \in Admins, OverrideWrite(a)
    PROVE  SubmissionInv'
<1>. DEFINE o == overrides[a]
            o2 == [o EXCEPT !.done = TRUE]
            Overrides == [hash : Hashes, verdict : Verdicts, done : BOOLEAN]
            Queries == [stage : {"isClean", "empty", "clean", "block"}, hash : Hashes,
                        malware : BOOLEAN, known : BOOLEAN]
<1>1. o \in Overrides /\ o.verdict # "none" /\ o # None
  BY DEF OverrideWrite, SubmissionInv, SubmissionTypeOK, VerdictsGiven
<1>2. o2 \in Overrides /\ o2.verdict = o.verdict
  BY <1>1
<1>3. /\ overrides' = [overrides EXCEPT ![a] = o2]
      /\ UNCHANGED <<live, dup, finished, files, analysis, deletions>>
  BY DEF OverrideWrite
<1>. HIDE DEF o2
<1>4. CASE UNCHANGED <<fod, requests, queries>>
  <2>1. SubmissionTypeOK' /\ VerdictsGiven' /\ KnownFound'
    BY <1>1, <1>2, <1>3, <1>4 DEF SubmissionInv, SubmissionTypeOK, DbTypeOK, VerdictsGiven,
       KnownFound, SettledAs, Settled, At
  <2>2. UNCHANGED dbVars
    BY <1>3, <1>4 DEF dbVars
  <2>. QED
    BY <1>3, <1>4, <2>1, <2>2, RequestsSame DEF SubmissionInv
<1>5. CASE /\ fod' = [t \in Tasks |-> IF t \in FilesOf(o.hash)
                                     THEN [fod[t] EXCEPT !.verdict = o.verdict] ELSE fod[t]]
           /\ requests' = Disturbed(requests, o.hash)
           /\ queries' = Disturbed(queries, o.hash)
  <2>1. \A t \in Tasks : /\ fod'[t] # None <=> fod[t] # None
                         /\ fod'[t] \in FodRow \cup {None}
                         /\ fod[t] # None =>
                              /\ fod'[t].hash = fod[t].hash /\ fod'[t].rating = fod[t].rating
                              /\ fod'[t].verdict \in {fod[t].verdict, o.verdict}
                              /\ fod[t].hash # o.hash => fod'[t] = fod[t]
    <3>. SUFFICES ASSUME NEW t \in Tasks
                  PROVE  /\ fod'[t] # None <=> fod[t] # None
                         /\ fod'[t] \in FodRow \cup {None}
                         /\ fod[t] # None =>
                              /\ fod'[t].hash = fod[t].hash /\ fod'[t].rating = fod[t].rating
                              /\ fod'[t].verdict \in {fod[t].verdict, o.verdict}
                              /\ fod[t].hash # o.hash => fod'[t] = fod[t]
      OBVIOUS
    <3>1. fod[t] \in FodRow \cup {None}
      BY DEF SubmissionInv, SubmissionTypeOK, DbTypeOK
    <3>2. CASE t \in FilesOf(o.hash)
      <4>. DEFINE row == [fod[t] EXCEPT !.verdict = o.verdict]
      <4>1. fod[t] \in FodRow /\ fod[t] # None /\ fod[t].hash = o.hash /\ fod'[t] = row
        BY <1>5, <3>1, <3>2 DEF FilesOf
      <4>2. /\ row \in FodRow /\ row.hash = fod[t].hash /\ row.rating = fod[t].rating
            /\ row.verdict = o.verdict
        BY <1>1, <4>1 DEF FodRow
      <4>. HIDE DEF row
      <4>. QED
        BY <4>1, <4>2, DbAssumption
    <3>3. CASE t \notin FilesOf(o.hash)
      BY <1>5, <3>1, <3>3
    <3>. QED
      BY <3>2, <3>3
  <2>2. \A t \in Tasks : Settled(t)' <=> Settled(t)
    BY <2>1 DEF Settled
  <2>3. \A r \in Requests :
          /\ requests'[r] # None <=> requests[r] # None
          /\ requests[r] # None =>
               /\ requests'[r] \in Request
               /\ requests'[r].stage = requests[r].stage /\ requests'[r].id = requests[r].id
               /\ requests'[r].content = requests[r].content
               /\ requests'[r].hash = requests[r].hash
               /\ requests'[r].rating = requests[r].rating
               /\ requests'[r].verdict = requests[r].verdict
               /\ requests'[r].shared = requests[r].shared
               /\ requests'[r].known => requests[r].known /\ requests[r].hash # o.hash
    <3>. SUFFICES ASSUME NEW r \in Requests
                  PROVE  /\ requests'[r] # None <=> requests[r] # None
                         /\ requests[r] # None =>
                              /\ requests'[r] \in Request
                              /\ requests'[r].stage = requests[r].stage
                              /\ requests'[r].id = requests[r].id
                              /\ requests'[r].content = requests[r].content
                              /\ requests'[r].hash = requests[r].hash
                              /\ requests'[r].rating = requests[r].rating
                              /\ requests'[r].verdict = requests[r].verdict
                              /\ requests'[r].shared = requests[r].shared
                              /\ requests'[r].known => requests[r].known /\ requests[r].hash # o.hash
      OBVIOUS
    <3>. DEFINE q == requests[r]
                k == [q EXCEPT !.known = FALSE]
    <3>1. requests \in [Requests -> Request \cup {None}] /\ r \in DOMAIN requests
      BY DEF SubmissionInv, SubmissionTypeOK
    <3>2. CASE q = None
      <4>1. requests'[r] = None
        BY <1>5, <3>1, <3>2 DEF Disturbed
      <4>. QED
        BY <3>2, <4>1
    <3>3. CASE q # None
      <4>1. q \in Request
        BY <3>1, <3>3
      <4>2. /\ k \in Request /\ k.stage = q.stage /\ k.id = q.id /\ k.content = q.content
            /\ k.hash = q.hash /\ k.rating = q.rating /\ k.verdict = q.verdict
            /\ k.shared = q.shared /\ ~k.known
        BY <4>1 DEF Request
      <4>3. requests'[r] = k \/ (requests'[r] = q /\ q.hash # o.hash)
        BY <1>5, <3>1, <3>3, DisturbedEffect
      <4>. HIDE DEF k
      <4>. QED
        BY <3>3, <4>1, <4>2, <4>3, SubmissionAssumption
    <3>. QED
      BY <3>2, <3>3
  <2>4. \A f \in Firewalls :
          /\ queries'[f] \in Queries \cup {None}
          /\ queries'[f] # None =>
               /\ queries[f] # None
               /\ queries'[f].known =>
                    queries'[f] = queries[f] /\ queries[f].known /\ queries[f].hash # o.hash
    <3>. SUFFICES ASSUME NEW f \in Firewalls
                  PROVE  /\ queries'[f] \in Queries \cup {None}
                         /\ queries'[f] # None =>
                              /\ queries[f] # None
                              /\ queries'[f].known => /\ queries'[f] = queries[f] /\ queries[f].known
                                                      /\ queries[f].hash # o.hash
      OBVIOUS
    <3>. DEFINE q == queries[f]
                k == [q EXCEPT !.known = FALSE]
    <3>1. queries \in [Firewalls -> Queries \cup {None}] /\ f \in DOMAIN queries
      BY DEF SubmissionInv, SubmissionTypeOK
    <3>2. CASE q = None
      <4>1. queries'[f] = None
        BY <1>5, <3>1, <3>2 DEF Disturbed
      <4>. QED
        BY <3>2, <4>1
    <3>3. CASE q # None
      <4>1. q \in Queries
        BY <3>1, <3>3
      <4>2. k \in Queries /\ ~k.known
        BY <4>1
      <4>3. queries'[f] = k \/ (queries'[f] = q /\ q.hash # o.hash)
        BY <1>5, <3>1, <3>3, DisturbedEffect
      <4>. HIDE DEF k
      <4>. QED
        BY <3>3, <4>1, <4>2, <4>3
    <3>. QED
      BY <3>2, <3>3
  <2>. HIDE DEF o
  <2>5. SubmissionTypeOK'
    <3>1. fod' \in [Tasks -> FodRow \cup {None}]
      BY <1>5, <2>1
    <3>2. requests' \in [Requests -> Request \cup {None}]
      BY <1>5, <2>3 DEF Disturbed, SubmissionInv, SubmissionTypeOK
    <3>3. queries' \in [Firewalls -> Queries \cup {None}]
      BY <1>5, <2>4 DEF Disturbed, SubmissionInv, SubmissionTypeOK
    <3>. QED
      BY <1>2, <1>3, <3>1, <3>2, <3>3 DEF SubmissionInv, SubmissionTypeOK, DbTypeOK
  <2>6. OnePlace' /\ AnalysisCurrent' /\ DeletionsDue'
    <3>1. deletions \subseteq Tasks
      BY DEF SubmissionInv, SubmissionTypeOK
    <3>. QED
      BY <1>3, <2>1, <2>2, <3>1 DEF SubmissionInv, OnePlace, AnalysisCurrent, DeletionsDue, Reported
  <2>7. VerdictsGiven'
    <3>1. ASSUME NEW t \in Tasks, Settled(t)' PROVE fod'[t].verdict # "none"
      BY <1>1, <2>1, <2>2, <3>1 DEF SubmissionInv, VerdictsGiven, Settled, o
    <3>2. ASSUME NEW b \in Admins, overrides'[b] # None PROVE overrides'[b].verdict # "none"
      BY <1>1, <1>2, <1>3, <3>2 DEF SubmissionInv, SubmissionTypeOK, VerdictsGiven, o
    <3>. QED
      BY <3>1, <3>2 DEF VerdictsGiven
  <2>8. IdsInOrder' /\ UnsharedAlone'
    BY <2>1, <2>3 DEF SubmissionInv, IdsInOrder, UnsharedAlone
  <2>9. RowsOwned'
    <3>1. \A r \in Requests : (Stored(r)' <=> Stored(r)) /\ (Stored(r) => requests'[r].id = requests[r].id)
      BY <2>3 DEF Stored, At
    <3>2. \A r \in Requests : Stored(r) => requests[r].id \in Tasks
      <4>1. \A r \in Requests : Stored(r) => requests[r] \in Request
        BY DEF Stored, At, SubmissionInv, SubmissionTypeOK
      <4>. QED
        BY <4>1 DEF Request
    <3>. QED
      BY <2>1, <3>1, <3>2 DEF SubmissionInv, RowsOwned
  <2>10. RequestsCarry'
    BY <2>3 DEF SubmissionInv, RequestsCarry, Found, At
  <2>11. KnownFound'
    <3>1. ASSUME NEW h, NEW V, h # o.hash, SettledAs(h, V)
          PROVE  \E t \in Tasks : Settled(t)' /\ fod'[t].hash = h /\ fod'[t].verdict \in V
      BY <2>1, <2>2, <3>1 DEF SettledAs, Settled
    <3>2. ASSUME NEW r \in Requests, requests'[r] # None, requests'[r].known
          PROVE  /\ requests'[r].stage \notin {"counting", "inserting", "queued"}
                 /\ At(r, "isClean")' => SettledAs(requests[r].hash, {"allow", "block"})
                 /\ At(r, "isMalware")' => SettledAs(requests[r].hash, {"block"})
                 /\ requests'[r].hash = requests[r].hash /\ requests[r].hash # o.hash
      BY <2>3, <3>2 DEF SubmissionInv, KnownFound, At
    <3>3. ASSUME NEW r \in Requests, requests'[r] # None, requests'[r].known
          PROVE  /\ requests'[r].stage \notin {"counting", "inserting", "queued"}
                 /\ At(r, "isClean")' => SettledAs(requests[r].hash, {"allow", "block"})'
                 /\ At(r, "isMalware")' => SettledAs(requests[r].hash, {"block"})'
      BY <2>1, <2>2, <3>2, <3>3 DEF SettledAs, Settled
    <3>4. ASSUME NEW f \in Firewalls, queries'[f] # None, queries'[f].known
          PROVE  /\ queries'[f].stage # "empty"
                 /\ queries'[f].stage = "isClean" =>
                       queries'[f].malware \/ SettledAs(queries[f].hash, {"allow"})
      BY <2>4, <3>4 DEF SubmissionInv, KnownFound
    <3>5. ASSUME NEW f \in Firewalls, queries'[f] # None, queries'[f].known
          PROVE  SettledAs(queries[f].hash, {"allow"}) => SettledAs(queries[f].hash, {"allow"})'
      BY <2>1, <2>2, <2>4, <3>5 DEF SettledAs, Settled
    <3>. QED
      BY <2>3, <2>4, <3>3, <3>4, <3>5 DEF KnownFound, SettledAs
  <2>12. SamplesKept'
    <3>1. \A r \in Requests : requests[r] # None => requests[r].id \in Tasks
      <4>1. \A r \in Requests : requests[r] # None => requests[r] \in Request
        BY DEF SubmissionInv, SubmissionTypeOK
      <4>. QED
        BY <4>1 DEF Request
    <3>2. ASSUME NEW r \in Requests, requests[r] # None, At(r, "queued")
          PROVE  fod'[requests[r].id].hash = fod[requests[r].id].hash
      BY <2>1, <3>1, <3>2 DEF SubmissionInv, RowsOwned, Stored
    <3>3. ASSUME NEW t \in Tasks PROVE Due(t)' <=> Due(t)
      BY <1>3, <2>2 DEF Due, Reported
    <3>. QED
      BY <1>3, <2>3, <3>1, <3>2, <3>3 DEF SubmissionInv, SamplesKept, Running, At, Found
  <2>. QED
    BY <2>5, <2>6, <2>7, <2>8, <2>9, <2>10, <2>11, <2>12 DEF SubmissionInv
<1>. QED
  BY <1>4, <1>5 DEF OverrideWrite

LEMMA QueryMalwareInv ==
    ASSUME SubmissionInv, NEW f \in Firewalls, NEW h \in Contents, QueryMalware(f, h)
    PROVE  SubmissionInv'
<1>. DEFINE malware == IsMalwareHashFromDb(h)
            known == SettledDigest(h)
            q == [stage |-> "isClean", hash |-> h, malware |-> malware, known |-> known]
            Queries == [stage : {"isClean", "empty", "clean", "block"}, hash : Hashes,
                        malware : BOOLEAN, known : BOOLEAN]
<1>1. /\ queries' = [queries EXCEPT ![f] = q]
      /\ UNCHANGED <<dbVars, requests, overrides, analysis, deletions>>
  BY DEF QueryMalware
<1>2. malware \in BOOLEAN /\ known \in BOOLEAN /\ h \in Hashes
  BY DEF IsMalwareHashFromDb, SettledDigest, Contents
<1>3. known /\ ~malware => SettledAs(h, {"allow"})
  <2>. SUFFICES ASSUME NEW t \in Tasks, Settled(t), fod[t].hash = h, ~malware
                PROVE  fod[t].verdict = "allow"
    BY DEF SettledDigest, SettledAs
  <2>1. fod[t] \in FodRow /\ fod[t].verdict # "none" /\ fod[t] # None
    BY DEF SubmissionInv, SubmissionTypeOK, DbTypeOK, Settled, VerdictsGiven
  <2>2. fod[t].verdict # "block"
    BY <2>1 DEF IsMalwareHashFromDb, RowsWith
  <2>. QED
    BY <2>1, <2>2 DEF FodRow, Verdicts
<1>. HIDE DEF malware, known
<1>4. q \in Queries
  BY <1>2
<1>5. q.stage = "isClean" /\ q.hash = h /\ (q.known => known) /\ (malware => q.malware)
  OBVIOUS
<1>. HIDE DEF q
<1>6. SubmissionTypeOK' /\ VerdictsGiven'
  BY <1>1, <1>4 DEF SubmissionInv, SubmissionTypeOK, DbTypeOK, VerdictsGiven, Settled, dbVars
<1>7. KnownFound'
  <2>1. ASSUME NEW g \in Firewalls, queries'[g] # None, queries'[g].known
        PROVE  /\ queries'[g].stage # "empty"
               /\ queries'[g].stage = "isClean" =>
                     queries'[g].malware \/ SettledAs(queries'[g].hash, {"allow"})
    <3>1. CASE g = f
      BY <1>1, <1>3, <1>5, <2>1, <3>1 DEF SubmissionInv, SubmissionTypeOK
    <3>2. CASE g # f
      BY <1>1, <2>1, <3>2 DEF SubmissionInv, SubmissionTypeOK, KnownFound
    <3>. QED
      BY <3>1, <3>2
  <2>. QED
    BY <1>1, <2>1 DEF SubmissionInv, KnownFound, SettledAs, Settled, At, dbVars
<1>. QED
  BY <1>1, <1>6, <1>7, RequestsSame DEF SubmissionInv

LEMMA QueryCleanInv ==
    ASSUME SubmissionInv, NEW f \in Firewalls, QueryClean(f)
    PROVE  SubmissionInv'
<1>. DEFINE q == queries[f]
            answered == [q EXCEPT !.stage = FirewallAnswer(q)]
            failed == [q EXCEPT !.stage = "empty", !.known = FALSE]
            Queries == [stage : {"isClean", "empty", "clean", "block"}, hash : Hashes,
                        malware : BOOLEAN, known : BOOLEAN]
<1>1. /\ q \in Queries /\ q # None /\ q.stage = "isClean"
      /\ UNCHANGED <<dbVars, requests, overrides, analysis, deletions>>
  BY DEF QueryClean, SubmissionInv, SubmissionTypeOK
<1>2. FirewallAnswer(q) \in {"empty", "clean", "block"}
  BY DEF FirewallAnswer
<1>3. q.known => FirewallAnswer(q) # "empty"
  <2>1. q.known => q.malware \/ SettledAs(q.hash, {"allow"})
    BY <1>1 DEF SubmissionInv, KnownFound
  <2>2. SettledAs(q.hash, {"allow"}) => IsCleanHashFromDb(q.hash)
    BY DEF SettledAs, Settled, IsCleanHashFromDb, RowsWith
  <2>. QED
    BY <2>1, <2>2 DEF FirewallAnswer
<1>4. PICK k \in Queries : /\ queries' = [queries EXCEPT ![f] = k]
                           /\ k.stage # "isClean"
                           /\ k.known => k.stage # "empty"
  <2>1. CASE queries' = [queries EXCEPT ![f] = answered]
    <3>1. answered \in Queries /\ answered.stage = FirewallAnswer(q) /\ answered.known = q.known
      BY <1>1, <1>2
    <3>. HIDE DEF answered
    <3>. QED
      BY <1>2, <1>3, <2>1, <3>1
  <2>2. CASE queries' = [queries EXCEPT ![f] = failed]
    <3>1. failed \in Queries /\ failed.stage = "empty" /\ ~failed.known
      BY <1>1
    <3>. HIDE DEF failed
    <3>. QED
      BY <2>2, <3>1
  <2>. QED
    BY <2>1, <2>2 DEF QueryClean
<1>5. SubmissionTypeOK' /\ VerdictsGiven'
  BY <1>1, <1>4 DEF SubmissionInv, SubmissionTypeOK, DbTypeOK, VerdictsGiven, Settled, dbVars
<1>6. KnownFound'
  <2>1. ASSUME NEW g \in Firewalls, queries'[g] # None, queries'[g].known
        PROVE  /\ queries'[g].stage # "empty"
               /\ queries'[g].stage = "isClean" =>
                     queries'[g].malware \/ SettledAs(queries'[g].hash, {"allow"})
    <3>1. CASE g = f
      BY <1>4, <2>1, <3>1 DEF SubmissionInv, SubmissionTypeOK
    <3>2. CASE g # f
      BY <1>4, <2>1, <3>2 DEF SubmissionInv, SubmissionTypeOK, KnownFound
    <3>. QED
      BY <3>1, <3>2
  <2>. QED
    BY <1>1, <2>1 DEF SubmissionInv, KnownFound, SettledAs, Settled, At, dbVars
<1>. QED
  BY <1>1, <1>5, <1>6, RequestsSame DEF SubmissionInv

-----------------------------------------------------------------------------
(* The analysis.                                                           *)

LEMMA AnalysisReadInv ==
    ASSUME SubmissionInv, NEW t \in Tasks, AnalysisRead(t)
    PROVE  SubmissionInv'
<1>1. PICK aborted \in BOOLEAN, score \in Scores :
        LET same == DuplicatesOf(live[t].hash)
            dups == IF aborted THEN LowestOf(same) ELSE same
        IN  /\ aborted => score = 0
            /\ analysis' = [task |-> t, aborted |-> aborted, score |-> score, dups |-> dups]
            /\ deletions' = deletions \cup (IF aborted THEN {} ELSE dups)
  BY DEF AnalysisRead
<1>. DEFINE same == DuplicatesOf(live[t].hash)
            dups == IF aborted THEN LowestOf(same) ELSE same
            k == [task |-> t, aborted |-> aborted, score |-> score, dups |-> dups]
<1>2. /\ analysis = None /\ live[t] # None
      /\ UNCHANGED <<dbVars, requests, overrides, queries>>
  BY DEF AnalysisRead
<1>3. dups \subseteq dup /\ dup \subseteq Tasks
  BY DEF DuplicatesOf, LowestOf, SubmissionInv, SubmissionTypeOK, DbTypeOK
<1>4. analysis' = k /\ deletions' = deletions \cup (IF aborted THEN {} ELSE dups)
  BY <1>1
<1>. HIDE DEF same, dups
<1>5. k \in Analysis /\ k.task = t /\ k.dups = dups /\ k.aborted = aborted
  BY <1>3 DEF Analysis
<1>. HIDE DEF k
<1>6. k # None
  BY <1>5, SubmissionAssumption
<1>7. SubmissionTypeOK' /\ OnePlace' /\ VerdictsGiven' /\ IdsInOrder'
  BY <1>2, <1>3, <1>4, <1>5 DEF SubmissionInv, SubmissionTypeOK, DbTypeOK, OnePlace, Settled,
        VerdictsGiven, IdsInOrder, dbVars
<1>8. RowsOwned' /\ UnsharedAlone' /\ RequestsCarry' /\ KnownFound'
  BY <1>2 DEF SubmissionInv, RowsOwned, Stored, At, UnsharedAlone, RequestsCarry, Found, KnownFound,
              SettledAs, Settled, dbVars
<1>9. AnalysisCurrent'
  BY <1>2, <1>3, <1>4, <1>5 DEF AnalysisCurrent, dbVars
<1>10. DeletionsDue'
  <2>1. ASSUME NEW d \in deletions PROVE fod[d] # None /\ Settled(d)
    BY <1>2, <2>1 DEF SubmissionInv, DeletionsDue, Reported
  <2>2. ASSUME NEW d \in dups PROVE fod[d] # None
    BY <1>3, <2>2 DEF SubmissionInv, OnePlace
  <2>. QED
    BY <1>2, <1>4, <1>5, <1>6, <2>1, <2>2 DEF DeletionsDue, Reported, Settled, dbVars
<1>11. SamplesKept'
  <2>1. ASSUME NEW d \in Tasks, ~Due(d)' PROVE ~Due(d)
    BY <1>2, <2>1 DEF Due, Settled, Reported, dbVars
  <2>2. \A r \in Requests : requests[r] # None => requests[r].id \in Tasks
    <3>1. \A r \in Requests : requests[r] # None => requests[r] \in Request
      BY DEF SubmissionInv, SubmissionTypeOK
    <3>. QED
      BY <3>1 DEF Request
  <2>. QED
    BY <1>2, <2>1, <2>2 DEF SubmissionInv, SamplesKept, Running, At, Found, dbVars
<1>. QED
  BY <1>7, <1>8, <1>9, <1>10, <1>11 DEF SubmissionInv

\* The transaction rates files that had no verdict, and no other.
LEMMA SettleEffect ==
    ASSUME SubmissionInv, AnalysisSettle
    PROVE  /\ DbTypeOK' /\ OnePlace'
           /\ \A t \in Tasks :
                /\ fod'[t] = None <=> fod[t] = None
                /\ fod[t] # None => fod'[t].hash = fod[t].hash
                /\ Settled(t) => fod'[t] = fod[t]
                /\ Settled(t)' /\ ~Settled(t) => fod'[t].verdict # "none"
                /\ Due(t) => Settled(t)'
           /\ fod'[analysis.task] # None /\ fod'[analysis.task].rating # "none"
           /\ analysis.task \in Tasks
<1>. DEFINE k == analysis
<1>1. k \in Analysis /\ live[k.task] # None /\ k.dups \subseteq dup
  BY DEF AnalysisSettle, SubmissionInv, SubmissionTypeOK, AnalysisCurrent
<1>2. k.task \in KnownIds /\ k.score \in Scores /\ k.task \in Tasks /\ DbTypeOK /\ OnePlace
  BY <1>1 DEF Analysis, KnownIds, SubmissionInv, SubmissionTypeOK, OnePlace
<1>3. \A t \in k.dups \cup {k.task} : fod[t] # None /\ ~Settled(t) /\ t \in Tasks
  BY <1>1, <1>2 DEF OnePlace, DbTypeOK
<1>. HIDE DEF k
<1>4. CASE Finish(k.task, k.dups, k.score) /\ ~k.aborted
  <2>1. DbTypeOK' /\ OnePlace'
    BY <1>1, <1>2, <1>4, FinishType, FinishOnePlace DEF AnalysisSettle
  <2>2. fod' = UpdateFod(fod, {k.task} \cup k.dups, k.score)
    BY <1>4 DEF Finish
  <2>3. \A t \in Tasks :
          /\ fod'[t] = None <=> fod[t] = None
          /\ fod[t] # None => fod'[t].hash = fod[t].hash
          /\ t \in {k.task} \cup k.dups => fod'[t].rating # "none" /\ fod'[t].verdict # "none"
          /\ t \notin {k.task} \cup k.dups => fod'[t] = fod[t]
    BY <1>2, <1>3, <2>2, UpdateFodEffect
  <2>4. ASSUME NEW t \in Tasks
        PROVE  /\ fod'[t] = None <=> fod[t] = None
               /\ fod[t] # None => fod'[t].hash = fod[t].hash
               /\ Settled(t) => fod'[t] = fod[t]
               /\ Settled(t)' /\ ~Settled(t) => fod'[t].verdict # "none"
               /\ Due(t) => Settled(t)'
    <3>1. Due(t) => Settled(t) \/ t \in {k.task} \cup k.dups
      BY DEF Due, Reported, k
    <3>2. CASE t \in {k.task} \cup k.dups
      BY <1>3, <2>3, <3>2 DEF Settled
    <3>3. CASE t \notin {k.task} \cup k.dups
      BY <2>3, <3>1, <3>3 DEF Settled
    <3>. QED
      BY <3>2, <3>3
  <2>5. fod'[k.task] # None /\ fod'[k.task].rating # "none"
    BY <1>2, <1>3, <2>3
  <2>. QED
    BY <1>2, <2>1, <2>4, <2>5 DEF k
<1>5. CASE Abort(k.task, k.dups) /\ k.aborted
  <2>1. DbTypeOK' /\ OnePlace'
    BY <1>1, <1>2, <1>5, FinishType, AbortOnePlace DEF AnalysisSettle
  <2>2. fod' = UpdateFod(fod, {k.task}, 0) /\ 0 \in Scores
    BY <1>5 DEF Abort, Scores
  <2>3. \A t \in Tasks :
          /\ fod'[t] = None <=> fod[t] = None
          /\ fod[t] # None => fod'[t].hash = fod[t].hash
          /\ t = k.task => fod'[t].rating # "none" /\ fod'[t].verdict # "none"
          /\ t # k.task => fod'[t] = fod[t]
    BY <1>2, <1>3, <2>2, UpdateFodEffect
  <2>4. ASSUME NEW t \in Tasks
        PROVE  /\ fod'[t] = None <=> fod[t] = None
               /\ fod[t] # None => fod'[t].hash = fod[t].hash
               /\ Settled(t) => fod'[t] = fod[t]
               /\ Settled(t)' /\ ~Settled(t) => fod'[t].verdict # "none"
               /\ Due(t) => Settled(t)'
    <3>1. Due(t) => Settled(t) \/ t \in {k.task}
      BY <1>5 DEF Due, Reported, k
    <3>2. CASE t \in {k.task}
      BY <1>3, <2>3, <3>2 DEF Settled
    <3>3. CASE t \notin {k.task}
      BY <2>3, <3>1, <3>3 DEF Settled
    <3>. QED
      BY <3>2, <3>3
  <2>5. fod'[k.task] # None /\ fod'[k.task].rating # "none"
    BY <1>2, <1>3, <2>3
  <2>. QED
    BY <1>2, <2>1, <2>4, <2>5 DEF k
<1>. QED
  BY <1>4, <1>5 DEF AnalysisSettle, k

LEMMA AnalysisSettleInv ==
    ASSUME SubmissionInv, AnalysisSettle
    PROVE  SubmissionInv'
<1>1. /\ deletions' = deletions \cup {analysis.task} /\ analysis' = None
      /\ UNCHANGED <<files, requests, overrides, queries>>
  BY DEF AnalysisSettle
<1>2. SubmissionTypeOK' /\ OnePlace' /\ AnalysisCurrent'
  BY <1>1, SettleEffect DEF SubmissionInv, SubmissionTypeOK, AnalysisCurrent
<1>3. VerdictsGiven'
  BY <1>1, SettleEffect DEF SubmissionInv, VerdictsGiven
<1>4. \A r \in Requests : requests[r] # None => requests[r].id \in Tasks
  <2>1. \A r \in Requests : requests[r] # None => requests[r] \in Request
    BY DEF SubmissionInv, SubmissionTypeOK
  <2>. QED
    BY <2>1 DEF Request
<1>5. IdsInOrder' /\ UnsharedAlone'
  BY <1>1, SettleEffect DEF SubmissionInv, IdsInOrder, UnsharedAlone
<1>6. RowsOwned' /\ RequestsCarry'
  BY <1>1, <1>4, SettleEffect DEF SubmissionInv, RowsOwned, Stored, At, RequestsCarry, Found
<1>7. DeletionsDue'
  <2>1. ASSUME NEW t \in deletions PROVE fod'[t] # None /\ Settled(t)'
    <3>1. t \in Tasks /\ fod[t] # None /\ Due(t)
      BY <2>1 DEF SubmissionInv, SubmissionTypeOK, DeletionsDue, Due
    <3>. QED
      BY <3>1, SettleEffect
  <2>. QED
    BY <1>1, <2>1, SettleEffect DEF DeletionsDue, Settled
<1>8. KnownFound'
  <2>1. \A t \in Tasks : Settled(t) => Settled(t)' /\ fod'[t] = fod[t]
    BY SettleEffect DEF Settled
  <2>. QED
    BY <1>1, <2>1 DEF SubmissionInv, KnownFound, SettledAs, At
<1>9. SamplesKept'
  <2>1. ASSUME NEW t \in Tasks, ~Due(t)' PROVE ~Due(t)
    BY <2>1, SettleEffect DEF Due
  <2>2. ASSUME NEW r \in Requests, At(r, "queued")
        PROVE  fod'[requests[r].id].hash = fod[requests[r].id].hash
    BY <1>4, <2>2, SettleEffect DEF SubmissionInv, RowsOwned, Stored, At
  <2>. QED
    BY <1>1, <1>4, <2>1, <2>2 DEF SubmissionInv, SamplesKept, Running, At, Found
<1>. QED
  BY <1>2, <1>3, <1>5, <1>6, <1>7, <1>8, <1>9 DEF SubmissionInv

-----------------------------------------------------------------------------
LEMMA NextSubmission == SubmissionInv /\ [SubmissionNext]_submissionVars => SubmissionInv'
<1>. SUFFICES ASSUME SubmissionInv, [SubmissionNext]_submissionVars PROVE SubmissionInv'
  OBVIOUS
<1>1. CASE UNCHANGED submissionVars
  <2>1. SubmissionTypeOK' /\ VerdictsGiven' /\ KnownFound'
    BY <1>1 DEF submissionVars, dbVars, SubmissionInv, SubmissionTypeOK, DbTypeOK, VerdictsGiven,
                Settled, KnownFound, SettledAs, At
  <2>. QED
    BY <1>1, <2>1, RequestsSame DEF SubmissionInv, submissionVars
<1>2. ASSUME NEW r \in Requests, RequestNext(r) PROVE SubmissionInv'
  BY <1>2, ReadInv, StoreInv, HashInv, CheckCleanInv, CheckMalwareInv, ReadVerdictInv,
     InsertKnownInv, CountInv, InsertInv DEF RequestNext
<1>3. ASSUME NEW a \in Admins,
             \/ \E t \in Tasks, v \in {"allow", "block"} : OverrideRead(a, t, v)
             \/ OverrideWrite(a)
      PROVE  SubmissionInv'
  BY <1>3, OverrideReadInv, OverrideWriteInv
<1>4. ASSUME NEW f \in Firewalls, (\E h \in Contents : QueryMalware(f, h)) \/ QueryClean(f)
      PROVE  SubmissionInv'
  BY <1>4, QueryMalwareInv, QueryCleanInv
<1>5. ASSUME NEW t \in Tasks, AnalysisRead(t) \/ DeleteLocalTask(t) PROVE SubmissionInv'
  BY <1>5, AnalysisReadInv, DeleteInv
<1>. QED
  BY <1>1, <1>2, <1>3, <1>4, <1>5, AnalysisSettleInv DEF SubmissionNext

LEMMA SubmissionInvariant == SubmissionSpec => []SubmissionInv
BY InitSubmission, NextSubmission, PTL DEF SubmissionSpec

(* No request is given an id that is not there, and every row keeps its type  *)
(* whatever the order of the statements: there is always an id left, since    *)
(* the ids in use are an interval and each was inserted by another request.   *)
THEOREM SubmissionTypeCorrect == SubmissionSpec => []SubmissionTypeOK
<1>1. SubmissionInv => SubmissionTypeOK
  BY DEF SubmissionInv
<1>. QED
  BY <1>1, SubmissionInvariant, PTL

(* CreateFileOnDemand and the analysis between them keep a file in one place: *)
(* no interleaving of requests and settlements loses or doubles it.           *)
THEOREM SubmissionOnePlace == SubmissionSpec => []OnePlace
<1>1. SubmissionInv => OnePlace
  BY DEF SubmissionInv
<1>. QED
  BY <1>1, SubmissionInvariant, PTL

(* A file that waits for its analysis is on disk as it was sent and under its *)
(* own digest, unless two requests of CreateFileOnDemand ran with one id.     *)
THEOREM WaitingSampleIntact == SubmissionSpec => []SampleIntact
<1>1. SubmissionInv => SampleIntact
  <2>. SUFFICES ASSUME SubmissionInv, NEW r \in Requests, requests[r] # None,
                       requests[r].stage = "queued", ~requests[r].shared,
                       \/ live[requests[r].id] # None
                       \/ /\ requests[r].id \in dup
                          /\ analysis = None \/ requests[r].id \notin analysis.dups
                PROVE  /\ files[requests[r].id] = requests[r].content
                       /\ fod[requests[r].id].hash = requests[r].content
                       /\ requests[r].id \notin deletions
    BY DEF SampleIntact
  <2>. DEFINE id == requests[r].id
  <2>1. At(r, "queued") /\ id \in Tasks
    BY AtRequest DEF At
  <2>2. ~Settled(id)
    BY <2>1 DEF SubmissionInv, OnePlace
  <2>3. ~Reported(id)
    BY <2>1 DEF SubmissionInv, OnePlace, AnalysisCurrent, Reported
  <2>4. id \notin deletions
    BY <2>2, <2>3 DEF SubmissionInv, DeletionsDue
  <2>. QED
    BY <2>1, <2>2, <2>3, <2>4 DEF SubmissionInv, SamplesKept, Due
<1>. QED
  BY <1>1, SubmissionInvariant, PTL

(* checkIfHashAlreadyPresent never sends a digest that was settled to the     *)
(* sandbox again, unless an override or an error came between its look-ups.   *)
THEOREM KnownIsNotAnalysed == SubmissionSpec => []KnownNotAnalysed
<1>1. SubmissionInv => KnownNotAnalysed
  BY DEF SubmissionInv, KnownFound, KnownNotAnalysed, At
<1>. QED
  BY <1>1, SubmissionInvariant, PTL

(* FileFromFireWall never answers "empty" for a digest that was settled when  *)
(* it was asked, unless an override or an error came between its look-ups.    *)
THEOREM FirewallIsTold == SubmissionSpec => []FirewallKnows
<1>1. SubmissionInv => FirewallKnows
  BY DEF SubmissionInv, KnownFound, FirewallKnows
<1>. QED
  BY <1>1, SubmissionInvariant, PTL

\* Which statements leave a settled row alone.
LEMMA SettledKept ==
    ASSUME SubmissionInv, SubmissionNext, NEW t \in Tasks, Settled(t), fod'[t] # fod[t]
    PROVE  \E a \in Admins : OverrideWrite(a)
<1>1. fod' # fod
  OBVIOUS
<1>2. ASSUME AnalysisSettle PROVE FALSE
  BY <1>2, SettleEffect
<1>3. ASSUME NEW r \in Requests, SubmitInsertKnown(r) \/ SubmitInsert(r) PROVE FALSE
  <2>1. fod[requests[r].id] = None
    BY <1>1, <1>3 DEF SubmitInsertKnown, SubmitInsert, Inserts
  <2>2. \E row : fod' = [fod EXCEPT ![requests[r].id] = row]
    BY <1>1, <1>3 DEF SubmitInsertKnown, SubmitInsert
  <2>3. t # requests[r].id
    BY <2>1 DEF Settled
  <2>. QED
    BY <2>2, <2>3 DEF SubmissionInv, SubmissionTypeOK, DbTypeOK
<1>4. ASSUME NEW r \in Requests, RequestNext(r) PROVE FALSE
  BY <1>1, <1>3, <1>4 DEF RequestNext, SubmitRead, SubmitStore, SubmitHash, SubmitCheckClean,
     SubmitCheckMalware, SubmitLookUp, SubmitReadVerdict, SubmitCount, dbVars
<1>5. ASSUME NEW u \in Tasks, AnalysisRead(u) \/ DeleteLocalTask(u) PROVE FALSE
  BY <1>1, <1>5 DEF AnalysisRead, DeleteLocalTask, dbVars
<1>6. ASSUME NEW f \in Firewalls, (\E h \in Contents : QueryMalware(f, h)) \/ QueryClean(f)
      PROVE  FALSE
  BY <1>1, <1>6 DEF QueryMalware, QueryClean, dbVars
<1>7. ASSUME NEW a \in Admins, NEW u \in Tasks, NEW v \in {"allow", "block"},
             OverrideRead(a, u, v)
      PROVE  FALSE
  BY <1>1, <1>7 DEF OverrideRead, dbVars
<1>. QED
  BY <1>2, <1>4, <1>5, <1>6, <1>7 DEF SubmissionNext

(* Only an override changes a verdict that is settled: neither the insert of  *)
(* a request nor the transaction that settles a file of the digest does.      *)
THEOREM OverridesChangeAlone == SubmissionSpec => OnlyOverridesChange
<1>. DEFINE Change == \A t \in Tasks :
                        Settled(t) /\ fod'[t] # fod[t] => \E a \in Admins : OverrideWrite(a)
<1>1. SubmissionInv /\ [SubmissionNext]_submissionVars => [Change]_submissionVars
  BY SettledKept
<1>2. SubmissionSpec => [][Change]_submissionVars
  BY <1>1, SubmissionInvariant, PTL DEF SubmissionSpec
<1>. QED
  BY <1>2 DEF OnlyOverridesChange
=============================================================================
