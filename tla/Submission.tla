----------------------------- MODULE Submission -----------------------------
(***************************************************************************)
(* Files on their way into the analysis tables and verdicts on their way   *)
(* out: concurrent requests of CreateFileOnDemand, overrides of a verdict, *)
(* and the firewall's hash queries, on the tables the analysis settles.    *)
(* No lock and no transaction spans two statements of a request.           *)
(*                                                                         *)
(* The analysis is the one that TaskPipeline implements, seen from the     *)
(* tables: what LogPrepare reads and the transaction of LogCommit.         *)
(***************************************************************************)
EXTENDS AnalysisDb

CONSTANTS
    Requests,           \* submissions in a behaviour, each made once
    Admins,             \* overrides in a behaviour, each made once
    Firewalls,          \* hash queries in a behaviour, each made once
    Unreadable,         \* the empty digest of a sample that cannot be opened
    FileHashes,         \* digests in file_hashes, the list of known malware
    StatementOutcomes   \* {TRUE}, or BOOLEAN when a statement may fail

VARIABLES
    requests,     \* the requests of CreateFileOnDemand
    overrides,    \* the requests of overrideFileVerdict
    queries,      \* the requests of FileFromFireWall
    analysis,     \* the analysis about to be settled, or None
    deletions     \* go deleteLocalTask still to run

submissionVars == <<dbVars, requests, overrides, queries, analysis, deletions>>

Contents == Hashes \ {Unreadable}

RequestStages ==
    {"storing", "hashing", "isClean", "isMalware", "readVerdict",
     "insertKnown", "counting", "inserting"}
RequestEnds == {"known", "queued", "failed"}

\* known and shared are history: the digest had a settled row when it was
\* computed and nothing disturbed the look-up since; another request ran with
\* the same id.
Request == [stage : RequestStages \cup RequestEnds, id : Tasks,
            content : Contents, hash : Hashes \cup {NoHash},
            rating : Ratings, verdict : Verdicts, first : BOOLEAN,
            known : BOOLEAN, shared : BOOLEAN]

\* What LogPrepare has read when the transaction is still to come.
Analysis == [task : Tasks, aborted : BOOLEAN, score : Scores, dups : SUBSET Tasks]

ASSUME SubmissionAssumption ==
    /\ IsFiniteSet(Requests) /\ Cardinality(Requests) <= MaxTask
    /\ Unreadable \in Hashes /\ FileHashes \subseteq Hashes \ {Unreadable}
    /\ TRUE \in StatementOutcomes /\ StatementOutcomes \subseteq BOOLEAN
    /\ None \notin Request /\ None \notin Analysis

SubmissionTypeOK ==
    /\ DbTypeOK
    /\ requests \in [Requests -> Request \cup {None}]
    /\ overrides \in [Admins -> [hash : Hashes, verdict : Verdicts, done : BOOLEAN] \cup {None}]
    /\ queries \in [Firewalls ->
            [stage : {"isClean", "empty", "clean", "block"}, hash : Hashes,
             malware : BOOLEAN, known : BOOLEAN] \cup {None}]
    /\ analysis \in Analysis \cup {None}
    /\ deletions \subseteq Tasks

-----------------------------------------------------------------------------
(* Look-ups by digest (dao/filehash.go).                                   *)

SettledDigest(h) == \E t \in Tasks : Settled(t) /\ fod[t].hash = h

RowsWith(h, v) == {t \in Tasks : fod[t] # None /\ fod[t].hash = h /\ fod[t].verdict = v}

\* Mutant of IsCleanHashFromDb: rows that are not rated yet do not count.
IsRatedClean(h) == \E t \in RowsWith(h, "allow") : Settled(t) /\ fod[t].rating = "clean"

IsCleanHashFromDb(h) == RowsWith(h, "allow") # {}

\* Mutant of IsMalwareHashFromDb: only the list of known malware is read.
IsListedMalware(h) == h \in FileHashes

IsMalwareHashFromDb(h) == h \in FileHashes \/ RowsWith(h, "block") # {}

-----------------------------------------------------------------------------
(* CreateFileOnDemand.                                                     *)

At(r, s) == requests[r] # None /\ requests[r].stage = s
Running(r) == requests[r] # None /\ requests[r].stage \notin RequestEnds
GoesTo(r, s) == requests' = [requests EXCEPT ![r].stage = s]

\* The statement failed: the look-up is no longer undisturbed.
FailsTo(r, s) ==
    requests' = [requests EXCEPT ![r].stage = s, ![r].known = FALSE]

\* SELECT id FROM file_on_demands ORDER BY id DESC LIMIT 1, plus one.  A request
\* that fails here, or while it stores its sample, has no effect on the tables.
NextId == CHOOSE n \in 1 .. MaxTask + 1 :
            /\ \A t \in Tasks : fod[t] # None => t < n
            /\ n = 1 \/ fod[n - 1] # None

SubmitRead(r, c) ==
    /\ requests[r] = None
    /\ LET twins == {q \in Requests : Running(q) /\ requests[q].id = NextId}
       IN  requests' = [q \in Requests |->
            IF q = r THEN [stage |-> "storing", id |-> NextId, content |-> c,
                           hash |-> NoHash, rating |-> "none", verdict |-> "none",
                           first |-> FALSE, known |-> FALSE, shared |-> twins # {}]
            ELSE IF q \in twins THEN [requests[q] EXCEPT !.shared = TRUE]
            ELSE requests[q]]
    /\ UNCHANGED <<dbVars, overrides, queries, analysis, deletions>>

\* os.Create truncates what another request stored under the id.
SubmitStore(r) ==
    /\ At(r, "storing")
    /\ files' = [files EXCEPT ![requests[r].id] = requests[r].content]
    /\ GoesTo(r, "hashing")
    /\ UNCHANGED <<fod, live, dup, finished, overrides, queries, analysis, deletions>>

\* Mutant of Digest: no digest at all for a sample that cannot be opened.
StoredDigest(sample) == sample

\* CalculateHash of what is in the file by now; its errors are dropped.
Digest(sample) == IF sample = None THEN Unreadable ELSE sample

SubmitHash(r) ==
    /\ At(r, "hashing")
    /\ LET h == Digest(files[requests[r].id])
       IN  requests' = [requests EXCEPT ![r].stage = "isClean", ![r].hash = h,
                                       ![r].known = SettledDigest(h)]
    /\ UNCHANGED <<dbVars, overrides, queries, analysis, deletions>>

\* checkIfHashAlreadyPresent: after an error the file counts as unknown.
SubmitLookUp(r, here, match, next, verdict) ==
    /\ At(r, here)
    /\ \/ /\ match
          /\ requests' = [requests EXCEPT ![r].stage = "readVerdict",
                                         ![r].verdict = verdict]
       \/ ~match /\ GoesTo(r, next)
       \/ FALSE \in StatementOutcomes /\ FailsTo(r, "counting")
    /\ UNCHANGED <<dbVars, overrides, queries, analysis, deletions>>

SubmitCheckClean(r) ==
    SubmitLookUp(r, "isClean", IsCleanHashFromDb(requests[r].hash), "isMalware", "allow")

SubmitCheckMalware(r) ==
    SubmitLookUp(r, "isMalware", IsMalwareHashFromDb(requests[r].hash), "counting", "block")

Fallback(v) == [rating |-> IF v = "allow" THEN "clean" ELSE "malicious", verdict |-> v]

\* The row read is any one of the digest (the query states no order); a row
\* without a verdict, no row or an error leave the verdict looked for.
ReadVerdict(r, d) ==
    IF fod[d].rating = "none" \/ fod[d].verdict = "none"
    THEN Fallback(requests[r].verdict)
    ELSE [rating |-> fod[d].rating, verdict |-> fod[d].verdict]

SubmitReadVerdict(r) ==
    /\ At(r, "readVerdict")
    /\ LET h == requests[r].hash
           fails == FALSE \in StatementOutcomes \/ FilesOf(h) = {}
       IN  \E answer \in {ReadVerdict(r, d) : d \in FilesOf(h)}
                \cup (IF fails THEN {Fallback(requests[r].verdict)} ELSE {}) :
            requests' = [requests EXCEPT ![r].stage = "insertKnown",
                                        ![r].rating = answer.rating,
                                        ![r].verdict = answer.verdict]
    /\ UNCHANGED <<dbVars, overrides, queries, analysis, deletions>>

\* Mutant of Inserts: an id that is taken is overwritten.
InsertsAnyway(r, ok) == ok

\* The primary key of file_on_demands refuses an id that is taken.
Inserts(r, ok) == ok /\ fod[requests[r].id] = None

\* Mutant of Discarded: the sample goes whatever became of the insert.
DiscardedAnyway(r, inserted) == {requests[r].id}

\* go deleteLocalTask, for a known file that was stored
Discarded(r, inserted) == IF inserted THEN {requests[r].id} ELSE {}

SubmitInsertKnown(r) ==
    /\ At(r, "insertKnown")
    /\ LET q == requests[r]
       IN  \E ok \in StatementOutcomes :
            /\ IF Inserts(r, ok)
               THEN /\ fod' = [fod EXCEPT ![q.id] =
                        [hash |-> q.hash, rating |-> q.rating, verdict |-> q.verdict]]
                    /\ GoesTo(r, "known")
               ELSE /\ FailsTo(r, "counting")
                    /\ UNCHANGED fod
            /\ deletions' = deletions \cup Discarded(r, Inserts(r, ok))
    /\ UNCHANGED <<live, dup, finished, files, overrides, queries, analysis>>

\* SELECT COUNT(*) FROM task_live_analysis_tables by digest
SubmitCount(r) ==
    /\ At(r, "counting")
    /\ \/ requests' = [requests EXCEPT ![r].stage = "inserting",
            ![r].first = \A t \in LiveTasks : live[t].hash # requests[r].hash]
       \/ FALSE \in StatementOutcomes /\ FailsTo(r, "failed")
    /\ UNCHANGED <<dbVars, overrides, queries, analysis, deletions>>

SubmitInsert(r) ==
    /\ At(r, "inserting")
    /\ LET q == requests[r]
       IN  \E ok \in StatementOutcomes :
            IF Inserts(r, ok)
            THEN /\ fod' = [fod EXCEPT ![q.id] =
                    [hash |-> q.hash, rating |-> "none", verdict |-> "none"]]
                 /\ IF q.first
                    THEN live' = [live EXCEPT ![q.id] = NewLiveRow(q.hash)] /\ UNCHANGED dup
                    ELSE dup' = dup \cup {q.id} /\ UNCHANGED live
                 /\ GoesTo(r, "queued")
            ELSE FailsTo(r, "failed") /\ UNCHANGED <<fod, live, dup>>
    /\ UNCHANGED <<finished, files, overrides, queries, analysis, deletions>>

DeleteLocalTask(t) ==
    /\ t \in deletions
    /\ deletions' = deletions \ {t}
    /\ files' = [files EXCEPT ![t] = None]
    /\ UNCHANGED <<fod, live, dup, finished, requests, overrides, queries, analysis>>

-----------------------------------------------------------------------------
(* overrideFileVerdict: the row of a job is read, then every row of its     *)
(* digest is written.                                                       *)

OverrideRead(a, t, v) ==
    /\ overrides[a] = None
    /\ Settled(t) /\ fod[t].verdict # v
    /\ overrides' = [overrides EXCEPT ![a] = 
            [hash |-> fod[t].hash, verdict |-> v, done |-> FALSE]]
    /\ UNCHANGED <<dbVars, requests, queries, analysis, deletions>>

Disturbed(rs, h) ==
    [x \in DOMAIN rs |-> IF rs[x] # None /\ rs[x].hash = h
                         THEN [rs[x] EXCEPT !.known = FALSE] ELSE rs[x]]

OverrideWrite(a) ==
    /\ overrides[a] # None /\ ~overrides[a].done
    /\ LET o == overrides[a]
       IN  /\ \/ /\ fod' = [t \in Tasks |->
                            IF t \in FilesOf(o.hash)
                            THEN [fod[t] EXCEPT !.verdict = o.verdict] ELSE fod[t]]
                 /\ requests' = Disturbed(requests, o.hash)
                 /\ queries' = Disturbed(queries, o.hash)
              \/ FALSE \in StatementOutcomes /\ UNCHANGED <<fod, requests, queries>>
    /\ overrides' = [overrides EXCEPT ![a].done = TRUE]
    /\ UNCHANGED <<live, dup, finished, files, analysis, deletions>>

-----------------------------------------------------------------------------
(* FileFromFireWall: malware first, clean second, and clean wins.           *)

QueryMalware(f, h) ==
    /\ queries[f] = None
    /\ queries' = [queries EXCEPT ![f] =
            [stage |-> "isClean", hash |-> h, malware |-> IsMalwareHashFromDb(h),
             known |-> SettledDigest(h)]]
    /\ UNCHANGED <<dbVars, requests, overrides, analysis, deletions>>

FirewallAnswer(q) ==
    IF IsCleanHashFromDb(q.hash) THEN "clean" ELSE IF q.malware THEN "block" ELSE "empty"

\* An error of either look-up answers "empty".
QueryClean(f) ==
    /\ queries[f] # None /\ queries[f].stage = "isClean"
    /\ \/ queries' = [queries EXCEPT ![f].stage = FirewallAnswer(queries[f])]
       \/ /\ FALSE \in StatementOutcomes
          /\ queries' = [queries EXCEPT ![f].stage = "empty", ![f].known = FALSE]
    /\ UNCHANGED <<dbVars, requests, overrides, analysis, deletions>>

-----------------------------------------------------------------------------
(* The analysis: the duplicates are read and, after a report, their samples *)
(* go; the transaction that moves the rows follows in a step of its own.    *)

AnalysisRead(t) ==
    /\ analysis = None /\ live[t] # None
    /\ \E aborted \in BOOLEAN, score \in Scores :
        LET same == DuplicatesOf(live[t].hash)
            dups == IF aborted THEN LowestOf(same) ELSE same
        IN  /\ aborted => score = 0
            /\ analysis' = [task |-> t, aborted |-> aborted, score |-> score,
                            dups |-> dups]
            /\ deletions' = deletions \cup (IF aborted THEN {} ELSE dups)
    /\ UNCHANGED <<dbVars, requests, overrides, queries>>

AnalysisSettle ==
    /\ analysis # None
    /\ IF analysis.aborted THEN Abort(analysis.task, analysis.dups)
       ELSE Finish(analysis.task, analysis.dups, analysis.score)
    /\ deletions' = deletions \cup {analysis.task}
    /\ analysis' = None
    /\ UNCHANGED <<files, requests, overrides, queries>>

-----------------------------------------------------------------------------
SubmissionInit ==
    /\ fod = [t \in Tasks |-> None] /\ live = [t \in Tasks |-> None]
    /\ dup = {} /\ finished = [t \in Tasks |-> 0]
    /\ files = [t \in Tasks |-> None]
    /\ requests = [r \in Requests |-> None]
    /\ overrides = [a \in Admins |-> None]
    /\ queries = [f \in Firewalls |-> None]
    /\ analysis = None /\ deletions = {}

RequestNext(r) ==
    \/ \E c \in Contents : SubmitRead(r, c)
    \/ SubmitStore(r) \/ SubmitHash(r) \/ SubmitCheckClean(r) \/ SubmitCheckMalware(r)
    \/ SubmitReadVerdict(r) \/ SubmitInsertKnown(r) \/ SubmitCount(r) \/ SubmitInsert(r)

SubmissionNext ==
    \/ \E r \in Requests : RequestNext(r)
    \/ \E a \in Admins : \/ \E t \in Tasks, v \in {"allow", "block"} : OverrideRead(a, t, v)
                         \/ OverrideWrite(a)
    \/ \E f \in Firewalls : (\E h \in Contents : QueryMalware(f, h)) \/ QueryClean(f)
    \/ \E t \in Tasks : AnalysisRead(t) \/ DeleteLocalTask(t)
    \/ AnalysisSettle

SubmissionSpec == SubmissionInit /\ [][SubmissionNext]_submissionVars

-----------------------------------------------------------------------------
(* What holds whatever requests, overrides and analyses do to each other.   *)

\* The sample of a file that waits for its analysis is the file that was sent,
\* under its own digest, unless two requests ran with the same id; duplicates
\* lose theirs when the analysis that settles them is under way (db.go:91).
SampleIntact ==
    \A r \in Requests :
        LET q == requests[r]
            waiting == live[q.id] # None
                       \/ (q.id \in dup /\ (analysis = None \/ q.id \notin analysis.dups))
        IN  requests[r] # None /\ q.stage = "queued" /\ ~q.shared /\ waiting
            => /\ files[q.id] = q.content /\ fod[q.id].hash = q.content
               /\ q.id \notin deletions

\* A file whose digest has been settled before is not analysed again, unless an
\* override or an error came between the look-ups of its request.
KnownNotAnalysed ==
    \A r \in Requests : At(r, "queued") => ~requests[r].known

\* The firewall is told a verdict for every digest that was settled before it
\* asked, unless the digest was overridden between the two look-ups.
FirewallKnows ==
    \A f \in Firewalls :
        queries[f] # None /\ queries[f].stage = "empty" => ~queries[f].known

\* Only an override changes a verdict that is settled: the analysis that still
\* runs for another file of the digest, or settles its duplicates, does not.
OnlyOverridesChange ==
    [][\A t \in Tasks :
        Settled(t) /\ fod'[t] # fod[t] => \E a \in Admins : OverrideWrite(a)]_submissionVars
=============================================================================
