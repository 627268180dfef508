----------------------------- MODULE AnalysisDb -----------------------------
(***************************************************************************)
(* The MySQL tables of the file analysis, the sample directory, and the    *)
(* SQL statements the Go code runs on them (src/dao/task_crud.go,          *)
(* src/service/queue/db.go, src/model/task_model.go).  A statement is an   *)
(* operator from a table to the table it leaves; a transaction is one      *)
(* action that primes every table it touches.                              *)
(***************************************************************************)
EXTENDS Naturals, FiniteSets

CONSTANTS
    MaxTask,      \* bound: ids of file_on_demands the model may hand out
    Hashes,       \* digests (md5, sha1 and sha256 stand and fall together)
    NoHash,       \* the NULL digest of a promoted duplicate
    None          \* no row, no file, nothing pending

Tasks == 1 .. MaxTask

VARIABLES
    fod,        \* file_on_demands: digest, rating and final verdict of an id
    live,       \* task_live_analysis_tables
    dup,        \* task_duplicate_tables (a row's digest is that of its fod row)
    finished,   \* task_finished_tables: number of rows of an id
    files       \* the sample directory: digest of the content stored for an id

dbVars == <<fod, live, dup, finished, files>>

-----------------------------------------------------------------------------
PendingNotInQueue == "pending not in queue"
PendingInQueue    == "pending in queue"
RunningNotInQueue == "running not in queue"
RunningInQueue    == "running in queue"

LiveStatuses == {PendingNotInQueue, PendingInQueue,
                 RunningNotInQueue, RunningInQueue}

Ratings  == {"none", "clean", "malicious"}
Verdicts == {"none", "allow", "block"}
Scores   == {0, 1}       \* zero, or anything above it

FodRow == [hash : Hashes, rating : Ratings, verdict : Verdicts]

\* The columns of a live row, over any set of statuses: the in-memory copies
\* of a row carry statuses that are never stored.
RowOver(S) == [status : S, sandboxId : Nat,
               queueRetryCount : Nat, runningRetryCount : Nat,
               sandboxRetryCount : Nat, logQueueFailed : BOOLEAN,
               hash : Hashes \cup {NoHash}]

ASSUME DbAssumption ==
    /\ MaxTask \in Nat
    /\ NoHash \notin Hashes /\ None \notin Hashes
    /\ None \notin FodRow /\ None \notin RowOver(LiveStatuses)

DbTypeOK ==
    /\ fod \in [Tasks -> FodRow \cup {None}]
    /\ live \in [Tasks -> RowOver(LiveStatuses) \cup {None}]
    /\ dup \in SUBSET Tasks
    /\ finished \in [Tasks -> Nat]
    /\ files \in [Tasks -> Hashes \cup {None}]

-----------------------------------------------------------------------------
(* Statements.                                                             *)

\* INSERT INTO task_live_analysis_tables.  A promoted duplicate is inserted
\* with its id and status only, so its digest stays NULL.
NewLiveRow(h) ==
    [status |-> PendingNotInQueue, sandboxId |-> 0, queueRetryCount |-> 0,
     runningRetryCount |-> 0, sandboxRetryCount |-> 0,
     logQueueFailed |-> FALSE, hash |-> h]

PromotedRow == NewLiveRow(NoHash)

Rating(score)  == IF score = 0 THEN "clean" ELSE "malicious"
Verdict(score) == IF score = 0 THEN "allow" ELSE "block"

\* UPDATE file_on_demands SET score, rating, final_verdict for the ids in T.
UpdateFod(table, T, score) ==
    [t \in Tasks |->
        IF t \in T /\ table[t] # None
        THEN [table[t] EXCEPT !.rating = Rating(score),
                              !.verdict = Verdict(score)]
        ELSE table[t]]

\* Mutant of WriteRow: the row is written back when the task has left the table.
UpsertRow(table, t, row) ==
    IF table[t] = None THEN [table EXCEPT ![t] = row]
    ELSE [table EXCEPT ![t] = [row EXCEPT !.hash = table[t].hash]]

\* UPDATE task_live_analysis_tables SET <every column but the digest>.  The
\* UPDATE matches no row once the task has left the table.
WriteRow(table, t, row) ==
    IF table[t] = None THEN table
    ELSE [table EXCEPT ![t] = [row EXCEPT !.hash = table[t].hash]]

SetStatus(table, t, s) ==
    IF table[t] = None THEN table
    ELSE [table EXCEPT ![t] = [table[t] EXCEPT !.status = s]]

ClearLogQueueFailed(table, t) ==
    IF table[t] = None THEN table
    ELSE [table EXCEPT ![t] = [table[t] EXCEPT !.logQueueFailed = FALSE]]

\* Mutant of DuplicatesOf: file_on_demands is searched instead.
FilesOf(h) == {d \in Tasks : fod[d] # None /\ fod[d].hash = h}

\* SELECT id FROM task_duplicate_tables WHERE md5 = .. OR sha = .. OR sha256 = ..
DuplicatesOf(h) == {d \in dup : fod[d] # None /\ fod[d].hash = h}

\* .. ORDER BY id LIMIT 1
LowestOf(D) == {d \in D : \A e \in D : d <= e}

\* Mutant of LiveAfterFinish: the promoted duplicate is not inserted.
LiveWithoutPromoted(t, promoted) == [live EXCEPT ![t] = None]

\* moveTaskToFinishedTable and processDuplicateTasksFor{Reported,Aborted}
LiveAfterFinish(t, promoted) ==
    [u \in Tasks |-> IF u \in promoted THEN PromotedRow
                     ELSE IF u = t THEN None ELSE live[u]]

FinishedAfter(t, D) ==
    [u \in Tasks |-> finished[u] + (IF u = t THEN 1 ELSE 0) + (IF u \in D THEN 1 ELSE 0)]

Finish(t, D, score) ==
    /\ fod' = UpdateFod(fod, {t} \cup D, score)
    /\ live' = LiveAfterFinish(t, {})
    /\ finished' = FinishedAfter(t, D)
    /\ dup' = dup \ D

Abort(t, D) ==
    /\ fod' = UpdateFod(fod, {t}, 0)
    /\ live' = LiveAfterFinish(t, D)
    /\ finished' = FinishedAfter(t, {})
    /\ dup' = dup \ D

LiveTasks == {t \in Tasks : live[t] # None}

\* Mutant of Recovered: the tasks of RunningQueue are forgotten.
RecoveredPendingOnly(status, rebooted) ==
    IF rebooted \/ status = PendingInQueue THEN PendingNotInQueue ELSE status

\* ResetQueueDb, run before any handler starts: what lived in a channel has
\* to be put there again, and after a reboot every task starts over.
Recovered(status, rebooted) ==
    CASE rebooted -> PendingNotInQueue
      [] ~rebooted /\ status = PendingInQueue -> PendingNotInQueue
      [] ~rebooted /\ status = RunningInQueue -> RunningNotInQueue
      [] OTHER -> status

ResetQueueDb(table, rebooted) ==
    [t \in Tasks |->
        IF table[t] = None THEN None
        ELSE [table[t] EXCEPT !.status = Recovered(@, rebooted)]]

-----------------------------------------------------------------------------
(* What the statements together have to keep.                              *)

\* analysed: updateFOD has run for the id
Settled(t) == fod[t] # None /\ fod[t].rating # "none"

\* An accepted file is in the live table, in the duplicate table or settled,
\* never in two of them and never in none; nothing is in the finished table
\* unsettled.  The move between the tables is spread over the statements of
\* processLogQueueTasks and of the two processDuplicateTasksFor functions.
OnePlace ==
    \A t \in Tasks :
        /\ live[t] # None => t \notin dup /\ ~Settled(t) /\ fod[t] # None
        /\ t \in dup => ~Settled(t) /\ fod[t] # None
        /\ finished[t] > 0 => Settled(t)
        /\ fod[t] # None => live[t] # None \/ t \in dup \/ Settled(t)
=============================================================================
