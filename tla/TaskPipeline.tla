---------------------------- MODULE TaskPipeline ----------------------------
(***************************************************************************)
(* The analysis pipeline of src/service/queue: four goroutines that hand   *)
(* by-value copies of live rows to each other over three bounded channels  *)
(* (NotInQueueHandler, PendingQueueHandler with the goroutines it spawns,  *)
(* RunningQueueHandler, LogQueueHandler), the sandbox they drive, and the  *)
(* restart that empties the channels and runs ResetQueueDb.                *)
(***************************************************************************)
EXTENDS AnalysisDb, Sequences

CONSTANTS
    PendingCapacity,      \* 5000, queue.go:57
    RunningCapacity,      \* 5000, queue.go:58
    LogCapacity,          \* 5000, queue.go:59
    MaxFreeVms,           \* 5, MAX_FREE_VMS
    QueueMaxRetries,      \* 3, QUEUE_MAX_RETRIES
    RunningMaxRetries,    \* 5, RUNNING_MAX_RETRIES
    SandboxMaxRetries,    \* 5, SANDBOX_MAX_RETRIES
    MaxSubmitters,        \* 50, weight of pendingSem
    MaxSandboxTasks,      \* bound: tasks the sandbox accepts in a behaviour
    FaultKinds,           \* subset of {"restart", "statement"}
    MaxFaults,            \* bound: restarts and failed statements in a behaviour
    Expiry,               \* {FALSE}, or BOOLEAN when a timeout may have passed
    SubmitOutcomes,       \* subset of {"accepted", "refused", "lost"}
    ListOutcomes,         \* {TRUE}, or BOOLEAN when listing sandbox tasks may fail
    SandboxEnds,          \* subset of {"reported", "failed_analysis", "gone"}
    Detections            \* {FALSE}, or BOOLEAN when clamd or quickscope may match

\* What LogQueueHandler reads before a transaction.
LogRead == [score : Scores, dups : SUBSET Tasks]

VARIABLES
    pendingQueue, runningQueue, logQueue,   \* the three channels
    niqBatch,      \* NotInQueueHandler: rows fetched and not yet handled
    niqWrite,      \* NotInQueueHandler: the UPDATE due after a push, or None
    pendBatch,     \* PendingQueueHandler: tasks popped and not yet handled
    submitters,    \* its goroutines, one per unit of pendingSem
    runView,       \* RunningQueueHandler: the sandbox listing it works from
    runBatch,      \* RunningQueueHandler: tasks popped and not yet handled
    logRead,       \* LogQueueHandler: what it read for the next transaction
    sandbox,       \* the sandbox's tasks; a task's id is its position
    deletions,     \* go deleteLocalTask / go deleteSandboxData still to run
    told,          \* last verdict POSTed to the client that sent the file
    faults         \* restarts and failed statements so far

channelVars == <<pendingQueue, runningQueue, logQueue>>
niqVars     == <<niqBatch, niqWrite>>
pendVars    == <<pendBatch, submitters>>
runVars     == <<runView, runBatch>>
asyncVars   == <<deletions, told>>
pipelineVars == <<dbVars, channelVars, niqVars, pendVars, runVars, logRead,
                  sandbox, asyncVars, faults>>

-----------------------------------------------------------------------------
Reported  == "reported"
Aborted   == "aborted"
Scanned   == "reported through scanner"  \* ReportedThroughClamd / ..QuickScope

FinalStatuses == {Reported, Aborted, Scanned}
TaskStatuses  == LiveStatuses \cup FinalStatuses

\* Only the copies in LogQueue carry a status that is not stored.
TaskCopy == [id : Tasks, row : RowOver(TaskStatuses)]
LiveCopy == [id : Tasks, row : RowOver(LiveStatuses)]
CopyOf(t) == [id |-> t, row |-> live[t]]
WithStatus(c, s) == [c EXCEPT !.row.status = s]

SandboxStates == {"active", "reported", "failed_analysis", "gone"}
Submitter == [stage : {"sending", "logging"}, copy : LiveCopy,
              status : LiveStatuses]

Deletion == ({"file"} \X Tasks) \cup ({"sandbox"} \X Nat)

ASSUME PipelineAssumption ==
    /\ PendingCapacity \in Nat \ {0} /\ RunningCapacity \in Nat \ {0}
    /\ LogCapacity \in Nat \ {0} /\ MaxFreeVms \in Nat \ {0}
    /\ QueueMaxRetries \in Nat \ {0} /\ RunningMaxRetries \in Nat \ {0}
    /\ SandboxMaxRetries \in Nat \ {0} /\ MaxSubmitters \in Nat \ {0}
    /\ MaxSandboxTasks \in Nat /\ MaxFaults \in Nat
    /\ FaultKinds \subseteq {"restart", "statement"}
    /\ Expiry \subseteq BOOLEAN /\ ListOutcomes \subseteq BOOLEAN
    /\ Detections \subseteq BOOLEAN
    /\ SubmitOutcomes \subseteq {"accepted", "refused", "lost"}
    /\ SandboxEnds \subseteq {"reported", "failed_analysis", "gone"}
    /\ None \notin LogRead /\ None \notin LiveStatuses
    /\ None \notin [id : Tasks, status : LiveStatuses \cup {None}]
    /\ None \notin Submitter

PipelineTypeOK ==
    /\ DbTypeOK
    /\ pendingQueue \in Seq(LiveCopy)
    /\ runningQueue \in Seq(LiveCopy)
    /\ logQueue \in Seq(TaskCopy)
    /\ niqBatch \subseteq LiveCopy
    /\ niqWrite \in [id : Tasks, status : LiveStatuses \cup {None}] \cup {None}
    /\ pendBatch \in Seq(LiveCopy)
    /\ submitters \in [1 .. MaxSubmitters -> Submitter \cup {None}]
    /\ runView \in Seq(SandboxStates) \cup {None}
    /\ runBatch \in Seq(LiveCopy)
    /\ logRead \in LogRead \cup {None}
    /\ sandbox \in Seq([task : Tasks, state : SandboxStates])
    /\ deletions \subseteq Deletion
    /\ told \in [Tasks -> {"none", "analysing", "allow", "block"}]
    /\ faults \in Nat

-----------------------------------------------------------------------------
(* Channels.                                                               *)

\* pushToQueue: a send that never blocks.  The status lands in the copy sent,
\* never in the caller's task.
HasRoom(q, capacity) == Len(q) < capacity
Push(q, c, s) == Append(q, WithStatus(c, s))

\* fetchTasksFromQueue
Least(a, b) == IF a <= b THEN a ELSE b
Taken(q, n) == SubSeq(q, 1, Least(n, Len(q)))

\* Mutant of Left: the tasks are read and stay in the channel.
LeftAll(q, n) == q

Left(q, n)  == SubSeq(q, Least(n, Len(q)) + 1, Len(q))

\* A database statement or transaction: it runs, or it fails as a whole and
\* the code goes on.
Statement(ok) ==
    /\ ok \/ ("statement" \in FaultKinds /\ faults < MaxFaults)
    /\ faults' = faults + (IF ok THEN 0 ELSE 1)

\* changeStatusAndPushToLogQueue.  st holds the log channel and the live
\* table.  When the channel is full the task's OLD status is stored, with
\* log_queue_failed set.
LogChange(st, c, s, ok) ==
    IF HasRoom(st.queue, LogCapacity)
    THEN [st EXCEPT !.queue = Push(@, c, s)]
    ELSE IF ok
    THEN [st EXCEPT !.table = WriteRow(@, c.id, [c.row EXCEPT !.logQueueFailed = TRUE])]
    ELSE st

LogState == [queue |-> logQueue, table |-> live]

LogStateBecomes(st) == logQueue' = st.queue /\ live' = st.table

ChangeStatusAndPushToLogQueue(c, s) ==
    \E ok \in BOOLEAN :
        /\ Statement(ok)
        /\ LogStateBecomes(LogChange(LogState, c, s, ok))

-----------------------------------------------------------------------------
(* NotInQueueHandler.                                                      *)

\* fetchNotInQueueTasks
NotInQueue(t) ==
    /\ live[t] # None
    /\ \/ live[t].status \in {PendingNotInQueue, RunningNotInQueue}
       \/ live[t].logQueueFailed

NiqFetch ==
    /\ niqBatch = {} /\ niqWrite = None
    /\ \E t \in Tasks : NotInQueue(t)
    /\ niqBatch' = {CopyOf(t) : t \in {u \in Tasks : NotInQueue(u)}}
    /\ UNCHANGED <<dbVars, channelVars, niqWrite, pendVars, runVars, logRead,
                   sandbox, asyncVars, faults>>

\* The status a task goes to the log channel with when its log_queue_failed
\* is set.
RequeueStatus(s) ==
    CASE s = PendingInQueue -> PendingNotInQueue
      [] s = RunningInQueue -> RunningNotInQueue
      [] OTHER -> s

\* clamd, then quickscope; neither finds anything in a file that is gone.
ScanFinds(t) == TRUE \in Detections /\ files[t] # None

ScanMisses(t) == files[t] = None \/ FALSE \in Detections

\* Mutant of LiveTaskCount: only the tasks in PendingQueue are counted.
PendingCount(ok) ==
    IF ok THEN Cardinality({t \in LiveTasks : live[t].status = PendingInQueue}) ELSE 0

\* fetchLiveTaskCount; a failed query counts zero tasks.
LiveTaskCount(ok) == IF ok THEN Cardinality(LiveTasks) ELSE 0

\* Mutant of WriteDue: the row keeps the status it was read with.
NoWriteDue(room, c, s) == None

\* A push that succeeds leaves an UPDATE due: log_queue_failed = false after
\* the log channel, the new status after the other two.
WriteDue(room, c, s) == IF room THEN [id |-> c.id, status |-> s] ELSE None

Pushed(q, capacity, c, s) == IF HasRoom(q, capacity) THEN Push(q, c, s) ELSE q

NiqToLog(c, s) ==
    /\ logQueue' = Pushed(logQueue, LogCapacity, c, s)
    /\ niqWrite' = WriteDue(HasRoom(logQueue, LogCapacity), c, None)
    /\ UNCHANGED <<pendingQueue, runningQueue>>

NiqToPending(c) ==
    /\ pendingQueue' = Pushed(pendingQueue, PendingCapacity, c, PendingInQueue)
    /\ niqWrite' = WriteDue(HasRoom(pendingQueue, PendingCapacity), c, PendingInQueue)
    /\ UNCHANGED <<runningQueue, logQueue>>

NiqToRunning(c) ==
    /\ runningQueue' = Pushed(runningQueue, RunningCapacity, c, RunningInQueue)
    /\ niqWrite' = WriteDue(HasRoom(runningQueue, RunningCapacity), c, RunningInQueue)
    /\ UNCHANGED <<pendingQueue, logQueue>>

NiqRelog(c) ==
    /\ c.row.logQueueFailed
    /\ NiqToLog(c, RequeueStatus(c.row.status))
    /\ UNCHANGED faults

NiqScanFound(c) ==
    /\ ~c.row.logQueueFailed /\ c.row.status = PendingNotInQueue
    /\ ScanFinds(c.id)
    /\ NiqToLog(c, Scanned)
    /\ UNCHANGED faults

NiqAdmit(c) ==
    /\ ~c.row.logQueueFailed /\ c.row.status = PendingNotInQueue
    /\ ScanMisses(c.id)
    /\ \E ok \in BOOLEAN :
        /\ Statement(ok)
        /\ IF LiveTaskCount(ok) >= MaxFreeVms
           THEN NiqToLog(c, Aborted) ELSE NiqToPending(c)

NiqResume(c) ==
    /\ ~c.row.logQueueFailed /\ c.row.status = RunningNotInQueue
    /\ NiqToRunning(c)
    /\ UNCHANGED faults

NiqPush(c) ==
    /\ c \in niqBatch /\ niqWrite = None
    /\ niqBatch' = niqBatch \ {c}
    /\ NiqRelog(c) \/ NiqScanFound(c) \/ NiqAdmit(c) \/ NiqResume(c)
    /\ UNCHANGED <<dbVars, pendVars, runVars, logRead, sandbox, asyncVars>>

\* Mutant of AppliedWrite: the test of the target queue is missing.
AppliedStatus(table, w) == SetStatus(table, w.id, w.status)

\* updateLogQueueFail(id, false) or updateTaskStatus(id, newStatus)
AppliedWrite(table, w) ==
    IF w.status = None THEN ClearLogQueueFailed(table, w.id)
    ELSE SetStatus(table, w.id, w.status)

NiqUpdate ==
    /\ niqWrite # None
    /\ niqWrite' = None
    /\ \E ok \in BOOLEAN :
        /\ Statement(ok)
        /\ live' = IF ok THEN AppliedWrite(live, niqWrite) ELSE live
    /\ UNCHANGED <<fod, dup, finished, files, channelVars, niqBatch, pendVars,
                   runVars, logRead, sandbox, asyncVars>>

-----------------------------------------------------------------------------
(* PendingQueueHandler and its goroutines.                                 *)

SandboxLoad == Cardinality({i \in 1 .. Len(sandbox) : sandbox[i].state = "active"})

\* FetchSandboxTaskCountWhichAreNotReported: zero when the listing fails.
NotReported(ok) == IF ok THEN SandboxLoad ELSE 0

PendFetch ==
    /\ pendBatch = <<>> /\ pendingQueue # <<>>
    /\ \E ok \in ListOutcomes :
        /\ NotReported(ok) < MaxFreeVms
        /\ LET freeVms == MaxFreeVms - NotReported(ok)
           IN  /\ pendBatch' = Taken(pendingQueue, freeVms)
               /\ pendingQueue' = Left(pendingQueue, freeVms)
    /\ UNCHANGED <<dbVars, runningQueue, logQueue, niqVars, submitters, runVars,
                   logRead, sandbox, asyncVars, faults>>

GivesUp(c) == c.row.queueRetryCount >= QueueMaxRetries \/ TRUE \in Expiry
GoesOn(c)  == c.row.queueRetryCount < QueueMaxRetries /\ FALSE \in Expiry

PendGiveUp ==
    /\ pendBatch # <<>>
    /\ GivesUp(Head(pendBatch))
    /\ ChangeStatusAndPushToLogQueue(Head(pendBatch), Aborted)
    /\ pendBatch' = Tail(pendBatch)
    /\ UNCHANGED <<fod, dup, finished, files, pendingQueue, runningQueue, niqVars,
                   submitters, runVars, logRead, sandbox, asyncVars>>

\* pendingSem.Acquire, go func(task)
PendSpawn(s) ==
    /\ pendBatch # <<>>
    /\ GoesOn(Head(pendBatch))
    /\ submitters[s] = None
    /\ submitters' = [submitters EXCEPT ![s] =
            [stage |-> "sending", copy |-> Head(pendBatch), status |-> PendingInQueue]]
    /\ pendBatch' = Tail(pendBatch)
    /\ UNCHANGED <<dbVars, channelVars, niqVars, runVars, logRead, sandbox,
                   asyncVars, faults>>

Sending(s) == submitters[s] # None /\ submitters[s].stage = "sending"

NewSandboxTask(t) == [task |-> t, state |-> "active"]
\* Mutant of NextSandboxId: the id the sandbox gave out before.
LastSandboxId == Len(sandbox)

NextSandboxId == Len(sandbox) + 1

\* sendToSandbox returned an id: push to RunningQueue; the status change
\* follows in a second step, when a handler may already have the copy.
SubmitAccepted(s) ==
    /\ Sending(s)
    /\ "accepted" \in SubmitOutcomes
    /\ Len(sandbox) < MaxSandboxTasks
    /\ LET c  == submitters[s].copy
           c2 == [c EXCEPT !.row.sandboxId = NextSandboxId]
       IN  /\ files[c.id] # None
           /\ sandbox' = Append(sandbox, NewSandboxTask(c.id))
           /\ runningQueue' = IF HasRoom(runningQueue, RunningCapacity)
                              THEN Append(runningQueue, c2) ELSE runningQueue
           /\ submitters' = [submitters EXCEPT ![s] =
                [stage |-> "logging", copy |-> c2,
                 status |-> IF HasRoom(runningQueue, RunningCapacity)
                            THEN RunningInQueue ELSE RunningNotInQueue]]
    /\ UNCHANGED <<dbVars, pendingQueue, logQueue, niqVars, pendBatch, runVars,
                   logRead, asyncVars, faults>>

\* changeStatusAndPushToLogQueue(task, RunningInQueue / RunningNotInQueue)
SubmitLogged(s) ==
    /\ submitters[s] # None /\ submitters[s].stage = "logging"
    /\ ChangeStatusAndPushToLogQueue(submitters[s].copy, submitters[s].status)
    /\ submitters' = [submitters EXCEPT ![s] = None]
    /\ UNCHANGED <<fod, dup, finished, files, pendingQueue, runningQueue, niqVars,
                   pendBatch, runVars, logRead, sandbox, asyncVars>>

\* The copy could go neither to the sandbox nor back to PendingQueue.
SubmitRetryThroughLog(c) ==
    IF c.row.queueRetryCount >= QueueMaxRetries
    THEN ChangeStatusAndPushToLogQueue(c, Aborted)
    ELSE ChangeStatusAndPushToLogQueue(WithStatus(c, PendingNotInQueue), PendingNotInQueue)

\* Mutant of Retried: the failed request is not counted.
RetriedUncounted(c) == c

Retried(c) == [c EXCEPT !.row.sandboxRetryCount = @ + 1]

\* sendToSandbox returned an error: the sample is gone, the request was
\* refused, or the sandbox took it and the answer was lost.
SubmitFailed(s) ==
    /\ Sending(s)
    /\ LET c == Retried(submitters[s].copy)
       IN  /\ \/ /\ files[c.id] = None \/ "refused" \in SubmitOutcomes
                 /\ UNCHANGED sandbox
              \/ /\ files[c.id] # None /\ "lost" \in SubmitOutcomes
                 /\ Len(sandbox) < MaxSandboxTasks
                 /\ sandbox' = Append(sandbox, NewSandboxTask(c.id))
           /\ \/ /\ c.row.sandboxRetryCount >= SandboxMaxRetries
                 /\ ChangeStatusAndPushToLogQueue(c, Aborted)
                 /\ UNCHANGED pendingQueue
              \/ /\ c.row.sandboxRetryCount < SandboxMaxRetries
                 /\ HasRoom(pendingQueue, PendingCapacity)
                 /\ pendingQueue' = Append(pendingQueue, c)
                 /\ UNCHANGED <<logQueue, live, faults>>
              \/ /\ c.row.sandboxRetryCount < SandboxMaxRetries
                 /\ ~HasRoom(pendingQueue, PendingCapacity)
                 /\ SubmitRetryThroughLog([c EXCEPT !.row.queueRetryCount = @ + 1])
                 /\ UNCHANGED pendingQueue
    /\ submitters' = [submitters EXCEPT ![s] = None]
    /\ UNCHANGED <<fod, dup, finished, files, runningQueue, niqVars, pendBatch,
                   runVars, logRead, asyncVars>>

-----------------------------------------------------------------------------
(* RunningQueueHandler.                                                    *)

\* fetchAllTasksFromSandbox.  A failed listing is a retry of the loop.
RunList ==
    /\ runView = None
    /\ runView' = [i \in 1 .. Len(sandbox) |-> sandbox[i].state]
    /\ UNCHANGED <<dbVars, channelVars, niqVars, pendVars, runBatch, logRead,
                   sandbox, asyncVars, faults>>

\* fetchTasksFromQueue(RunningQueue, -1)
RunFetch ==
    /\ runView # None /\ runBatch = <<>>
    /\ runBatch' = runningQueue
    /\ runningQueue' = <<>>
    /\ runView' = IF runningQueue = <<>> THEN None ELSE runView
    /\ UNCHANGED <<dbVars, pendingQueue, logQueue, niqVars, pendVars, logRead,
                   sandbox, asyncVars, faults>>

\* sandboxTaskMap[task.SandboxId]
Listed(c) == c.row.sandboxId \in DOMAIN runView /\ runView[c.row.sandboxId] # "gone"

\* Mutant of LogNotFound: the task is only pushed when it is given up.
LogNotFoundDropped(st, c, ok) ==
    LET c2 == [c EXCEPT !.row.runningRetryCount = @ + 1]
    IN  IF c2.row.runningRetryCount >= RunningMaxRetries
        THEN LogChange(st, c2, Aborted, ok) ELSE st

\* Not in the listing: a retry, and after RUNNING_MAX_RETRIES of them the task
\* is pushed as aborted AND as not in queue.
LogNotFound(st, c, ok) ==
    LET c2 == [c EXCEPT !.row.runningRetryCount = @ + 1]
        st2 == IF c2.row.runningRetryCount >= RunningMaxRetries
               THEN LogChange(st, c2, Aborted, ok) ELSE st
    IN  LogChange(st2, c2, RunningNotInQueue, ok)

RunCheck ==
    /\ runBatch # <<>>
    /\ LET c == Head(runBatch)
           found == Listed(c)
           state == runView[c.row.sandboxId]
           settles(s) == ChangeStatusAndPushToLogQueue(c, s) /\ UNCHANGED runningQueue
       IN  \/ /\ c.row.runningRetryCount >= RunningMaxRetries
              /\ settles(Aborted)
           \/ /\ c.row.runningRetryCount < RunningMaxRetries /\ ~found
              /\ \E ok \in BOOLEAN :
                   Statement(ok) /\ LogStateBecomes(LogNotFound(LogState, c, ok))
              /\ UNCHANGED runningQueue
           \/ /\ c.row.runningRetryCount < RunningMaxRetries /\ found
              /\ \/ state = "reported" /\ settles(Reported)
                 \/ state = "failed_analysis" /\ settles(Aborted)
                 \/ state = "active" /\ TRUE \in Expiry /\ settles(Aborted)
                 \/ /\ state = "active" /\ FALSE \in Expiry
                    /\ IF HasRoom(runningQueue, RunningCapacity)
                       THEN /\ runningQueue' = Append(runningQueue, c)
                            /\ UNCHANGED <<logQueue, live, faults>>
                       ELSE settles(RunningNotInQueue)
    /\ runBatch' = Tail(runBatch)
    /\ runView' = IF Len(runBatch) = 1 THEN None ELSE runView
    /\ UNCHANGED <<fod, dup, finished, files, pendingQueue, niqVars, pendVars,
                   logRead, sandbox, asyncVars>>

-----------------------------------------------------------------------------
(* LogQueueHandler and processLogQueueTasks.  The batch of twenty it has   *)
(* popped is not told apart from what is still in the channel: it is the    *)
(* only receiver and handles the copies in the order they were sent.        *)

\* Scores a copy may finish with: the sandbox's for a report it still has, zero
\* when the report cannot be fetched or the task was aborted, 3.5 for a scan.
ScoresOf(c) ==
    CASE c.row.status = Aborted -> {0}
      [] c.row.status = Scanned -> {1}
      [] OTHER -> IF /\ c.row.sandboxId \in DOMAIN sandbox
                     /\ sandbox[c.row.sandboxId].state = "reported"
                  THEN Scores ELSE {0}

\* Mutant of DuplicatesToSettle: ORDER BY id LIMIT 1 is missing after an abort.
EveryDuplicate(c) == DuplicatesOf(c.row.hash)

\* The duplicates to settle with the task, read outside the transaction: all
\* of them after a report, the lowest id after an abort.
DuplicatesToSettle(c) ==
    IF c.row.status = Aborted THEN LowestOf(DuplicatesOf(c.row.hash))
    ELSE DuplicatesOf(c.row.hash)

\* A query that fails reads no duplicate.
DuplicatesRead(c, ok) == IF ok THEN DuplicatesToSettle(c) ELSE {}

\* Mutants of EarlyDeletions: an abort deletes the samples too; or no duplicate's
\* sample is ever deleted.
EveryDuplicateSample(c, D) == {"file"} \X D
NoDuplicateSample(c, D) == {}

\* processDuplicateTasksForReported deletes the samples of the duplicates it
\* read before their transaction has run.
EarlyDeletions(c, D) == IF c.row.status = Aborted THEN {} ELSE {"file"} \X D

LogPrepare ==
    /\ logQueue # <<>> /\ logRead = None
    /\ LET c == Head(logQueue)
       IN  /\ c.row.status \in FinalStatuses
           /\ \E ok \in BOOLEAN, score \in ScoresOf(c) :
                /\ Statement(ok)
                /\ logRead' = [score |-> score, dups |-> DuplicatesRead(c, ok)]
                /\ deletions' = deletions \cup EarlyDeletions(c, DuplicatesRead(c, ok))
    /\ UNCHANGED <<dbVars, channelVars, niqVars, pendVars, runVars, sandbox, told>>

\* go deleteSandboxData / go deleteLocalTask, whether or not the rows moved
CleanUp(c) ==
    {<<"file", c.id>>} \cup
    {d \in {<<"sandbox", c.row.sandboxId>>} :
        c.row.status = Reported /\ c.row.sandboxId # 0}

\* Mutant of Answer: no verdict reads as ALLOW.
AnswerAllow(row) == IF row = None \/ row.verdict = "none" THEN "allow" ELSE row.verdict

\* SendAcknowledgementToClientIp
Answer(row) == IF row = None \/ row.verdict = "none" THEN "analysing" ELSE row.verdict

LogCommit ==
    /\ logQueue # <<>> /\ logRead # None
    /\ LET c == Head(logQueue)
       IN  /\ \E ok \in BOOLEAN :
                /\ Statement(ok)
                /\ IF ~ok THEN UNCHANGED <<fod, live, dup, finished>>
                   ELSE IF c.row.status = Aborted THEN Abort(c.id, logRead.dups)
                   ELSE Finish(c.id, logRead.dups, logRead.score)
           /\ told' = [told EXCEPT ![c.id] = Answer(fod'[c.id])]
           /\ deletions' = deletions \cup CleanUp(c)
    /\ logQueue' = Tail(logQueue)
    /\ logRead' = None
    /\ UNCHANGED <<files, pendingQueue, runningQueue, niqVars, pendVars, runVars,
                   sandbox>>

\* updateStatusChangeDirectlyThroughDb
LogStatus ==
    /\ logQueue # <<>>
    /\ LET c == Head(logQueue)
       IN  /\ c.row.status \notin FinalStatuses
           /\ \E ok \in BOOLEAN :
                /\ Statement(ok)
                /\ live' = IF ok THEN WriteRow(live, c.id, c.row) ELSE live
    /\ logQueue' = Tail(logQueue)
    /\ UNCHANGED <<fod, dup, finished, files, pendingQueue, runningQueue, niqVars, pendVars,
                   runVars, logRead, sandbox, asyncVars>>

-----------------------------------------------------------------------------
(* Goroutines that delete, the sandbox itself, and the restart.            *)

DeleteLocalTask(t) ==
    /\ <<"file", t>> \in deletions
    /\ deletions' = deletions \ {<<"file", t>>}
    /\ files' = [files EXCEPT ![t] = None]
    /\ UNCHANGED <<fod, live, dup, finished, channelVars, niqVars, pendVars,
                   runVars, logRead, sandbox, told, faults>>

DeleteSandboxData(i) ==
    /\ <<"sandbox", i>> \in deletions
    /\ deletions' = deletions \ {<<"sandbox", i>>}
    /\ sandbox' = IF i \in DOMAIN sandbox
                  THEN [sandbox EXCEPT ![i].state = "gone"] ELSE sandbox
    /\ UNCHANGED <<dbVars, channelVars, niqVars, pendVars, runVars, logRead,
                   told, faults>>

\* The sandbox settles an analysis, or loses it.
SandboxSettles(i) ==
    /\ i \in DOMAIN sandbox /\ sandbox[i].state = "active"
    /\ \E e \in SandboxEnds : sandbox' = [sandbox EXCEPT ![i].state = e]
    /\ UNCHANGED <<dbVars, channelVars, niqVars, pendVars, runVars, logRead,
                   asyncVars, faults>>

EmptyMemory ==
    /\ pendingQueue = <<>> /\ runningQueue = <<>> /\ logQueue = <<>>
    /\ niqBatch = {} /\ niqWrite = None
    /\ pendBatch = <<>> /\ submitters = [s \in 1 .. MaxSubmitters |-> None]
    /\ runView = None /\ runBatch = <<>>
    /\ logRead = None
    /\ deletions = {}

\* The process dies and init() of main.go runs again, after a reboot of the
\* device or without one.
Restart(rebooted) ==
    /\ "restart" \in FaultKinds /\ faults < MaxFaults
    /\ faults' = faults + 1
    /\ pendingQueue' = <<>> /\ runningQueue' = <<>> /\ logQueue' = <<>>
    /\ niqBatch' = {} /\ niqWrite' = None
    /\ pendBatch' = <<>> /\ submitters' = [s \in 1 .. MaxSubmitters |-> None]
    /\ runView' = None /\ runBatch' = <<>>
    /\ logRead' = None
    /\ deletions' = {}
    /\ live' = ResetQueueDb(live, rebooted)
    /\ UNCHANGED <<fod, dup, finished, files, sandbox, told>>

-----------------------------------------------------------------------------
(* A store that has just been opened: every file accepted and none analysed *)
(* yet, the later ones of a digest waiting as duplicates of the first.      *)
FirstOf(h, t) == \A u \in Tasks : h[u] = h[t] => t <= u

PipelineInit ==
    \E h \in [Tasks -> Hashes] :
        /\ fod = [t \in Tasks |-> [hash |-> h[t], rating |-> "none", verdict |-> "none"]]
        /\ live = [t \in Tasks |-> IF FirstOf(h, t) THEN NewLiveRow(h[t]) ELSE None]
        /\ dup = {t \in Tasks : ~FirstOf(h, t)}
        /\ finished = [t \in Tasks |-> 0]
        /\ files = h
        /\ EmptyMemory
        /\ sandbox = <<>>
        /\ told = [t \in Tasks |-> "none"]
        /\ faults = 0

NiqNext  == NiqFetch \/ (\E c \in niqBatch : NiqPush(c)) \/ NiqUpdate
PendNext == PendFetch \/ PendGiveUp \/ \E s \in 1 .. MaxSubmitters : PendSpawn(s)
SubmitNext(s) == SubmitAccepted(s) \/ SubmitFailed(s) \/ SubmitLogged(s)
RunNext  == RunList \/ RunFetch \/ RunCheck
LogNext  == LogPrepare \/ LogCommit \/ LogStatus
DeleteNext == \/ \E t \in Tasks : DeleteLocalTask(t)
              \/ \E i \in 1 .. MaxSandboxTasks : DeleteSandboxData(i)
SandboxNext(i) == SandboxSettles(i)

PipelineNext ==
    \/ NiqNext \/ PendNext \/ RunNext \/ LogNext \/ DeleteNext
    \/ \E s \in 1 .. MaxSubmitters : SubmitNext(s)
    \/ \E i \in 1 .. MaxSandboxTasks : SandboxNext(i)
    \/ \E rebooted \in BOOLEAN : Restart(rebooted)

PipelineSpec == PipelineInit /\ [][PipelineNext]_pipelineVars

\* Each handler is a loop that never returns; a goroutine runs until it is
\* done; the sandbox ends every analysis.  Restarts and failing statements
\* are never owed.
HandlerFairness ==
    /\ WF_pipelineVars(NiqNext) /\ WF_pipelineVars(PendNext)
    /\ WF_pipelineVars(RunNext) /\ WF_pipelineVars(LogNext)
    /\ \A s \in 1 .. MaxSubmitters : WF_pipelineVars(SubmitNext(s))
    /\ \A t \in Tasks : WF_pipelineVars(DeleteLocalTask(t))
    /\ \A i \in 1 .. MaxSandboxTasks : /\ WF_pipelineVars(SandboxNext(i))
                                      /\ WF_pipelineVars(DeleteSandboxData(i))

FairPipelineSpec == PipelineSpec /\ HandlerFairness

-----------------------------------------------------------------------------
(* What the pipeline has to keep.                                          *)

\* The client is told ALLOW or BLOCK only when that verdict is stored, also when
\* the transaction before SendAcknowledgementToClientIp failed and was ignored.
ToldOnceSettled ==
    \A t \in Tasks : told[t] \in {"allow", "block"} => Settled(t)

\* A sample that is still to be analysed stays on disk, and no goroutine is
\* about to remove it: only the duplicates whose transaction is under way lose
\* theirs early (db.go:91).
SampleKept ==
    \A t \in Tasks :
        live[t] # None \/ (t \in dup /\ (logRead = None \/ t \notin logRead.dups)) =>
            files[t] # None /\ <<"file", t>> \notin deletions

\* A file is handed to the sandbox at most once, although its row is read by
\* NotInQueueHandler while its copies move through the channels.
SentOnce == \A t \in Tasks : Cardinality({i \in DOMAIN sandbox : sandbox[i].task = t}) <= 1

CopiesIn(q, t) == Cardinality({i \in DOMAIN q : q[i].id = t})

\* At most one copy of a task is on its way to the sandbox or waits for its
\* report: channels, batches and goroutines together.
OneWorkingCopy ==
    \A t \in Tasks :
        CopiesIn(pendingQueue, t) + CopiesIn(pendBatch, t)
        + Cardinality({s \in 1 .. MaxSubmitters : Sending(s) /\ submitters[s].copy.id = t})
        + CopiesIn(runningQueue, t) + CopiesIn(runBatch, t) <= 1

\* A stored verdict is never replaced by a later log entry of the same task.
VerdictStands == [][\A t \in Tasks : Settled(t) => fod'[t] = fod[t]]_pipelineVars

\* A task gets one row in task_finished_tables, whatever number of log entries
\* its copies produced.
FinishedOnce == \A t \in Tasks : finished[t] <= 1

\* The sandbox id a copy or a row carries was given out for that very file, so
\* fetchScoreFromSandBox never reads the report of another one.
OwnId(id, row) ==
    row.sandboxId # 0 =>
        row.sandboxId \in DOMAIN sandbox /\ sandbox[row.sandboxId].task = id

OwnIdsIn(q) == \A i \in DOMAIN q : OwnId(q[i].id, q[i].row)

OwnReport ==
    /\ \A t \in Tasks : live[t] # None => OwnId(t, live[t])
    /\ OwnIdsIn(pendingQueue) /\ OwnIdsIn(runningQueue) /\ OwnIdsIn(logQueue)
    /\ OwnIdsIn(pendBatch) /\ OwnIdsIn(runBatch)
    /\ \A c \in niqBatch : OwnId(c.id, c.row)
    /\ \A s \in 1 .. MaxSubmitters :
        submitters[s] # None => OwnId(submitters[s].copy.id, submitters[s].copy.row)

\* A live task that leaves the table under its own digest takes its duplicates
\* along, or leaves one of them live in its place.
DigestServed(h) == \E t \in Tasks : live[t] # None /\ fod[t].hash = h

DuplicatesServed ==
    [][\A t \in Tasks, h \in Hashes :
        live[t] # None /\ live'[t] = None /\ live[t].hash = h =>
            DigestServed(h)' \/ \A d \in dup' : fod[d].hash # h]_pipelineVars

Carries(q, t) == \E i \in DOMAIN q : q[i].id = t

\* Some handler will still move the task.  A log entry "running in queue" only
\* confirms that another copy is in RunningQueue.
Carried(t) ==
    \/ Carries(pendingQueue, t) \/ Carries(pendBatch, t)
    \/ Carries(runningQueue, t) \/ Carries(runBatch, t)
    \/ \E c \in niqBatch : c.id = t
    \/ \E s \in 1 .. MaxSubmitters :
        /\ submitters[s] # None /\ submitters[s].copy.id = t
        /\ submitters[s].status # RunningInQueue
    \/ \E i \in DOMAIN logQueue :
        logQueue[i].id = t /\ logQueue[i].row.status # RunningInQueue

\* A live row no query selects and no copy stands for: only a restart helps.
Stranded(t) == live[t] # None /\ ~NotInQueue(t) /\ ~Carried(t)

\* No handler loses a task by dropping its copy: what strands it is an UPDATE
\* applied late, after the copy it was about has moved on, or a fault.  After such
\* an UPDATE NotInQueueHandler may hold the only copy, and drop it at a full channel.
DropsStaleCopy(t) ==
    ~NotInQueue(t) /\ \E c \in niqBatch : c.id = t /\ NiqPush(c)

OnlyLateWritesStrand ==
    [][\A t \in Tasks :
        ~Stranded(t) /\ Stranded(t)' =>
            NiqUpdate \/ LogStatus \/ DropsStaleCopy(t) \/ faults' # faults]_pipelineVars

\* ResetQueueDb puts every task the dead process held back within reach of
\* fetchNotInQueueTasks.
RestartRecovers ==
    [][(\E rebooted \in BOOLEAN : Restart(rebooted)) =>
            \A t \in Tasks : live'[t] # None => NotInQueue(t)']_pipelineVars

\* Fewer than MAX_FREE_VMS live tasks are ever on their way to the sandbox or in it
\* at once.  NotInQueueHandler counts live rows when it admits a task; the tasks
\* it admitted before then move through three channels and two other handlers.
WorkingTasks ==
    {t \in LiveTasks :
        \/ Carries(pendingQueue, t) \/ Carries(pendBatch, t)
        \/ Carries(runningQueue, t) \/ Carries(runBatch, t)
        \/ \E s \in 1 .. MaxSubmitters : Sending(s) /\ submitters[s].copy.id = t}

AdmissionBounded == Cardinality(WorkingTasks) < MaxFreeVms

\* Every live task is settled in the end, unless a late UPDATE stranded it.
EventuallySettled ==
    \A t \in Tasks : (live[t] # None) ~> (Settled(t) \/ Stranded(t))

\* The sample of a settled task is removed in the end, a duplicate's too.
SampleRemoved == \A t \in Tasks : Settled(t) ~> (files[t] = None)

-----------------------------------------------------------------------------
(* What queue.go says of itself.                                           *)

\* queue.go:223: "update log_queue_failed to 0, so that it will not be retried".
\* Once the flag of a row is cleared, the log entry the handler pushed does not
\* set it again.
StaysUnflagged ==
    [][\A t \in Tasks :
        live[t] # None /\ live'[t] # None /\ ~live[t].logQueueFailed /\ LogStatus
            => ~live'[t].logQueueFailed]_pipelineVars

\* The same comment, for a task NotInQueueHandler settles itself: it is pushed
\* to LogQueue once and not picked up again.
NotRetried ==
    \A t \in Tasks :
        Cardinality({i \in DOMAIN logQueue :
            logQueue[i].id = t /\ logQueue[i].row.status \in {Scanned, Aborted}}) <= 1
=============================================================================
