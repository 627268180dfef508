------------------------- MODULE TaskPipelineProofs -------------------------
(***************************************************************************)
(* Theorems about TaskPipeline, for every size of the tables, the channels *)
(* and the sandbox.                                                        *)
(***************************************************************************)
EXTENDS TaskPipeline, AnalysisDbProofs, FiniteSetTheorems, SequenceTheorems, TLAPS

-----------------------------------------------------------------------------
(* Helpers on channels and rows.                                           *)

\* Receiving never invents a copy (fetchTasksFromQueue).
LEMMA TakenLeftType ==
    ASSUME NEW S, NEW q \in Seq(S), NEW n \in Nat
    PROVE  Taken(q, n) \in Seq(S) /\ Left(q, n) \in Seq(S)
<1>1. Least(n, Len(q)) \in 0 .. Len(q)
  BY DEF Least
<1>. QED
  BY <1>1 DEF Taken, Left

LEMMA WithStatusType ==
    ASSUME NEW S, NEW T, NEW c \in [id : Tasks, row : RowOver(S)], NEW s \in T
    PROVE  WithStatus(c, s) \in [id : Tasks, row : RowOver(T)]
BY DEF WithStatus, RowOver

LEMMA LiveCopyIsTaskCopy == LiveCopy \subseteq TaskCopy
BY DEF LiveCopy, TaskCopy, RowOver, TaskStatuses

\* A retry counter of a copy goes up by one.
LEMMA CountedType ==
    ASSUME NEW c \in LiveCopy
    PROVE  /\ [c EXCEPT !.row.sandboxRetryCount = @ + 1] \in LiveCopy
           /\ [c EXCEPT !.row.queueRetryCount = @ + 1] \in LiveCopy
           /\ [c EXCEPT !.row.runningRetryCount = @ + 1] \in LiveCopy
<1>. DEFINE row == c.row
<1>1. row \in RowOver(LiveStatuses) /\ c.id \in Tasks
  BY DEF LiveCopy
<1>2. /\ row.sandboxRetryCount + 1 \in Nat /\ row.queueRetryCount + 1 \in Nat
      /\ row.runningRetryCount + 1 \in Nat
  BY <1>1 DEF RowOver
<1>. HIDE DEF row
<1>3. /\ [row EXCEPT !.sandboxRetryCount = @ + 1] \in RowOver(LiveStatuses)
      /\ [row EXCEPT !.queueRetryCount = @ + 1] \in RowOver(LiveStatuses)
      /\ [row EXCEPT !.runningRetryCount = @ + 1] \in RowOver(LiveStatuses)
  BY <1>1, <1>2 DEF RowOver
<1>. USE DEF row
<1>4. c = [id |-> c.id, row |-> row]
  BY DEF LiveCopy
<1>. QED
  BY <1>1, <1>3, <1>4 DEF LiveCopy

LEMMA WriteRowType ==
    ASSUME NEW table \in LiveTable, NEW t \in Tasks, NEW row \in RowOver(LiveStatuses)
    PROVE  WriteRow(table, t, row) \in LiveTable
BY DEF WriteRow, LiveTable, RowOver

LEMMA AppliedWriteType ==
    ASSUME NEW table \in LiveTable,
           NEW w \in [id : Tasks, status : LiveStatuses \cup {None}]
    PROVE  AppliedWrite(table, w) \in LiveTable
BY DEF AppliedWrite, SetStatus, ClearLogQueueFailed, LiveTable, RowOver

LogStates == [queue : Seq(TaskCopy), table : LiveTable]

LEMMA LogChangeType ==
    ASSUME NEW st \in LogStates, NEW c \in LiveCopy, NEW s \in TaskStatuses,
           NEW ok \in BOOLEAN
    PROVE  LogChange(st, c, s, ok) \in LogStates
<1>1. WithStatus(c, s) \in TaskCopy
  BY WithStatusType DEF LiveCopy, TaskCopy
<1>2. Append(st.queue, WithStatus(c, s)) \in Seq(TaskCopy)
  BY <1>1, AppendProperties DEF LogStates
<1>3. c.id \in Tasks /\ [c.row EXCEPT !.logQueueFailed = TRUE] \in RowOver(LiveStatuses)
  BY DEF LiveCopy, RowOver
<1>4. WriteRow(st.table, c.id, [c.row EXCEPT !.logQueueFailed = TRUE]) \in LiveTable
  BY <1>3, WriteRowType DEF LogStates
<1>. QED
  BY <1>2, <1>4 DEF LogChange, Push, LogStates

\* A statement that runs or fails leaves the count of faults a number.
LEMMA StatementType ==
    ASSUME PipelineTypeOK, NEW ok \in BOOLEAN, Statement(ok)
    PROVE  faults' \in Nat
BY DEF PipelineTypeOK, Statement

LEMMA LogStateType == PipelineTypeOK => LogState \in LogStates
BY DEF PipelineTypeOK, DbTypeOK, LogState, LogStates, LiveTable

LEMMA ChangeStatusType ==
    ASSUME PipelineTypeOK, NEW c \in LiveCopy, NEW s \in TaskStatuses,
           ChangeStatusAndPushToLogQueue(c, s)
    PROVE  logQueue' \in Seq(TaskCopy) /\ live' \in LiveTable /\ faults' \in Nat
<1>1. PICK ok \in BOOLEAN : /\ Statement(ok)
                            /\ LogStateBecomes(LogChange(LogState, c, s, ok))
  BY DEF ChangeStatusAndPushToLogQueue
<1>2. LogChange(LogState, c, s, ok) \in LogStates
  BY LogStateType, LogChangeType
<1>3. faults' \in Nat
  BY <1>1, StatementType
<1>. QED
  BY <1>1, <1>2, <1>3 DEF LogStateBecomes, LogStates

-----------------------------------------------------------------------------
(* Every action keeps the types.                                           *)

LEMMA InitType == PipelineInit => PipelineTypeOK
<1>. SUFFICES ASSUME PipelineInit PROVE PipelineTypeOK
  OBVIOUS
<1>1. PICK h \in [Tasks -> Hashes] :
        /\ fod = [t \in Tasks |-> [hash |-> h[t], rating |-> "none", verdict |-> "none"]]
        /\ live = [t \in Tasks |-> IF FirstOf(h, t) THEN NewLiveRow(h[t]) ELSE None]
        /\ dup = {t \in Tasks : ~FirstOf(h, t)}
        /\ finished = [t \in Tasks |-> 0]
        /\ files = h
        /\ EmptyMemory
        /\ sandbox = <<>>
        /\ told = [t \in Tasks |-> "none"]
        /\ faults = 0
  BY DEF PipelineInit
<1>2. \A t \in Tasks : NewLiveRow(h[t]) \in RowOver(LiveStatuses)
  BY DEF NewLiveRow, RowOver, LiveStatuses, PendingNotInQueue
<1>3. DbTypeOK
  BY <1>1, <1>2 DEF DbTypeOK, FodRow, Ratings, Verdicts
<1>. QED
  BY <1>1, <1>3 DEF PipelineTypeOK, EmptyMemory

LEMMA NiqFetchType == PipelineTypeOK /\ NiqFetch => PipelineTypeOK'
<1>. SUFFICES ASSUME PipelineTypeOK, NiqFetch PROVE PipelineTypeOK'
  OBVIOUS
<1>1. \A t \in Tasks : NotInQueue(t) => CopyOf(t) \in LiveCopy
  BY DEF PipelineTypeOK, DbTypeOK, NotInQueue, CopyOf, LiveCopy
<1>2. niqBatch' \subseteq LiveCopy
  BY <1>1 DEF NiqFetch
<1>. QED
  BY <1>2 DEF PipelineTypeOK, DbTypeOK, NiqFetch, dbVars, channelVars, pendVars,
              runVars, asyncVars

\* NotInQueueHandler pushes a copy of the row it holds, with another status.
LEMMA PushedType ==
    ASSUME NEW S \in {LiveStatuses, TaskStatuses}, NEW c \in LiveCopy, NEW s \in S,
           NEW capacity, NEW q \in Seq([id : Tasks, row : RowOver(S)])
    PROVE  Pushed(q, capacity, c, s) \in Seq([id : Tasks, row : RowOver(S)])
<1>1. WithStatus(c, s) \in [id : Tasks, row : RowOver(S)]
  BY WithStatusType DEF LiveCopy
<1>. QED
  BY <1>1, AppendProperties DEF Pushed, Push

LEMMA WriteDueType ==
    ASSUME NEW room, NEW c \in LiveCopy, NEW s \in LiveStatuses \cup {None}
    PROVE  WriteDue(room, c, s) \in [id : Tasks, status : LiveStatuses \cup {None}] \cup {None}
BY DEF WriteDue, LiveCopy

LEMMA NiqToLogType ==
    ASSUME PipelineTypeOK, NEW c \in LiveCopy, NEW s \in TaskStatuses, NiqToLog(c, s)
    PROVE  /\ pendingQueue' \in Seq(LiveCopy) /\ runningQueue' \in Seq(LiveCopy)
           /\ logQueue' \in Seq(TaskCopy)
           /\ niqWrite' \in [id : Tasks, status : LiveStatuses \cup {None}] \cup {None}
<1>1. logQueue' \in Seq(TaskCopy)
  BY PushedType DEF PipelineTypeOK, NiqToLog, TaskCopy
<1>2. niqWrite' \in [id : Tasks, status : LiveStatuses \cup {None}] \cup {None}
  BY WriteDueType DEF NiqToLog
<1>. QED
  BY <1>1, <1>2 DEF PipelineTypeOK, NiqToLog

LEMMA NiqToPendingType ==
    ASSUME PipelineTypeOK, NEW c \in LiveCopy, NiqToPending(c)
    PROVE  /\ pendingQueue' \in Seq(LiveCopy) /\ runningQueue' \in Seq(LiveCopy)
           /\ logQueue' \in Seq(TaskCopy)
           /\ niqWrite' \in [id : Tasks, status : LiveStatuses \cup {None}] \cup {None}
<1>0. PendingInQueue \in LiveStatuses
  BY DEF LiveStatuses
<1>1. pendingQueue' \in Seq(LiveCopy)
  BY <1>0, PushedType DEF PipelineTypeOK, NiqToPending, LiveCopy
<1>2. niqWrite' \in [id : Tasks, status : LiveStatuses \cup {None}] \cup {None}
  BY <1>0, WriteDueType DEF NiqToPending
<1>. QED
  BY <1>1, <1>2 DEF PipelineTypeOK, NiqToPending

LEMMA NiqToRunningType ==
    ASSUME PipelineTypeOK, NEW c \in LiveCopy, NiqToRunning(c)
    PROVE  /\ pendingQueue' \in Seq(LiveCopy) /\ runningQueue' \in Seq(LiveCopy)
           /\ logQueue' \in Seq(TaskCopy)
           /\ niqWrite' \in [id : Tasks, status : LiveStatuses \cup {None}] \cup {None}
<1>0. RunningInQueue \in LiveStatuses
  BY DEF LiveStatuses
<1>1. runningQueue' \in Seq(LiveCopy)
  BY <1>0, PushedType DEF PipelineTypeOK, NiqToRunning, LiveCopy
<1>2. niqWrite' \in [id : Tasks, status : LiveStatuses \cup {None}] \cup {None}
  BY <1>0, WriteDueType DEF NiqToRunning
<1>. QED
  BY <1>1, <1>2 DEF PipelineTypeOK, NiqToRunning

LEMMA NiqPushType ==
    ASSUME PipelineTypeOK, NEW c \in niqBatch, NiqPush(c)
    PROVE  PipelineTypeOK'
<1>1. c \in LiveCopy
  BY DEF PipelineTypeOK
<1>2. /\ pendingQueue' \in Seq(LiveCopy) /\ runningQueue' \in Seq(LiveCopy)
      /\ logQueue' \in Seq(TaskCopy)
      /\ niqWrite' \in [id : Tasks, status : LiveStatuses \cup {None}] \cup {None}
      /\ faults' \in Nat
  <2>1. CASE NiqRelog(c)
    <3>1. RequeueStatus(c.row.status) \in TaskStatuses
      BY <1>1 DEF RequeueStatus, LiveCopy, RowOver, TaskStatuses, LiveStatuses
    <3>. QED
      BY <1>1, <2>1, <3>1, NiqToLogType DEF NiqRelog, PipelineTypeOK
  <2>2. CASE NiqScanFound(c)
    <3>1. Scanned \in TaskStatuses
      BY DEF TaskStatuses, FinalStatuses
    <3>. QED
      BY <1>1, <2>2, <3>1, NiqToLogType DEF NiqScanFound, PipelineTypeOK
  <2>3. CASE NiqAdmit(c)
    <3>1. Aborted \in TaskStatuses
      BY DEF TaskStatuses, FinalStatuses
    <3>2. faults' \in Nat /\ (NiqToLog(c, Aborted) \/ NiqToPending(c))
      BY <2>3, StatementType DEF NiqAdmit
    <3>. QED
      BY <1>1, <3>1, <3>2, NiqToLogType, NiqToPendingType
  <2>4. CASE NiqResume(c)
    BY <1>1, <2>4, NiqToRunningType DEF NiqResume, PipelineTypeOK
  <2>. QED
    BY <2>1, <2>2, <2>3, <2>4 DEF NiqPush
<1>. QED
  BY <1>2 DEF PipelineTypeOK, DbTypeOK, NiqPush, dbVars, pendVars, runVars, asyncVars

LEMMA NiqUpdateType == PipelineTypeOK /\ NiqUpdate => PipelineTypeOK'
<1>. SUFFICES ASSUME PipelineTypeOK, NiqUpdate PROVE PipelineTypeOK'
  OBVIOUS
<1>1. niqWrite \in [id : Tasks, status : LiveStatuses \cup {None}]
  BY DEF NiqUpdate, PipelineTypeOK
<1>2. PICK ok \in BOOLEAN :
        Statement(ok) /\ live' = IF ok THEN AppliedWrite(live, niqWrite) ELSE live
  BY DEF NiqUpdate
<1>3. live \in LiveTable
  BY DEF PipelineTypeOK, DbTypeOK, LiveTable
<1>4. AppliedWrite(live, niqWrite) \in LiveTable
  BY <1>1, <1>3, AppliedWriteType
<1>5. live' \in LiveTable /\ faults' \in Nat
  BY <1>2, <1>3, <1>4, StatementType
<1>. QED
  BY <1>5 DEF PipelineTypeOK, DbTypeOK, NiqUpdate, LiveTable, channelVars, pendVars,
              runVars, asyncVars

LEMMA FreeVmsType ==
    ASSUME PipelineTypeOK, NEW ok, NotReported(ok) < MaxFreeVms
    PROVE  MaxFreeVms - NotReported(ok) \in Nat
<1>0. Len(sandbox) \in Nat
  BY DEF PipelineTypeOK
<1>1. IsFiniteSet(1 .. Len(sandbox))
  BY <1>0, FS_Interval
<1>2. {i \in 1 .. Len(sandbox) : sandbox[i].state = "active"} \subseteq 1 .. Len(sandbox)
  OBVIOUS
<1>3. SandboxLoad \in Nat
  BY <1>1, <1>2, FS_Subset, FS_CardinalityType DEF SandboxLoad
<1>4. NotReported(ok) \in Nat
  BY <1>3 DEF NotReported
<1>. QED
  BY <1>4, PipelineAssumption

LEMMA PendFetchType == PipelineTypeOK /\ PendFetch => PipelineTypeOK'
<1>. SUFFICES ASSUME PipelineTypeOK, PendFetch PROVE PipelineTypeOK'
  OBVIOUS
<1>1. PICK ok \in ListOutcomes :
        /\ NotReported(ok) < MaxFreeVms
        /\ pendBatch' = Taken(pendingQueue, MaxFreeVms - NotReported(ok))
        /\ pendingQueue' = Left(pendingQueue, MaxFreeVms - NotReported(ok))
  BY DEF PendFetch
<1>2. MaxFreeVms - NotReported(ok) \in Nat
  BY <1>1, FreeVmsType
<1>3. pendBatch' \in Seq(LiveCopy) /\ pendingQueue' \in Seq(LiveCopy)
  BY <1>1, <1>2, TakenLeftType DEF PipelineTypeOK
<1>. QED
  BY <1>3 DEF PipelineTypeOK, DbTypeOK, PendFetch, dbVars, niqVars, runVars, asyncVars

LEMMA PendGiveUpType == PipelineTypeOK /\ PendGiveUp => PipelineTypeOK'
<1>. SUFFICES ASSUME PipelineTypeOK, PendGiveUp PROVE PipelineTypeOK'
  OBVIOUS
<1>1. Head(pendBatch) \in LiveCopy /\ Tail(pendBatch) \in Seq(LiveCopy)
  BY HeadTailProperties DEF PipelineTypeOK, PendGiveUp
<1>2. logQueue' \in Seq(TaskCopy) /\ live' \in LiveTable /\ faults' \in Nat
  BY <1>1, ChangeStatusType DEF PendGiveUp, TaskStatuses, FinalStatuses
<1>. QED
  BY <1>1, <1>2 DEF PipelineTypeOK, DbTypeOK, PendGiveUp, LiveTable, niqVars, runVars,
                    asyncVars

LEMMA PendSpawnType ==
    ASSUME PipelineTypeOK, NEW s \in 1 .. MaxSubmitters, PendSpawn(s)
    PROVE  PipelineTypeOK'
<1>1. Head(pendBatch) \in LiveCopy /\ Tail(pendBatch) \in Seq(LiveCopy)
  BY HeadTailProperties DEF PipelineTypeOK, PendSpawn
<1>2. [stage |-> "sending", copy |-> Head(pendBatch), status |-> PendingInQueue]
        \in Submitter
  BY <1>1 DEF Submitter, LiveStatuses
<1>3. submitters' \in [1 .. MaxSubmitters -> Submitter \cup {None}]
  BY <1>2 DEF PipelineTypeOK, PendSpawn
<1>. QED
  BY <1>1, <1>3 DEF PipelineTypeOK, DbTypeOK, PendSpawn, dbVars, channelVars, niqVars,
                    runVars, asyncVars

\* What a goroutine of PendingQueueHandler holds.
LEMMA SubmitterType ==
    ASSUME PipelineTypeOK, NEW s \in 1 .. MaxSubmitters, submitters[s] # None
    PROVE  submitters[s].copy \in LiveCopy /\ submitters[s].status \in LiveStatuses
BY DEF PipelineTypeOK, Submitter

LEMMA SubmitAcceptedType ==
    ASSUME PipelineTypeOK, NEW s \in 1 .. MaxSubmitters, SubmitAccepted(s)
    PROVE  PipelineTypeOK'
<1>. DEFINE c  == submitters[s].copy
            c2 == [c EXCEPT !.row.sandboxId = NextSandboxId]
            st == IF HasRoom(runningQueue, RunningCapacity)
                  THEN RunningInQueue ELSE RunningNotInQueue
<1>1. c \in LiveCopy
  BY SubmitterType DEF SubmitAccepted, Sending
<1>2. NextSandboxId \in Nat
  BY DEF NextSandboxId, PipelineTypeOK
<1>3. c2 \in LiveCopy
  BY <1>1, <1>2 DEF LiveCopy, RowOver
<1>4. NewSandboxTask(c.id) \in [task : Tasks, state : SandboxStates]
  BY <1>1 DEF NewSandboxTask, SandboxStates, LiveCopy
<1>5. sandbox' \in Seq([task : Tasks, state : SandboxStates])
  <2>1. sandbox' = Append(sandbox, NewSandboxTask(c.id))
    BY DEF SubmitAccepted
  <2>. QED
    BY <1>4, <2>1, AppendProperties DEF PipelineTypeOK
<1>6. runningQueue' \in Seq(LiveCopy)
  <2>1. runningQueue' = Append(runningQueue, c2) \/ runningQueue' = runningQueue
    BY DEF SubmitAccepted
  <2>. HIDE DEF c2
  <2>2. Append(runningQueue, c2) \in Seq(LiveCopy)
    BY <1>3, AppendProperties DEF PipelineTypeOK
  <2>. QED
    BY <2>1, <2>2 DEF PipelineTypeOK
<1>7. submitters' \in [1 .. MaxSubmitters -> Submitter \cup {None}]
  <2>1. submitters' = [submitters EXCEPT ![s] =
                         [stage |-> "logging", copy |-> c2, status |-> st]]
    BY DEF SubmitAccepted
  <2>2. [stage |-> "logging", copy |-> c2, status |-> st] \in Submitter
    BY <1>3 DEF Submitter, LiveStatuses
  <2>. QED
    BY <2>1, <2>2 DEF PipelineTypeOK
<1>. QED
  BY <1>5, <1>6, <1>7 DEF PipelineTypeOK, DbTypeOK, SubmitAccepted, dbVars, niqVars,
                          runVars, asyncVars

LEMMA SubmitLoggedType ==
    ASSUME PipelineTypeOK, NEW s \in 1 .. MaxSubmitters, SubmitLogged(s)
    PROVE  PipelineTypeOK'
<1>1. submitters[s].copy \in LiveCopy /\ submitters[s].status \in TaskStatuses
  BY SubmitterType DEF SubmitLogged, TaskStatuses
<1>2. logQueue' \in Seq(TaskCopy) /\ live' \in LiveTable /\ faults' \in Nat
  BY <1>1, ChangeStatusType DEF SubmitLogged
<1>. QED
  BY <1>2 DEF PipelineTypeOK, DbTypeOK, SubmitLogged, LiveTable, niqVars, runVars,
              asyncVars

LEMMA SubmitRetryType ==
    ASSUME PipelineTypeOK, NEW c \in LiveCopy, SubmitRetryThroughLog(c)
    PROVE  logQueue' \in Seq(TaskCopy) /\ live' \in LiveTable /\ faults' \in Nat
<1>1. PendingNotInQueue \in LiveStatuses /\ PendingNotInQueue \in TaskStatuses
      /\ Aborted \in TaskStatuses
  BY DEF LiveStatuses, TaskStatuses, FinalStatuses
<1>2. WithStatus(c, PendingNotInQueue) \in LiveCopy
  BY <1>1, WithStatusType DEF LiveCopy
<1>. QED
  BY <1>1, <1>2, ChangeStatusType DEF SubmitRetryThroughLog

LEMMA SubmitFailedType ==
    ASSUME PipelineTypeOK, NEW s \in 1 .. MaxSubmitters, SubmitFailed(s)
    PROVE  PipelineTypeOK'
<1>. DEFINE c == Retried(submitters[s].copy)
<1>1. submitters[s].copy \in LiveCopy
  BY SubmitterType DEF SubmitFailed, Sending
<1>2. c \in LiveCopy /\ [c EXCEPT !.row.queueRetryCount = @ + 1] \in LiveCopy
  BY <1>1, CountedType DEF Retried
<1>3. sandbox' \in Seq([task : Tasks, state : SandboxStates])
  <2>1. NewSandboxTask(c.id) \in [task : Tasks, state : SandboxStates]
    BY <1>2 DEF NewSandboxTask, SandboxStates, LiveCopy
  <2>2. sandbox' = sandbox \/ sandbox' = Append(sandbox, NewSandboxTask(c.id))
    BY DEF SubmitFailed
  <2>. HIDE DEF c
  <2>3. Append(sandbox, NewSandboxTask(c.id)) \in Seq([task : Tasks, state : SandboxStates])
    BY <2>1, AppendProperties DEF PipelineTypeOK
  <2>. QED
    BY <2>2, <2>3 DEF PipelineTypeOK
<1>. HIDE DEF c
<1>4. /\ pendingQueue' \in Seq(LiveCopy) /\ logQueue' \in Seq(TaskCopy)
      /\ live' \in LiveTable /\ faults' \in Nat
  <2>1. CASE ChangeStatusAndPushToLogQueue(c, Aborted) /\ UNCHANGED pendingQueue
    BY <1>2, <2>1, ChangeStatusType DEF PipelineTypeOK, TaskStatuses, FinalStatuses
  <2>2. CASE /\ pendingQueue' = Append(pendingQueue, c)
             /\ UNCHANGED <<logQueue, live, faults>>
    BY <1>2, <2>2, AppendProperties DEF PipelineTypeOK, DbTypeOK, LiveTable
  <2>3. CASE /\ SubmitRetryThroughLog([c EXCEPT !.row.queueRetryCount = @ + 1])
             /\ UNCHANGED pendingQueue
    BY <1>2, <2>3, SubmitRetryType DEF PipelineTypeOK
  <2>. USE DEF c
  <2>. QED
    BY <2>1, <2>2, <2>3 DEF SubmitFailed
<1>. QED
  BY <1>3, <1>4 DEF PipelineTypeOK, DbTypeOK, SubmitFailed, LiveTable, niqVars, runVars,
                    asyncVars

LEMMA RunListType == PipelineTypeOK /\ RunList => PipelineTypeOK'
<1>. SUFFICES ASSUME PipelineTypeOK, RunList PROVE PipelineTypeOK'
  OBVIOUS
<1>1. ASSUME NEW i \in 1 .. Len(sandbox) PROVE sandbox[i].state \in SandboxStates
  <2>1. sandbox[i] \in [task : Tasks, state : SandboxStates]
    BY ElementOfSeq DEF PipelineTypeOK
  <2>. QED
    BY <2>1
<1>2. [i \in 1 .. Len(sandbox) |-> sandbox[i].state] \in Seq(SandboxStates)
  <2>1. Len(sandbox) \in Nat
    BY DEF PipelineTypeOK
  <2>2. [i \in 1 .. Len(sandbox) |-> sandbox[i].state] \in [1 .. Len(sandbox) -> SandboxStates]
    BY <1>1
  <2>. QED
    BY <2>1, <2>2, SeqDef
<1>. QED
  BY <1>2 DEF PipelineTypeOK, DbTypeOK, RunList, dbVars, channelVars, niqVars, pendVars,
              asyncVars

LEMMA RunFetchType == PipelineTypeOK /\ RunFetch => PipelineTypeOK'
<1>. SUFFICES ASSUME PipelineTypeOK, RunFetch PROVE PipelineTypeOK'
  OBVIOUS
<1>1. runningQueue' \in Seq(LiveCopy)
  BY DEF RunFetch
<1>. QED
  BY <1>1 DEF PipelineTypeOK, DbTypeOK, RunFetch, dbVars, niqVars, pendVars, asyncVars

LEMMA LogNotFoundType ==
    ASSUME PipelineTypeOK, NEW c \in LiveCopy, NEW ok \in BOOLEAN, Statement(ok),
           LogStateBecomes(LogNotFound(LogState, c, ok))
    PROVE  logQueue' \in Seq(TaskCopy) /\ live' \in LiveTable /\ faults' \in Nat
<1>. DEFINE c2  == [c EXCEPT !.row.runningRetryCount = @ + 1]
            st2 == IF c2.row.runningRetryCount >= RunningMaxRetries
                   THEN LogChange(LogState, c2, Aborted, ok) ELSE LogState
<1>1. c2 \in LiveCopy
  BY CountedType
<1>2. Aborted \in TaskStatuses /\ RunningNotInQueue \in TaskStatuses
  BY DEF TaskStatuses, FinalStatuses, LiveStatuses
<1>3. LogStateBecomes(LogChange(st2, c2, RunningNotInQueue, ok))
  BY DEF LogNotFound
<1>. HIDE DEF c2
<1>4. st2 \in LogStates
  BY <1>1, <1>2, LogStateType, LogChangeType
<1>. HIDE DEF st2
<1>5. LogChange(st2, c2, RunningNotInQueue, ok) \in LogStates
  BY <1>1, <1>2, <1>4, LogChangeType
<1>. QED
  BY <1>3, <1>5, StatementType DEF LogStateBecomes, LogStates

LEMMA RunCheckType == PipelineTypeOK /\ RunCheck => PipelineTypeOK'
<1>. SUFFICES ASSUME PipelineTypeOK, RunCheck PROVE PipelineTypeOK'
  OBVIOUS
<1>. DEFINE c == Head(runBatch)
            Typed == /\ runningQueue' \in Seq(LiveCopy) /\ logQueue' \in Seq(TaskCopy)
                     /\ live' \in LiveTable /\ faults' \in Nat
<1>1. c \in LiveCopy /\ Tail(runBatch) \in Seq(LiveCopy)
  BY HeadTailProperties DEF PipelineTypeOK, RunCheck
<1>2. Append(runningQueue, c) \in Seq(LiveCopy)
  BY <1>1, AppendProperties DEF PipelineTypeOK
<1>3. {Reported, Aborted, RunningNotInQueue} \subseteq TaskStatuses
  BY DEF TaskStatuses, FinalStatuses, LiveStatuses
<1>4. Typed
  <2>1. ASSUME NEW s \in {Reported, Aborted, RunningNotInQueue},
               ChangeStatusAndPushToLogQueue(c, s), UNCHANGED runningQueue
        PROVE  Typed
    BY <1>1, <1>3, <2>1, ChangeStatusType DEF PipelineTypeOK
  <2>2. ASSUME NEW ok \in BOOLEAN, Statement(ok),
               LogStateBecomes(LogNotFound(LogState, c, ok)), UNCHANGED runningQueue
        PROVE  Typed
    BY <1>1, <2>2, LogNotFoundType DEF PipelineTypeOK
  <2>3. ASSUME runningQueue' = Append(runningQueue, c), UNCHANGED <<logQueue, live, faults>>
        PROVE  Typed
    BY <1>2, <2>3 DEF PipelineTypeOK, DbTypeOK, LiveTable
  <2>. QED
    BY <2>1, <2>2, <2>3 DEF RunCheck
<1>5. runView' \in Seq(SandboxStates) \cup {None}
  BY DEF RunCheck, PipelineTypeOK
<1>. QED
  BY <1>1, <1>4, <1>5 DEF PipelineTypeOK, DbTypeOK, RunCheck, LiveTable, niqVars, pendVars,
                          asyncVars

LEMMA DuplicatesReadType ==
    ASSUME PipelineTypeOK, NEW c, NEW ok
    PROVE  DuplicatesRead(c, ok) \subseteq dup
BY DEF DuplicatesRead, DuplicatesToSettle, DuplicatesOf, LowestOf

LEMMA LogPrepareType == PipelineTypeOK /\ LogPrepare => PipelineTypeOK'
<1>. SUFFICES ASSUME PipelineTypeOK, LogPrepare PROVE PipelineTypeOK'
  OBVIOUS
<1>. DEFINE c == Head(logQueue)
<1>1. PICK ok \in BOOLEAN, score \in ScoresOf(c) :
        /\ Statement(ok)
        /\ logRead' = [score |-> score, dups |-> DuplicatesRead(c, ok)]
        /\ deletions' = deletions \cup EarlyDeletions(c, DuplicatesRead(c, ok))
  BY DEF LogPrepare
<1>2. score \in Scores
  BY DEF ScoresOf, Scores
<1>3. DuplicatesRead(c, ok) \subseteq Tasks
  BY DuplicatesReadType DEF PipelineTypeOK, DbTypeOK
<1>4. EarlyDeletions(c, DuplicatesRead(c, ok)) \subseteq Deletion
  BY <1>3 DEF EarlyDeletions, Deletion
<1>5. logRead' \in LogRead \cup {None}
  BY <1>1, <1>2, <1>3 DEF LogRead
<1>6. deletions' \subseteq Deletion /\ faults' \in Nat
  BY <1>1, <1>4, StatementType DEF PipelineTypeOK
<1>. QED
  BY <1>5, <1>6 DEF PipelineTypeOK, DbTypeOK, LogPrepare, dbVars, channelVars, niqVars,
                    pendVars, runVars

LEMMA HeadOfLog ==
    ASSUME PipelineTypeOK, logQueue # <<>>
    PROVE  Head(logQueue) \in TaskCopy /\ Tail(logQueue) \in Seq(TaskCopy)
BY HeadTailProperties DEF PipelineTypeOK

LEMMA LogCommitType == PipelineTypeOK /\ LogCommit => PipelineTypeOK'
<1>. SUFFICES ASSUME PipelineTypeOK, LogCommit PROVE PipelineTypeOK'
  OBVIOUS
<1>. DEFINE c == Head(logQueue)
<1>1. c \in TaskCopy /\ c.id \in Tasks /\ Tail(logQueue) \in Seq(TaskCopy)
  BY HeadOfLog DEF LogCommit, TaskCopy
<1>2. logRead.score \in Scores
  BY DEF LogCommit, PipelineTypeOK, LogRead
<1>3. DbTypeOK' /\ faults' \in Nat
  <2>1. PICK ok \in BOOLEAN :
          /\ Statement(ok)
          /\ IF ~ok THEN UNCHANGED <<fod, live, dup, finished>>
             ELSE IF c.row.status = Aborted THEN Abort(c.id, logRead.dups)
             ELSE Finish(c.id, logRead.dups, logRead.score)
    BY DEF LogCommit
  <2>2. UNCHANGED files
    BY DEF LogCommit
  <2>3. CASE ok
    BY <1>1, <1>2, <2>1, <2>2, <2>3, FinishType, StatementType DEF PipelineTypeOK
  <2>4. CASE ~ok
    BY <2>1, <2>2, <2>4, StatementType DEF PipelineTypeOK, DbTypeOK
  <2>. QED
    BY <2>3, <2>4
<1>4. told' \in [Tasks -> {"none", "analysing", "allow", "block"}]
  <2>1. fod'[c.id] \in FodRow \cup {None}
    BY <1>1, <1>3 DEF DbTypeOK
  <2>2. Answer(fod'[c.id]) \in {"none", "analysing", "allow", "block"}
    BY <2>1 DEF Answer, FodRow, Verdicts
  <2>. QED
    BY <2>2 DEF LogCommit, PipelineTypeOK
<1>5. deletions' \subseteq Deletion
  <2>1. CleanUp(c) \subseteq Deletion
    BY <1>1 DEF CleanUp, Deletion, TaskCopy, RowOver
  <2>. QED
    BY <2>1 DEF LogCommit, PipelineTypeOK
<1>. QED
  BY <1>1, <1>3, <1>4, <1>5 DEF PipelineTypeOK, LogCommit, niqVars, pendVars, runVars

LEMMA LogStatusType == PipelineTypeOK /\ LogStatus => PipelineTypeOK'
<1>. SUFFICES ASSUME PipelineTypeOK, LogStatus PROVE PipelineTypeOK'
  OBVIOUS
<1>. DEFINE c == Head(logQueue)
<1>1. c \in TaskCopy /\ Tail(logQueue) \in Seq(TaskCopy)
  BY HeadOfLog DEF LogStatus
<1>2. c.row \in RowOver(LiveStatuses)
  <2>1. c.row.status \in LiveStatuses
    BY <1>1 DEF LogStatus, TaskCopy, RowOver, TaskStatuses
  <2>. QED
    BY <1>1, <2>1 DEF TaskCopy, RowOver
<1>3. PICK ok \in BOOLEAN :
        Statement(ok) /\ live' = IF ok THEN WriteRow(live, c.id, c.row) ELSE live
  BY DEF LogStatus
<1>4. live' \in LiveTable /\ faults' \in Nat
  <2>1. live \in LiveTable /\ c.id \in Tasks
    BY <1>1 DEF PipelineTypeOK, DbTypeOK, LiveTable, TaskCopy
  <2>2. WriteRow(live, c.id, c.row) \in LiveTable
    BY <1>2, <2>1, WriteRowType
  <2>. QED
    BY <1>3, <2>1, <2>2, StatementType
<1>. QED
  BY <1>1, <1>4 DEF PipelineTypeOK, DbTypeOK, LogStatus, LiveTable, niqVars, pendVars,
                    runVars, asyncVars

LEMMA DeleteLocalTaskType ==
    ASSUME PipelineTypeOK, NEW t \in Tasks, DeleteLocalTask(t)
    PROVE  PipelineTypeOK'
<1>1. files' \in [Tasks -> Hashes \cup {None}] /\ deletions' \subseteq Deletion
  BY DEF PipelineTypeOK, DbTypeOK, DeleteLocalTask
<1>. QED
  BY <1>1 DEF PipelineTypeOK, DbTypeOK, DeleteLocalTask, channelVars, niqVars, pendVars,
              runVars

\* The state of one sandbox task changes.
LEMMA SandboxExceptType ==
    ASSUME PipelineTypeOK, NEW i \in DOMAIN sandbox, NEW e \in SandboxStates
    PROVE  [sandbox EXCEPT ![i].state = e] \in Seq([task : Tasks, state : SandboxStates])
<1>. DEFINE S == [task : Tasks, state : SandboxStates]
<1>1. sandbox \in Seq(S) /\ i \in 1 .. Len(sandbox)
  BY DEF PipelineTypeOK
<1>2. sandbox[i] \in S
  BY <1>1, ElementOfSeq
<1>3. [sandbox[i] EXCEPT !.state = e] \in S
  BY <1>2
<1>. HIDE DEF S
<1>4. [sandbox EXCEPT ![i] = [sandbox[i] EXCEPT !.state = e]] \in Seq(S)
  BY <1>1, <1>3, ExceptSeq
<1>. QED
  BY <1>4 DEF S

LEMMA DeleteSandboxDataType ==
    ASSUME PipelineTypeOK, NEW i \in 1 .. MaxSandboxTasks, DeleteSandboxData(i)
    PROVE  PipelineTypeOK'
<1>1. sandbox' \in Seq([task : Tasks, state : SandboxStates])
  <2>1. "gone" \in SandboxStates
    BY DEF SandboxStates
  <2>2. CASE i \in DOMAIN sandbox
    BY <2>1, <2>2, SandboxExceptType DEF DeleteSandboxData
  <2>3. CASE i \notin DOMAIN sandbox
    BY <2>3 DEF DeleteSandboxData, PipelineTypeOK
  <2>. QED
    BY <2>2, <2>3
<1>2. deletions' \subseteq Deletion
  BY DEF DeleteSandboxData, PipelineTypeOK
<1>. QED
  BY <1>1, <1>2 DEF PipelineTypeOK, DbTypeOK, DeleteSandboxData, dbVars, channelVars, niqVars,
                    pendVars, runVars

LEMMA SandboxSettlesType ==
    ASSUME PipelineTypeOK, NEW i \in 1 .. MaxSandboxTasks, SandboxSettles(i)
    PROVE  PipelineTypeOK'
<1>1. sandbox' \in Seq([task : Tasks, state : SandboxStates])
  <2>1. PICK e \in SandboxEnds : sandbox' = [sandbox EXCEPT ![i].state = e]
    BY DEF SandboxSettles
  <2>2. e \in SandboxStates /\ i \in DOMAIN sandbox
    BY PipelineAssumption DEF SandboxStates, SandboxSettles
  <2>. QED
    BY <2>1, <2>2, SandboxExceptType
<1>. QED
  BY <1>1 DEF PipelineTypeOK, DbTypeOK, SandboxSettles, dbVars, channelVars, niqVars,
              pendVars, runVars, asyncVars

LEMMA RestartType ==
    ASSUME PipelineTypeOK, NEW rebooted \in BOOLEAN, Restart(rebooted)
    PROVE  PipelineTypeOK'
<1>1. live' \in LiveTable
  <2>1. \A s \in LiveStatuses : Recovered(s, rebooted) \in LiveStatuses
    BY DEF Recovered, LiveStatuses
  <2>2. ASSUME NEW t \in Tasks, live[t] # None
        PROVE  [live[t] EXCEPT !.status = Recovered(@, rebooted)] \in RowOver(LiveStatuses)
    BY <2>1, <2>2 DEF PipelineTypeOK, DbTypeOK, RowOver
  <2>. QED
    BY <2>2 DEF Restart, ResetQueueDb, LiveTable
<1>2. faults' \in Nat
  BY DEF Restart, PipelineTypeOK
<1>. QED
  BY <1>1, <1>2 DEF PipelineTypeOK, DbTypeOK, Restart, LiveTable

-----------------------------------------------------------------------------
LEMMA NextType ==
    ASSUME PipelineTypeOK, [PipelineNext]_pipelineVars
    PROVE  PipelineTypeOK'
<1>1. CASE NiqNext
  BY <1>1, NiqFetchType, NiqPushType, NiqUpdateType DEF NiqNext
<1>2. CASE PendNext
  BY <1>2, PendFetchType, PendGiveUpType, PendSpawnType DEF PendNext
<1>3. CASE RunNext
  BY <1>3, RunListType, RunFetchType, RunCheckType DEF RunNext
<1>4. CASE LogNext
  BY <1>4, LogPrepareType, LogCommitType, LogStatusType DEF LogNext
<1>5. CASE DeleteNext
  BY <1>5, DeleteLocalTaskType, DeleteSandboxDataType DEF DeleteNext
<1>6. CASE \E s \in 1 .. MaxSubmitters : SubmitNext(s)
  BY <1>6, SubmitAcceptedType, SubmitFailedType, SubmitLoggedType DEF SubmitNext
<1>7. CASE \E i \in 1 .. MaxSandboxTasks : SandboxNext(i)
  BY <1>7, SandboxSettlesType DEF SandboxNext
<1>8. CASE \E rebooted \in BOOLEAN : Restart(rebooted)
  BY <1>8, RestartType
<1>9. CASE UNCHANGED pipelineVars
  BY <1>9 DEF PipelineTypeOK, DbTypeOK, pipelineVars, dbVars, channelVars, niqVars,
              pendVars, runVars, asyncVars
<1>. QED
  BY <1>1, <1>2, <1>3, <1>4, <1>5, <1>6, <1>7, <1>8, <1>9 DEF PipelineNext

\* Tables, channels, batches and goroutines always hold what the code declares:
\* above all, only LogQueue carries a status the live table cannot store, so the
\* UPDATE statements of the other handlers never write one.
THEOREM PipelineTypeCorrect == PipelineSpec => []PipelineTypeOK
<1>1. PipelineInit => PipelineTypeOK
  BY InitType
<1>2. PipelineTypeOK /\ [PipelineNext]_pipelineVars => PipelineTypeOK'
  BY NextType
<1>. QED
  BY <1>1, <1>2, PTL DEF PipelineSpec

-----------------------------------------------------------------------------
\* After ResetQueueDb every live row is one fetchNotInQueueTasks selects.
LEMMA RestartReaches ==
    ASSUME PipelineTypeOK, NEW rebooted \in BOOLEAN, Restart(rebooted)
    PROVE  \A t \in Tasks : live'[t] # None => NotInQueue(t)'
<1>1. \A s \in LiveStatuses :
        Recovered(s, rebooted) \in {PendingNotInQueue, RunningNotInQueue}
  BY DEF Recovered, LiveStatuses, PendingNotInQueue, PendingInQueue, RunningNotInQueue,
         RunningInQueue
<1>2. SUFFICES ASSUME NEW t \in Tasks, live'[t] # None PROVE NotInQueue(t)'
  OBVIOUS
<1>3. live[t] # None /\ live'[t] = [live[t] EXCEPT !.status = Recovered(@, rebooted)]
  BY <1>2 DEF Restart, ResetQueueDb
<1>4. live[t] \in RowOver(LiveStatuses)
  BY <1>3 DEF PipelineTypeOK, DbTypeOK
<1>5. live'[t].status = Recovered(live[t].status, rebooted)
  BY <1>3, <1>4 DEF RowOver
<1>6. live[t].status \in LiveStatuses
  BY <1>4 DEF RowOver
<1>. QED
  BY <1>1, <1>2, <1>5, <1>6 DEF NotInQueue

\* No crash makes a live task unreachable: whatever the dead process held, the
\* next one finds the row with its first query.
THEOREM RestartAlwaysRecovers == PipelineSpec => RestartRecovers
<1>1. PipelineTypeOK /\ [PipelineNext]_pipelineVars =>
        [(\E rebooted \in BOOLEAN : Restart(rebooted)) =>
            \A t \in Tasks : live'[t] # None => NotInQueue(t)']_pipelineVars
  BY RestartReaches
<1>. QED
  BY <1>1, PipelineTypeCorrect, PTL DEF PipelineSpec, RestartRecovers

-----------------------------------------------------------------------------
(* What the client is told.                                                *)

\* A verdict is never stored without the rating.
VerdictsRated == \A t \in Tasks : fod[t] # None /\ fod[t].verdict # "none" => Settled(t)

ToldInv == PipelineTypeOK /\ VerdictsRated /\ ToldOnceSettled

\* Neither transaction unsettles a file, and both store rating and verdict.
LEMMA UpdateFodRates ==
    ASSUME DbTypeOK, VerdictsRated, NEW T, NEW score \in Scores, fod' = UpdateFod(fod, T, score)
    PROVE  VerdictsRated' /\ \A t \in Tasks : Settled(t) => Settled(t)'
<1>. SUFFICES ASSUME NEW t \in Tasks
              PROVE  /\ fod'[t] # None /\ fod'[t].verdict # "none" => Settled(t)'
                     /\ Settled(t) => Settled(t)'
  BY DEF VerdictsRated
<1>1. /\ fod'[t] = None <=> fod[t] = None
      /\ t \in T /\ fod[t] # None => fod'[t].rating # "none"
      /\ t \notin T => fod'[t] = fod[t]
  BY UpdateFodEffect
<1>. QED
  BY <1>1 DEF VerdictsRated, Settled

LEMMA LogCommitTold == ToldInv /\ LogCommit => ToldInv'
<1>. SUFFICES ASSUME ToldInv, LogCommit PROVE ToldInv'
  OBVIOUS
<1>. DEFINE c == Head(logQueue)
<1>1. PipelineTypeOK /\ PipelineTypeOK' /\ c.id \in Tasks
  BY LogCommitType, HeadOfLog DEF ToldInv, LogCommit, TaskCopy
<1>2. logRead.score \in Scores
  BY <1>1 DEF LogCommit, PipelineTypeOK, LogRead
<1>3. VerdictsRated' /\ \A t \in Tasks : Settled(t) => Settled(t)'
  <2>1. CASE Finish(c.id, logRead.dups, logRead.score)
    BY <1>1, <1>2, <2>1, UpdateFodRates DEF ToldInv, PipelineTypeOK, Finish
  <2>2. CASE Abort(c.id, logRead.dups)
    BY <1>1, <2>2, UpdateFodRates DEF ToldInv, PipelineTypeOK, Abort, Scores
  <2>3. CASE UNCHANGED fod
    BY <2>3 DEF ToldInv, VerdictsRated, Settled
  <2>. QED
    BY <2>1, <2>2, <2>3 DEF LogCommit
<1>4. PICK u \in Tasks : told' = [told EXCEPT ![u] = Answer(fod'[u])]
  BY <1>1 DEF LogCommit
<1>5. Answer(fod'[u]) \in {"allow", "block"} => Settled(u)'
  BY <1>3 DEF Answer, VerdictsRated
<1>6. ToldOnceSettled'
  BY <1>1, <1>3, <1>4, <1>5 DEF ToldInv, ToldOnceSettled, PipelineTypeOK
<1>. QED
  BY <1>1, <1>3, <1>6 DEF ToldInv

LEMMA NextTold ==
    ASSUME ToldInv, [PipelineNext]_pipelineVars
    PROVE  ToldInv'
<1>1. PipelineTypeOK'
  BY NextType DEF ToldInv
<1>2. LogCommit \/ UNCHANGED <<fod, told>>
  BY DEF PipelineNext, NiqNext, PendNext, RunNext, LogNext, DeleteNext, SubmitNext, SandboxNext,
         NiqFetch, NiqPush, NiqUpdate, PendFetch, PendGiveUp, PendSpawn, SubmitAccepted,
         SubmitFailed, SubmitLogged, RunList, RunFetch, RunCheck, LogPrepare, LogStatus,
         DeleteLocalTask, DeleteSandboxData, SandboxSettles, Restart, pipelineVars, dbVars,
         asyncVars
<1>3. CASE UNCHANGED <<fod, told>>
  BY <1>1, <1>3 DEF ToldInv, VerdictsRated, ToldOnceSettled, Settled
<1>. QED
  BY <1>2, <1>3, LogCommitTold

\* The client never hears ALLOW or BLOCK of a file whose verdict is not stored,
\* whichever statement before SendAcknowledgementToClientIp failed, however often
\* the file is logged and whenever the process restarts.
THEOREM ToldWhatIsStored == PipelineSpec => []ToldOnceSettled
<1>1. PipelineInit => ToldInv
  <2>. SUFFICES ASSUME PipelineInit PROVE ToldInv
    OBVIOUS
  <2>1. \A t \in Tasks : told[t] = "none" /\ fod[t].verdict = "none"
    BY DEF PipelineInit
  <2>. QED
    BY <2>1, InitType DEF ToldInv, VerdictsRated, ToldOnceSettled
<1>2. ToldInv /\ [PipelineNext]_pipelineVars => ToldInv'
  BY NextTold
<1>3. ToldInv => ToldOnceSettled
  BY DEF ToldInv
<1>. QED
  BY <1>1, <1>2, <1>3, PTL DEF PipelineSpec

-----------------------------------------------------------------------------
(* What every copy has in common with the row it was made from.  The       *)
(* handlers change the status, the counters and the flag of a copy; its id, *)
(* its digest and, but for one action, its sandbox id stay those it had.   *)

Closed(G) ==
    /\ G \subseteq TaskCopy
    /\ \A c, e \in G, d \in TaskCopy :
         /\ e.id = c.id /\ d.id = c.id
         /\ d.row.sandboxId = c.row.sandboxId /\ d.row.hash = e.row.hash
         => d \in G

TableIn(table, G) == \A t \in Tasks : table[t] # None => [id |-> t, row |-> table[t]] \in G

\* Every copy there is, and every row, is one of G.
Holds(G) ==
    /\ pendingQueue \in Seq(G) /\ runningQueue \in Seq(G) /\ logQueue \in Seq(G)
    /\ pendBatch \in Seq(G) /\ runBatch \in Seq(G)
    /\ niqBatch \subseteq G
    /\ \A s \in 1 .. MaxSubmitters : submitters[s] # None => submitters[s].copy \in G
    /\ TableIn(live, G)

LogIn(st, G) == st \in LogStates /\ st.queue \in Seq(G) /\ TableIn(st.table, G)

LEMMA WithStatusIn ==
    ASSUME NEW G, Closed(G), NEW c \in G, NEW s \in TaskStatuses
    PROVE  WithStatus(c, s) \in G
<1>1. c \in TaskCopy
  BY DEF Closed
<1>2. WithStatus(c, s) \in TaskCopy
  BY <1>1, WithStatusType DEF TaskCopy
<1>3. WithStatus(c, s).id = c.id /\ WithStatus(c, s).row.sandboxId = c.row.sandboxId
      /\ WithStatus(c, s).row.hash = c.row.hash
  BY <1>1 DEF WithStatus, TaskCopy, RowOver
<1>. QED
  BY <1>2, <1>3 DEF Closed

LEMMA WriteRowIn ==
    ASSUME NEW G, Closed(G), NEW table \in LiveTable, TableIn(table, G),
           NEW c \in G, c.row \in RowOver(LiveStatuses), NEW b \in BOOLEAN
    PROVE  TableIn(WriteRow(table, c.id, [c.row EXCEPT !.logQueueFailed = b]), G)
<1>. DEFINE t == c.id
            row == [c.row EXCEPT !.logQueueFailed = b]
            new == [row EXCEPT !.hash = table[t].hash]
<1>1. t \in Tasks
  BY DEF Closed, TaskCopy
<1>2. CASE table[t] = None
  BY <1>2 DEF WriteRow
<1>3. CASE table[t] # None
  <2>1. table[t] \in RowOver(LiveStatuses) /\ [id |-> t, row |-> table[t]] \in G
    BY <1>1, <1>3 DEF LiveTable, TableIn
  <2>2. new \in RowOver(TaskStatuses) /\ new.sandboxId = c.row.sandboxId
        /\ new.hash = table[t].hash
    BY <2>1 DEF RowOver, TaskStatuses
  <2>. HIDE DEF new
  <2>3. [id |-> t, row |-> new] \in TaskCopy
    BY <1>1, <2>2 DEF TaskCopy
  <2>4. [id |-> t, row |-> new] \in G
    BY <2>1, <2>2, <2>3 DEF Closed
  <2>5. WriteRow(table, t, row) = [table EXCEPT ![t] = new]
    BY <1>3 DEF WriteRow, new
  <2>. QED
    BY <2>4, <2>5 DEF TableIn, LiveTable
<1>. QED
  BY <1>2, <1>3

LEMMA LogChangeIn ==
    ASSUME NEW G, Closed(G), NEW st, LogIn(st, G), NEW c \in G, c \in LiveCopy,
           NEW s \in TaskStatuses, NEW ok \in BOOLEAN
    PROVE  LogIn(LogChange(st, c, s, ok), G)
<1>1. LogChange(st, c, s, ok) \in LogStates
  BY LogChangeType DEF LogIn
<1>2. CASE HasRoom(st.queue, LogCapacity)
  <2>1. Append(st.queue, WithStatus(c, s)) \in Seq(G)
    BY WithStatusIn, AppendProperties DEF LogIn
  <2>. QED
    BY <1>1, <1>2, <2>1 DEF LogChange, Push, LogIn, LogStates
<1>3. CASE ~HasRoom(st.queue, LogCapacity) /\ ok
  <2>1. TableIn(WriteRow(st.table, c.id, [c.row EXCEPT !.logQueueFailed = TRUE]), G)
    BY WriteRowIn DEF LogIn, LogStates, LiveCopy
  <2>. QED
    BY <1>1, <1>3, <2>1 DEF LogChange, LogIn, LogStates
<1>4. CASE ~HasRoom(st.queue, LogCapacity) /\ ~ok
  BY <1>4 DEF LogChange
<1>. QED
  BY <1>2, <1>3, <1>4

LEMMA LogStateIn ==
    ASSUME PipelineTypeOK, NEW G, Holds(G)
    PROVE  LogIn(LogState, G)
BY LogStateType DEF LogIn, LogState, Holds

LEMMA ChangeStatusIn ==
    ASSUME PipelineTypeOK, NEW G, Closed(G), Holds(G), NEW c \in G, c \in LiveCopy,
           NEW s \in TaskStatuses, ChangeStatusAndPushToLogQueue(c, s)
    PROVE  logQueue' \in Seq(G) /\ TableIn(live', G)
<1>1. PICK ok \in BOOLEAN : LogStateBecomes(LogChange(LogState, c, s, ok))
  BY DEF ChangeStatusAndPushToLogQueue
<1>2. LogIn(LogChange(LogState, c, s, ok), G)
  BY LogStateIn, LogChangeIn
<1>. QED
  BY <1>1, <1>2 DEF LogStateBecomes, LogIn

\* A counter goes up.
LEMMA CountedIn ==
    ASSUME NEW G, Closed(G), NEW c \in G, c \in LiveCopy
    PROVE  /\ [c EXCEPT !.row.sandboxRetryCount = @ + 1] \in G
           /\ [c EXCEPT !.row.queueRetryCount = @ + 1] \in G
           /\ [c EXCEPT !.row.runningRetryCount = @ + 1] \in G
<1>1. ASSUME NEW d \in LiveCopy, d.id = c.id, d.row.sandboxId = c.row.sandboxId,
             d.row.hash = c.row.hash
      PROVE  d \in G
  BY <1>1, LiveCopyIsTaskCopy DEF Closed
<1>. QED
  BY <1>1, CountedType DEF LiveCopy, RowOver

LEMMA PushedIn ==
    ASSUME NEW G, Closed(G), NEW q \in Seq(G), NEW capacity, NEW c \in G,
           NEW s \in TaskStatuses
    PROVE  Pushed(q, capacity, c, s) \in Seq(G)
BY WithStatusIn, AppendProperties DEF Pushed, Push

-----------------------------------------------------------------------------
LEMMA NiqFetchIn ==
    ASSUME PipelineTypeOK, NEW G, Closed(G), Holds(G), NiqFetch
    PROVE  Holds(G)'
<1>1. \A t \in Tasks : NotInQueue(t) => CopyOf(t) \in G
  BY DEF NotInQueue, Holds, TableIn, CopyOf
<1>2. niqBatch' \subseteq G
  BY <1>1 DEF NiqFetch
<1>. QED
  BY <1>2 DEF Holds, TableIn, NiqFetch, dbVars, channelVars, pendVars, runVars

LEMMA NiqPushIn ==
    ASSUME PipelineTypeOK, NEW G, Closed(G), Holds(G), NEW c \in niqBatch, NiqPush(c)
    PROVE  Holds(G)'
<1>1. c \in LiveCopy /\ c \in G
  BY DEF PipelineTypeOK, Holds
<1>2. {Scanned, Aborted, PendingInQueue, RunningInQueue, RequeueStatus(c.row.status)}
        \subseteq TaskStatuses
  BY <1>1 DEF RequeueStatus, LiveCopy, RowOver, TaskStatuses, LiveStatuses, FinalStatuses
<1>3. pendingQueue' \in Seq(G) /\ runningQueue' \in Seq(G) /\ logQueue' \in Seq(G)
  <2>1. ASSUME NEW s \in TaskStatuses, NiqToLog(c, s)
        PROVE  pendingQueue' \in Seq(G) /\ runningQueue' \in Seq(G) /\ logQueue' \in Seq(G)
    BY <1>1, <2>1, PushedIn DEF NiqToLog, Holds
  <2>2. ASSUME NiqToPending(c)
        PROVE  pendingQueue' \in Seq(G) /\ runningQueue' \in Seq(G) /\ logQueue' \in Seq(G)
    BY <1>1, <1>2, <2>2, PushedIn DEF NiqToPending, Holds
  <2>3. ASSUME NiqToRunning(c)
        PROVE  pendingQueue' \in Seq(G) /\ runningQueue' \in Seq(G) /\ logQueue' \in Seq(G)
    BY <1>1, <1>2, <2>3, PushedIn DEF NiqToRunning, Holds
  <2>. QED
    BY <1>2, <2>1, <2>2, <2>3 DEF NiqPush, NiqRelog, NiqScanFound, NiqAdmit, NiqResume
<1>. QED
  BY <1>3 DEF NiqPush, Holds, TableIn, dbVars, pendVars, runVars

LEMMA NiqUpdateIn ==
    ASSUME PipelineTypeOK, NEW G, Closed(G), Holds(G), NiqUpdate
    PROVE  Holds(G)'
<1>. DEFINE t == niqWrite.id
<1>1. t \in Tasks /\ niqWrite.status \in LiveStatuses \cup {None}
  BY DEF PipelineTypeOK, NiqUpdate
<1>2. TableIn(AppliedWrite(live, niqWrite), G)
  <2>1. CASE live[t] = None
    BY <2>1 DEF AppliedWrite, SetStatus, ClearLogQueueFailed, Holds
  <2>2. CASE live[t] # None
    <3>1. live[t] \in RowOver(LiveStatuses) /\ [id |-> t, row |-> live[t]] \in G
      BY <1>1, <2>2 DEF PipelineTypeOK, DbTypeOK, Holds, TableIn
    <3>2. ASSUME NEW row \in RowOver(LiveStatuses), row.sandboxId = live[t].sandboxId,
                 row.hash = live[t].hash
          PROVE  TableIn([live EXCEPT ![t] = row], G)
      <4>1. [id |-> t, row |-> row] \in TaskCopy
        BY <1>1 DEF TaskCopy, RowOver, TaskStatuses
      <4>2. [id |-> t, row |-> row] \in G
        BY <3>1, <3>2, <4>1 DEF Closed
      <4>. QED
        BY <4>2 DEF Holds, TableIn, PipelineTypeOK, DbTypeOK
    <3>3. CASE niqWrite.status = None
      BY <2>2, <3>1, <3>2, <3>3 DEF AppliedWrite, ClearLogQueueFailed, RowOver
    <3>4. CASE niqWrite.status # None
      <4>. DEFINE row == [live[t] EXCEPT !.status = niqWrite.status]
      <4>1. row \in RowOver(LiveStatuses) /\ row.sandboxId = live[t].sandboxId
            /\ row.hash = live[t].hash
        BY <1>1, <3>1, <3>4 DEF RowOver
      <4>2. AppliedWrite(live, niqWrite) = [live EXCEPT ![t] = row]
        BY <2>2, <3>4 DEF AppliedWrite, SetStatus
      <4>. QED
        BY <3>2, <4>1, <4>2
    <3>. QED
      BY <3>3, <3>4
  <2>. QED
    BY <2>1, <2>2
<1>3. TableIn(live', G)
  BY <1>2 DEF NiqUpdate, Holds
<1>. QED
  BY <1>3 DEF NiqUpdate, Holds, channelVars, pendVars, runVars

LEMMA PendFetchIn ==
    ASSUME PipelineTypeOK, NEW G, Closed(G), Holds(G), PendFetch
    PROVE  Holds(G)'
<1>1. PICK ok \in ListOutcomes :
        /\ NotReported(ok) < MaxFreeVms
        /\ pendBatch' = Taken(pendingQueue, MaxFreeVms - NotReported(ok))
        /\ pendingQueue' = Left(pendingQueue, MaxFreeVms - NotReported(ok))
  BY DEF PendFetch
<1>2. MaxFreeVms - NotReported(ok) \in Nat
  BY <1>1, FreeVmsType
<1>3. pendBatch' \in Seq(G) /\ pendingQueue' \in Seq(G)
  BY <1>1, <1>2, TakenLeftType DEF Holds
<1>. QED
  BY <1>3 DEF PendFetch, Holds, TableIn, dbVars, niqVars, runVars

LEMMA HeadIn ==
    ASSUME NEW G, NEW q \in Seq(LiveCopy), q \in Seq(G), q # <<>>
    PROVE  Head(q) \in LiveCopy /\ Head(q) \in G /\ Tail(q) \in Seq(G)
BY HeadTailProperties

LEMMA PendGiveUpIn ==
    ASSUME PipelineTypeOK, NEW G, Closed(G), Holds(G), PendGiveUp
    PROVE  Holds(G)'
<1>1. /\ Head(pendBatch) \in LiveCopy /\ Head(pendBatch) \in G
      /\ Tail(pendBatch) \in Seq(G)
  BY HeadIn DEF Holds, PipelineTypeOK, PendGiveUp
<1>2. logQueue' \in Seq(G) /\ TableIn(live', G)
  BY <1>1, ChangeStatusIn DEF PendGiveUp, TaskStatuses, FinalStatuses
<1>. QED
  BY <1>1, <1>2 DEF PendGiveUp, Holds, niqVars, runVars

LEMMA PendSpawnIn ==
    ASSUME PipelineTypeOK, NEW G, Closed(G), Holds(G), NEW s \in 1 .. MaxSubmitters,
           PendSpawn(s)
    PROVE  Holds(G)'
<1>1. Head(pendBatch) \in G /\ Tail(pendBatch) \in Seq(G)
  BY HeadTailProperties DEF Holds, PendSpawn
<1>2. \A r \in 1 .. MaxSubmitters : submitters'[r] # None => submitters'[r].copy \in G
  BY <1>1 DEF PendSpawn, Holds, PipelineTypeOK
<1>. QED
  BY <1>1, <1>2 DEF PendSpawn, Holds, TableIn, dbVars, channelVars, niqVars, runVars

\* The one action that gives a copy another sandbox id.
AcceptedIn(G) ==
    \A s \in 1 .. MaxSubmitters, d \in TaskCopy :
        /\ SubmitAccepted(s)
        /\ d.id = submitters[s].copy.id /\ d.row.hash = submitters[s].copy.row.hash
        /\ d.row.sandboxId = NextSandboxId
        => d \in G

LEMMA SubmitAcceptedIn ==
    ASSUME PipelineTypeOK, NEW G, Closed(G), Holds(G), AcceptedIn(G),
           NEW s \in 1 .. MaxSubmitters, SubmitAccepted(s)
    PROVE  Holds(G)'
<1>. DEFINE c  == submitters[s].copy
            c2 == [c EXCEPT !.row.sandboxId = NextSandboxId]
            st == IF HasRoom(runningQueue, RunningCapacity)
                  THEN RunningInQueue ELSE RunningNotInQueue
<1>1. c2 \in G
  <2>1. c \in LiveCopy
    BY SubmitterType DEF SubmitAccepted, Sending
  <2>2. NextSandboxId \in Nat
    BY DEF NextSandboxId, PipelineTypeOK
  <2>3. c2 \in TaskCopy /\ c2.id = c.id /\ c2.row.hash = c.row.hash
        /\ c2.row.sandboxId = NextSandboxId
    BY <2>1, <2>2 DEF LiveCopy, TaskCopy, RowOver, TaskStatuses
  <2>. QED
    BY <2>3 DEF AcceptedIn
<1>2. /\ runningQueue' = Append(runningQueue, c2) \/ runningQueue' = runningQueue
      /\ submitters' = [submitters EXCEPT ![s] =
                          [stage |-> "logging", copy |-> c2, status |-> st]]
  BY DEF SubmitAccepted
<1>. HIDE DEF c2, st
<1>3. runningQueue' \in Seq(G)
  <2>1. Append(runningQueue, c2) \in Seq(G)
    BY <1>1, AppendProperties DEF Holds
  <2>. QED
    BY <1>2, <2>1 DEF Holds
<1>4. \A r \in 1 .. MaxSubmitters : submitters'[r] # None => submitters'[r].copy \in G
  BY <1>1, <1>2 DEF Holds, PipelineTypeOK
<1>. QED
  BY <1>3, <1>4 DEF SubmitAccepted, Holds, TableIn, dbVars, niqVars, runVars

\* A goroutine that ends leaves the others alone.
LEMMA SubmitterGone ==
    ASSUME PipelineTypeOK, NEW G, Holds(G), NEW s \in 1 .. MaxSubmitters,
           submitters' = [submitters EXCEPT ![s] = None]
    PROVE  \A r \in 1 .. MaxSubmitters : submitters'[r] # None => submitters'[r].copy \in G
BY DEF Holds, PipelineTypeOK

LEMMA SubmitLoggedIn ==
    ASSUME PipelineTypeOK, NEW G, Closed(G), Holds(G), NEW s \in 1 .. MaxSubmitters,
           SubmitLogged(s)
    PROVE  Holds(G)'
<1>1. /\ submitters[s].copy \in LiveCopy /\ submitters[s].copy \in G
      /\ submitters[s].status \in TaskStatuses
  BY SubmitterType DEF SubmitLogged, Holds, TaskStatuses
<1>2. logQueue' \in Seq(G) /\ TableIn(live', G)
  BY <1>1, ChangeStatusIn DEF SubmitLogged
<1>3. \A r \in 1 .. MaxSubmitters : submitters'[r] # None => submitters'[r].copy \in G
  BY SubmitterGone DEF SubmitLogged
<1>. QED
  BY <1>2, <1>3 DEF SubmitLogged, Holds, niqVars, runVars

LEMMA SubmitFailedIn ==
    ASSUME PipelineTypeOK, NEW G, Closed(G), Holds(G), NEW s \in 1 .. MaxSubmitters,
           SubmitFailed(s)
    PROVE  Holds(G)'
<1>. DEFINE c == Retried(submitters[s].copy)
            c2 == [c EXCEPT !.row.queueRetryCount = @ + 1]
            Stays == pendingQueue' \in Seq(G) /\ logQueue' \in Seq(G) /\ TableIn(live', G)
<1>1. submitters[s].copy \in LiveCopy /\ submitters[s].copy \in G
  BY SubmitterType DEF SubmitFailed, Sending, Holds
<1>2. c \in LiveCopy /\ c \in G
  BY <1>1, CountedType, CountedIn DEF Retried
<1>3. c2 \in LiveCopy /\ c2 \in G
  BY <1>2, CountedType, CountedIn
<1>4. PendingNotInQueue \in LiveStatuses /\ PendingNotInQueue \in TaskStatuses
      /\ Aborted \in TaskStatuses
  BY DEF LiveStatuses, TaskStatuses, FinalStatuses
<1>5. Stays
  <2>. HIDE DEF c, c2
  <2>1. CASE ChangeStatusAndPushToLogQueue(c, Aborted) /\ UNCHANGED pendingQueue
    BY <1>2, <1>4, <2>1, ChangeStatusIn DEF Holds
  <2>2. CASE /\ pendingQueue' = Append(pendingQueue, c)
             /\ UNCHANGED <<logQueue, live, faults>>
    BY <1>2, <2>2, AppendProperties DEF Holds, TableIn
  <2>3. CASE SubmitRetryThroughLog(c2) /\ UNCHANGED pendingQueue
    <3>1. WithStatus(c2, PendingNotInQueue) \in LiveCopy
      BY <1>3, <1>4, WithStatusType DEF LiveCopy
    <3>2. WithStatus(c2, PendingNotInQueue) \in G
      BY <1>3, <1>4, WithStatusIn
    <3>. QED
      BY <1>3, <1>4, <2>3, <3>1, <3>2, ChangeStatusIn DEF SubmitRetryThroughLog, Holds
  <2>. USE DEF c, c2
  <2>. QED
    BY <2>1, <2>2, <2>3 DEF SubmitFailed
<1>6. \A r \in 1 .. MaxSubmitters : submitters'[r] # None => submitters'[r].copy \in G
  BY SubmitterGone DEF SubmitFailed
<1>. QED
  BY <1>5, <1>6 DEF SubmitFailed, Holds, niqVars, runVars

LEMMA LogNotFoundIn ==
    ASSUME PipelineTypeOK, NEW G, Closed(G), Holds(G), NEW c \in LiveCopy, c \in G,
           NEW ok \in BOOLEAN
    PROVE  LogIn(LogNotFound(LogState, c, ok), G)
<1>. DEFINE c2  == [c EXCEPT !.row.runningRetryCount = @ + 1]
            st2 == IF c2.row.runningRetryCount >= RunningMaxRetries
                   THEN LogChange(LogState, c2, Aborted, ok) ELSE LogState
<1>1. c2 \in LiveCopy /\ c2 \in G
  BY CountedType, CountedIn
<1>2. Aborted \in TaskStatuses /\ RunningNotInQueue \in TaskStatuses
  BY DEF TaskStatuses, FinalStatuses, LiveStatuses
<1>3. LogNotFound(LogState, c, ok) = LogChange(st2, c2, RunningNotInQueue, ok)
  BY DEF LogNotFound
<1>. HIDE DEF c2
<1>4. LogIn(st2, G)
  BY <1>1, <1>2, LogStateIn, LogChangeIn
<1>. HIDE DEF st2
<1>. QED
  BY <1>1, <1>2, <1>3, <1>4, LogChangeIn

LEMMA RunListIn ==
    ASSUME NEW G, Holds(G), RunList
    PROVE  Holds(G)'
BY DEF RunList, Holds, TableIn, dbVars, channelVars, niqVars, pendVars

LEMMA RunFetchIn ==
    ASSUME NEW G, Holds(G), RunFetch
    PROVE  Holds(G)'
<1>1. runBatch' \in Seq(G) /\ runningQueue' \in Seq(G)
  BY DEF RunFetch, Holds
<1>. QED
  BY <1>1 DEF RunFetch, Holds, TableIn, dbVars, niqVars, pendVars

LEMMA RunCheckIn ==
    ASSUME PipelineTypeOK, NEW G, Closed(G), Holds(G), RunCheck
    PROVE  Holds(G)'
<1>. DEFINE c == Head(runBatch)
            Stays == runningQueue' \in Seq(G) /\ logQueue' \in Seq(G) /\ TableIn(live', G)
<1>1. c \in LiveCopy /\ c \in G /\ Tail(runBatch) \in Seq(G)
  BY HeadIn DEF RunCheck, Holds, PipelineTypeOK
<1>2. Append(runningQueue, c) \in Seq(G)
  BY <1>1, AppendProperties DEF Holds
<1>3. {Reported, Aborted, RunningNotInQueue} \subseteq TaskStatuses
  BY DEF TaskStatuses, FinalStatuses, LiveStatuses
<1>4. Stays
  <2>1. ASSUME NEW s \in {Reported, Aborted, RunningNotInQueue},
               ChangeStatusAndPushToLogQueue(c, s), UNCHANGED runningQueue
        PROVE  Stays
    BY <1>1, <1>3, <2>1, ChangeStatusIn DEF Holds
  <2>2. ASSUME NEW ok \in BOOLEAN, LogStateBecomes(LogNotFound(LogState, c, ok)),
               UNCHANGED runningQueue
        PROVE  Stays
    BY <1>1, <2>2, LogNotFoundIn DEF LogStateBecomes, LogIn, Holds
  <2>3. ASSUME runningQueue' = Append(runningQueue, c), UNCHANGED <<logQueue, live, faults>>
        PROVE  Stays
    BY <1>2, <2>3 DEF Holds, TableIn
  <2>. QED
    BY <2>1, <2>2, <2>3 DEF RunCheck
<1>. QED
  BY <1>1, <1>4 DEF RunCheck, Holds, niqVars, pendVars

LEMMA LogStatusIn ==
    ASSUME PipelineTypeOK, NEW G, Closed(G), Holds(G), LogStatus
    PROVE  Holds(G)'
<1>. DEFINE c == Head(logQueue)
<1>1. c \in TaskCopy /\ c \in G /\ Tail(logQueue) \in Seq(G)
  BY HeadOfLog, HeadTailProperties DEF LogStatus, Holds
<1>2. c.row \in RowOver(LiveStatuses) /\ live \in LiveTable /\ c.row.logQueueFailed \in BOOLEAN
  BY <1>1 DEF LogStatus, TaskCopy, RowOver, TaskStatuses, PipelineTypeOK, DbTypeOK, LiveTable
<1>3. c.row = [c.row EXCEPT !.logQueueFailed = c.row.logQueueFailed]
  BY <1>2 DEF RowOver
<1>4. TableIn(WriteRow(live, c.id, c.row), G)
  BY <1>1, <1>2, <1>3, WriteRowIn DEF Holds
<1>5. TableIn(live', G)
  BY <1>4 DEF LogStatus, Holds
<1>. QED
  BY <1>1, <1>5 DEF LogStatus, Holds, niqVars, pendVars, runVars

LEMMA RestartIn ==
    ASSUME PipelineTypeOK, NEW G, Closed(G), Holds(G), NEW rebooted \in BOOLEAN,
           Restart(rebooted)
    PROVE  Holds(G)'
<1>1. TableIn(live', G)
  <2>. SUFFICES ASSUME NEW t \in Tasks, live'[t] # None PROVE [id |-> t, row |-> live'[t]] \in G
    BY DEF TableIn
  <2>1. live[t] # None /\ live'[t] = [live[t] EXCEPT !.status = Recovered(@, rebooted)]
    BY DEF Restart, ResetQueueDb
  <2>2. live[t] \in RowOver(LiveStatuses)
    BY <2>1 DEF PipelineTypeOK, DbTypeOK
  <2>3. Recovered(live[t].status, rebooted) \in LiveStatuses
    BY <2>2 DEF Recovered, LiveStatuses, RowOver
  <2>4. /\ [id |-> t, row |-> live'[t]] \in TaskCopy
        /\ live'[t].sandboxId = live[t].sandboxId /\ live'[t].hash = live[t].hash
    BY <2>1, <2>2, <2>3 DEF TaskCopy, RowOver, TaskStatuses
  <2>. QED
    BY <2>1, <2>4 DEF Closed, Holds, TableIn
<1>. QED
  BY <1>1 DEF Restart, Holds

\* A transaction inserts rows for the duplicates it promotes.
PromotedIn(G) ==
    LogCommit => \A t \in logRead.dups : live'[t] # None => [id |-> t, row |-> PromotedRow] \in G

LEMMA LogCommitIn ==
    ASSUME PipelineTypeOK, NEW G, Closed(G), Holds(G), PromotedIn(G), LogCommit
    PROVE  Holds(G)'
<1>. DEFINE c == Head(logQueue)
<1>1. Tail(logQueue) \in Seq(G)
  BY HeadTailProperties DEF LogCommit, Holds
<1>2. TableIn(live', G)
  <2>1. ASSUME NEW D, D \subseteq logRead.dups, live' = LiveAfterFinish(c.id, D)
        PROVE  TableIn(live', G)
    BY <2>1, PromotedRowType, DbAssumption
    DEF LiveAfterFinish, TableIn, Holds, PromotedIn, PipelineTypeOK, DbTypeOK
  <2>2. live' = live \/ live' = LiveAfterFinish(c.id, {}) \/ live' = LiveAfterFinish(c.id, logRead.dups)
    BY DEF LogCommit, Finish, Abort
  <2>. QED
    BY <2>1, <2>2 DEF Holds
<1>. QED
  BY <1>1, <1>2 DEF LogCommit, Holds, niqVars, pendVars, runVars

\* Whatever step is taken: copies and rows stay in a closed set that has room for
\* the copy of a new sandbox task and for the row of a promoted duplicate.
LEMMA CopiesStay ==
    ASSUME PipelineTypeOK, NEW G, Closed(G), Holds(G), AcceptedIn(G), PromotedIn(G),
           [PipelineNext]_pipelineVars
    PROVE  Holds(G)'
<1>1. CASE NiqNext
  BY <1>1, NiqFetchIn, NiqPushIn, NiqUpdateIn DEF NiqNext
<1>2. CASE PendNext
  BY <1>2, PendFetchIn, PendGiveUpIn, PendSpawnIn DEF PendNext
<1>3. CASE RunNext
  BY <1>3, RunListIn, RunFetchIn, RunCheckIn DEF RunNext
<1>4. CASE LogNext
  <2>1. CASE LogPrepare
    BY <2>1 DEF LogPrepare, Holds, TableIn, dbVars, channelVars, niqVars, pendVars, runVars
  <2>2. CASE LogCommit
    BY <2>2, LogCommitIn DEF LogCommit
  <2>. QED
    BY <1>4, <2>1, <2>2, LogStatusIn DEF LogNext
<1>5. CASE DeleteNext
  BY <1>5 DEF DeleteNext, DeleteLocalTask, DeleteSandboxData, Holds, TableIn, dbVars, channelVars,
              niqVars, pendVars, runVars
<1>6. CASE \E s \in 1 .. MaxSubmitters : SubmitNext(s)
  BY <1>6, SubmitAcceptedIn, SubmitFailedIn, SubmitLoggedIn DEF SubmitNext
<1>7. CASE \E i \in 1 .. MaxSandboxTasks : SandboxNext(i)
  BY <1>7 DEF SandboxNext, SandboxSettles, Holds, TableIn, dbVars, channelVars, niqVars, pendVars,
              runVars
<1>8. CASE \E rebooted \in BOOLEAN : Restart(rebooted)
  BY <1>8, RestartIn
<1>9. CASE UNCHANGED pipelineVars
  BY <1>9 DEF Holds, TableIn, pipelineVars, dbVars, channelVars, niqVars, pendVars, runVars
<1>. QED
  BY <1>1, <1>2, <1>3, <1>4, <1>5, <1>6, <1>7, <1>8, <1>9 DEF PipelineNext

-----------------------------------------------------------------------------
(* Which report is read.                                                   *)

OwnCopy == {c \in TaskCopy : OwnId(c.id, c.row)}

OwnInv == PipelineTypeOK /\ Holds(OwnCopy)

LEMMA OwnCopyOfLive ==
    ASSUME NEW q \in Seq(TaskCopy)
    PROVE  q \in Seq(OwnCopy) <=> OwnIdsIn(q)
<1>1. ASSUME OwnIdsIn(q) PROVE q \in Seq(OwnCopy)
  <2>1. \A i \in 1 .. Len(q) : q[i] \in OwnCopy
    BY <1>1, ElementOfSeq DEF OwnIdsIn, OwnCopy
  <2>2. Len(q) \in Nat /\ q \in [1 .. Len(q) -> OwnCopy]
    BY <2>1
  <2>. QED
    BY <2>2, SeqDef
<1>2. ASSUME q \in Seq(OwnCopy) PROVE OwnIdsIn(q)
  BY <1>2, ElementOfSeq DEF OwnIdsIn, OwnCopy
<1>. QED
  BY <1>1, <1>2

LEMMA OwnInvReport == OwnInv => OwnReport
<1>. SUFFICES ASSUME OwnInv PROVE OwnReport
  OBVIOUS
<1>1. Seq(LiveCopy) \subseteq Seq(TaskCopy)
  BY LiveCopyIsTaskCopy
<1>2. /\ OwnIdsIn(pendingQueue) /\ OwnIdsIn(runningQueue) /\ OwnIdsIn(logQueue)
      /\ OwnIdsIn(pendBatch) /\ OwnIdsIn(runBatch)
  BY <1>1, OwnCopyOfLive DEF OwnInv, PipelineTypeOK, Holds
<1>3. \A t \in Tasks : live[t] # None => OwnId(t, live[t])
  BY DEF OwnInv, Holds, TableIn, OwnCopy
<1>. QED
  BY <1>2, <1>3 DEF OwnInv, Holds, OwnCopy, OwnReport

\* The sandbox gives an id out once, and its task stays the one it was for.
LEMMA SandboxTasksStay ==
    ASSUME PipelineTypeOK, [PipelineNext]_pipelineVars
    PROVE  \A i \in DOMAIN sandbox : i \in DOMAIN sandbox' /\ sandbox'[i].task = sandbox[i].task
<1>1. ASSUME NEW x \in [task : Tasks, state : SandboxStates], sandbox' = Append(sandbox, x)
      PROVE  \A i \in DOMAIN sandbox : i \in DOMAIN sandbox' /\ sandbox'[i].task = sandbox[i].task
  BY <1>1, AppendProperties DEF PipelineTypeOK
<1>2. ASSUME NEW s \in 1 .. MaxSubmitters, SubmitAccepted(s) \/ SubmitFailed(s)
      PROVE  \/ sandbox' = sandbox
             \/ \E x \in [task : Tasks, state : SandboxStates] : sandbox' = Append(sandbox, x)
  <2>1. submitters[s].copy.id \in Tasks /\ Retried(submitters[s].copy).id = submitters[s].copy.id
    BY <1>2, SubmitterType DEF SubmitAccepted, SubmitFailed, Sending, LiveCopy, Retried
  <2>2. NewSandboxTask(submitters[s].copy.id) \in [task : Tasks, state : SandboxStates]
    BY <2>1 DEF NewSandboxTask, SandboxStates
  <2>. QED
    BY <1>2, <2>1, <2>2 DEF SubmitAccepted, SubmitFailed
<1>3. ASSUME NEW j, NEW e, sandbox' = [sandbox EXCEPT ![j].state = e]
      PROVE  \A i \in DOMAIN sandbox : i \in DOMAIN sandbox' /\ sandbox'[i].task = sandbox[i].task
  <2>. SUFFICES ASSUME NEW i \in DOMAIN sandbox
                PROVE  i \in DOMAIN sandbox' /\ sandbox'[i].task = sandbox[i].task
    OBVIOUS
  <2>1. sandbox \in Seq([task : Tasks, state : SandboxStates]) /\ i \in 1 .. Len(sandbox)
    BY DEF PipelineTypeOK
  <2>2. sandbox[i] \in [task : Tasks, state : SandboxStates]
    BY <2>1, ElementOfSeq
  <2>. QED
    BY <1>3, <2>2
<1>4. CASE \E s \in 1 .. MaxSubmitters : SubmitAccepted(s) \/ SubmitFailed(s)
  BY <1>1, <1>2, <1>4
<1>5. CASE \E i \in 1 .. MaxSandboxTasks : DeleteSandboxData(i) \/ SandboxSettles(i)
  BY <1>3, <1>5 DEF DeleteSandboxData, SandboxSettles
<1>6. \/ \E s \in 1 .. MaxSubmitters : SubmitAccepted(s) \/ SubmitFailed(s)
      \/ \E i \in 1 .. MaxSandboxTasks : DeleteSandboxData(i) \/ SandboxSettles(i)
      \/ UNCHANGED sandbox
  BY DEF PipelineNext, NiqNext, PendNext, RunNext, LogNext, DeleteNext, SubmitNext, SandboxNext,
         NiqFetch, NiqPush, NiqUpdate, PendFetch, PendGiveUp, PendSpawn, SubmitLogged, RunList,
         RunFetch, RunCheck, LogPrepare, LogCommit, LogStatus, DeleteLocalTask, Restart,
         pipelineVars
<1>. QED
  BY <1>4, <1>5, <1>6

LEMMA NextOwn ==
    ASSUME OwnInv, [PipelineNext]_pipelineVars
    PROVE  OwnInv'
<1>1. PipelineTypeOK /\ PipelineTypeOK'
  BY NextType DEF OwnInv
<1>2. OwnCopy \subseteq OwnCopy'
  BY <1>1, SandboxTasksStay DEF OwnCopy, OwnId
<1>3. PICK G : G = OwnCopy'
  OBVIOUS
<1>4. Closed(G)
  BY <1>3 DEF Closed, OwnCopy, OwnId
<1>5. Holds(G)
  <2>1. OwnCopy \subseteq G /\ Seq(OwnCopy) \subseteq Seq(G)
    BY <1>2, <1>3
  <2>. QED
    BY <2>1 DEF OwnInv, Holds, TableIn
<1>6. AcceptedIn(G)
  <2>. SUFFICES ASSUME NEW s \in 1 .. MaxSubmitters, SubmitAccepted(s), NEW d \in TaskCopy,
                       d.id = submitters[s].copy.id, d.row.sandboxId = NextSandboxId
                PROVE  d \in G
    BY DEF AcceptedIn
  <2>1. submitters[s].copy.id \in Tasks
    BY <1>1, SubmitterType DEF SubmitAccepted, Sending, LiveCopy
  <2>2. sandbox' = Append(sandbox, NewSandboxTask(submitters[s].copy.id))
    BY DEF SubmitAccepted
  <2>3. NextSandboxId \in DOMAIN sandbox' /\ sandbox'[NextSandboxId].task = d.id
    BY <1>1, <2>2, AppendProperties DEF NextSandboxId, NewSandboxTask, PipelineTypeOK
  <2>. QED
    BY <1>3, <2>3 DEF OwnCopy, OwnId
<1>7. PromotedIn(G)
  <2>1. \A t \in Tasks : [id |-> t, row |-> PromotedRow] \in TaskCopy
    BY PromotedRowType DEF TaskCopy, RowOver, TaskStatuses
  <2>2. PromotedRow.sandboxId = 0
    BY DEF PromotedRow, NewLiveRow
  <2>3. LogCommit => logRead.dups \subseteq Tasks
    BY <1>1 DEF LogCommit, PipelineTypeOK, LogRead
  <2>. QED
    BY <1>3, <2>1, <2>2, <2>3 DEF PromotedIn, OwnCopy, OwnId
<1>8. Holds(G)'
  BY <1>1, <1>4, <1>5, <1>6, <1>7, CopiesStay
<1>. QED
  BY <1>1, <1>3, <1>8 DEF OwnInv, Holds, TableIn

\* The score a file is settled with is never that of another file: wherever its row
\* has been copied, updated, pushed back or recovered, the sandbox id beside it was
\* given out for this file, also after lost answers, deletions and restarts.
THEOREM ReportIsOwn == PipelineSpec => []OwnReport
<1>1. PipelineInit => OwnInv
  <2>. SUFFICES ASSUME PipelineInit PROVE OwnInv
    OBVIOUS
  <2>1. PICK h \in [Tasks -> Hashes] :
          /\ live = [t \in Tasks |-> IF FirstOf(h, t) THEN NewLiveRow(h[t]) ELSE None]
          /\ EmptyMemory
    BY DEF PipelineInit
  <2>2. \A t \in Tasks : [id |-> t, row |-> NewLiveRow(h[t])] \in OwnCopy
    BY DEF NewLiveRow, OwnCopy, OwnId, TaskCopy, RowOver, TaskStatuses, LiveStatuses
  <2>. QED
    BY <2>1, <2>2, InitType DEF OwnInv, Holds, TableIn, EmptyMemory
<1>2. OwnInv /\ [PipelineNext]_pipelineVars => OwnInv'
  BY NextOwn
<1>. QED
  BY <1>1, <1>2, OwnInvReport, PTL DEF PipelineSpec

-----------------------------------------------------------------------------
(* No task is dropped.                                                     *)

Fetchable(row) == row.status \in {PendingNotInQueue, RunningNotInQueue} \/ row.logQueueFailed

\* An entry that is more than the confirmation of a push to RunningQueue.
LogCarries(q, t) == \E i \in DOMAIN q : q[i].id = t /\ q[i].row.status # RunningInQueue

HeldIn(st, t) == st.table[t] = None \/ Fetchable(st.table[t]) \/ LogCarries(st.queue, t)

SubmitterCarries(S, t) ==
    \E s \in 1 .. MaxSubmitters :
        S[s] # None /\ S[s].copy.id = t /\ S[s].status # RunningInQueue

InTransit(t) ==
    \/ Carries(pendingQueue, t) \/ Carries(pendBatch, t)
    \/ Carries(runningQueue, t) \/ Carries(runBatch, t)
    \/ SubmitterCarries(submitters, t)

Fetched(t) == \E c \in niqBatch : c.id = t

LEMMA HeldIs ==
    ASSUME NEW t \in Tasks
    PROVE  Stranded(t) <=> ~ (HeldIn(LogState, t) \/ InTransit(t) \/ Fetched(t))
BY DEF Stranded, NotInQueue, Carried, HeldIn, Fetchable, LogCarries, LogState, InTransit,
       SubmitterCarries, Fetched

LEMMA CarriesAppend ==
    ASSUME NEW q \in Seq(TaskCopy), NEW c \in TaskCopy, NEW t
    PROVE  /\ Carries(q, t) \/ c.id = t => Carries(Append(q, c), t)
           /\ LogCarries(q, t) \/ (c.id = t /\ c.row.status # RunningInQueue)
                => LogCarries(Append(q, c), t)
<1>1. /\ Len(q) \in Nat /\ DOMAIN q = 1 .. Len(q) /\ DOMAIN Append(q, c) = 1 .. Len(q) + 1
      /\ \A i \in 1 .. Len(q) : Append(q, c)[i] = q[i]
      /\ Append(q, c)[Len(q) + 1] = c
  BY AppendProperties, LenProperties
<1>2. /\ Len(q) + 1 \in DOMAIN Append(q, c)
      /\ \A i \in DOMAIN q : i \in DOMAIN Append(q, c)
  BY <1>1
<1>. QED
  BY <1>1, <1>2 DEF Carries, LogCarries

LEMMA CarriesTail ==
    ASSUME NEW q \in Seq(TaskCopy), q # <<>>, NEW t
    PROVE  /\ Carries(q, t) => Carries(Tail(q), t) \/ Head(q).id = t
           /\ LogCarries(q, t) => LogCarries(Tail(q), t)
                                  \/ (Head(q).id = t /\ Head(q).row.status # RunningInQueue)
<1>1. /\ Len(q) \in Nat /\ Len(q) > 0 /\ Head(q) = q[1] /\ DOMAIN q = 1 .. Len(q)
      /\ Tail(q) \in Seq(TaskCopy)
  BY EmptySeq, HeadTailProperties, LenProperties
<1>2. /\ Len(Tail(q)) = Len(q) - 1 /\ DOMAIN Tail(q) = 1 .. Len(q) - 1
      /\ \A i \in 1 .. Len(q) - 1 : Tail(q)[i] = q[i + 1]
  BY <1>1, HeadTailProperties, LenProperties
<1>3. \A i \in DOMAIN q : i = 1 \/ (i - 1 \in DOMAIN Tail(q) /\ Tail(q)[i - 1] = q[i])
  BY <1>1, <1>2
<1>. QED
  BY <1>1, <1>3 DEF Carries, LogCarries

LEMMA CarriesTaken ==
    ASSUME NEW q \in Seq(TaskCopy), NEW n \in Nat, NEW t, Carries(q, t)
    PROVE  Carries(Taken(q, n), t) \/ Carries(Left(q, n), t)
<1>. DEFINE m == Least(n, Len(q))
<1>1. Len(q) \in Nat /\ DOMAIN q = 1 .. Len(q)
  BY LenProperties
<1>2. m \in Nat /\ m <= Len(q)
  BY <1>1 DEF Least
<1>3. PICK i \in 1 .. Len(q) : q[i].id = t
  BY <1>1 DEF Carries
<1>4. /\ Taken(q, n) = SubSeq(q, 1, m)
      /\ Left(q, n) = SubSeq(q, m + 1, Len(q))
  BY DEF Taken, Left
<1>. HIDE DEF m
<1>5. CASE i <= m
  <2>1. i \in DOMAIN SubSeq(q, 1, m) /\ SubSeq(q, 1, m)[i] = q[i]
    BY <1>1, <1>2, <1>3, <1>5
  <2>. QED
    BY <1>3, <1>4, <2>1 DEF Carries
<1>6. CASE ~ (i <= m)
  <2>1. i - m \in DOMAIN SubSeq(q, m + 1, Len(q)) /\ SubSeq(q, m + 1, Len(q))[i - m] = q[i]
    BY <1>1, <1>2, <1>3, <1>6
  <2>. QED
    BY <1>3, <1>4, <2>1 DEF Carries
<1>. QED
  BY <1>5, <1>6

\* A push to the log channel that finds no room flags the row instead.
LEMMA LogChangeHolds ==
    ASSUME NEW st \in LogStates, NEW c \in LiveCopy, NEW s \in TaskStatuses,
           NEW ok \in BOOLEAN, NEW t \in Tasks
    PROVE  /\ HeldIn(st, t) => HeldIn(LogChange(st, c, s, ok), t)
           /\ ok /\ c.id = t /\ s # RunningInQueue => HeldIn(LogChange(st, c, s, ok), t)
<1>1. CASE HasRoom(st.queue, LogCapacity)
  <2>1. PICK d : d = WithStatus(c, s)
    OBVIOUS
  <2>2. d \in TaskCopy /\ d.id = c.id /\ d.row.status = s
    <3>1. d \in TaskCopy
      BY <2>1, WithStatusType DEF LiveCopy, TaskCopy
    <3>. QED
      BY <2>1, <3>1 DEF WithStatus, LiveCopy, RowOver
  <2>3. PICK r : r = LogChange(st, c, s, ok)
    OBVIOUS
  <2>4. r.queue = Append(st.queue, d) /\ r.table = st.table /\ st.queue \in Seq(TaskCopy)
    BY <1>1, <2>1, <2>3 DEF LogChange, Push, LogStates
  <2>. QED
    BY <2>2, <2>3, <2>4, CarriesAppend DEF HeldIn
<1>2. CASE ~ HasRoom(st.queue, LogCapacity) /\ ok
  <2>1. PICK row : row = [c.row EXCEPT !.logQueueFailed = TRUE]
    OBVIOUS
  <2>2. row \in RowOver(LiveStatuses) /\ row.logQueueFailed /\ c.id \in Tasks
    BY <2>1 DEF LiveCopy, RowOver
  <2>3. PICK r : r = LogChange(st, c, s, ok)
    OBVIOUS
  <2>4. r.queue = st.queue /\ r.table = WriteRow(st.table, c.id, row) /\ st.table \in LiveTable
    BY <1>2, <2>1, <2>3 DEF LogChange, LogStates
  <2>5. r.table[t] = st.table[t] \/ (c.id = t /\ r.table[t] = [row EXCEPT !.hash = st.table[t].hash])
    BY <2>2, <2>4 DEF WriteRow, LiveTable
  <2>6. c.id = t => r.table[t] = None \/ r.table[t] = [row EXCEPT !.hash = st.table[t].hash]
    BY <2>2, <2>4 DEF WriteRow, LiveTable
  <2>7. [row EXCEPT !.hash = st.table[t].hash].logQueueFailed
    BY <2>2 DEF RowOver
  <2>. QED
    BY <2>3, <2>4, <2>5, <2>6, <2>7 DEF HeldIn, Fetchable
<1>3. CASE ~ HasRoom(st.queue, LogCapacity) /\ ~ ok
  BY <1>3 DEF LogChange
<1>. QED
  BY <1>1, <1>2, <1>3

LEMMA FaultCounted ==
    ASSUME PipelineTypeOK, NEW ok \in BOOLEAN, Statement(ok), faults' = faults
    PROVE  ok
BY DEF Statement, PipelineTypeOK

LEMMA ChangeStatusHolds ==
    ASSUME PipelineTypeOK, NEW c \in LiveCopy, NEW s \in TaskStatuses, faults' = faults,
           ChangeStatusAndPushToLogQueue(c, s), NEW t \in Tasks
    PROVE  /\ HeldIn(LogState, t) => HeldIn(LogState, t)'
           /\ c.id = t /\ s # RunningInQueue => HeldIn(LogState, t)'
<1>1. PICK ok \in BOOLEAN : Statement(ok) /\ LogStateBecomes(LogChange(LogState, c, s, ok))
  BY DEF ChangeStatusAndPushToLogQueue
<1>2. ok
  BY <1>1, FaultCounted
<1>3. LogState \in LogStates
  BY LogStateType
<1>4. PICK r : r = LogChange(LogState, c, s, ok)
  OBVIOUS
<1>5. HeldIn(r, t) => HeldIn(LogState, t)'
  BY <1>1, <1>4 DEF LogStateBecomes, HeldIn, LogState
<1>. QED
  BY <1>2, <1>3, <1>4, <1>5, LogChangeHolds

Held(t) == HeldIn(LogState, t) \/ InTransit(t) \/ Fetched(t)

LEMMA ChannelsTyped ==
    ASSUME PipelineTypeOK
    PROVE  /\ pendingQueue \in Seq(TaskCopy) /\ pendBatch \in Seq(TaskCopy)
           /\ runningQueue \in Seq(TaskCopy) /\ runBatch \in Seq(TaskCopy)
           /\ logQueue \in Seq(TaskCopy)
BY LiveCopyIsTaskCopy DEF PipelineTypeOK

LEMMA NiqFetchHolds ==
    ASSUME NEW t \in Tasks, Held(t), NiqFetch
    PROVE  Held(t)'
BY DEF Held, NiqFetch, Fetched, HeldIn, LogState, InTransit, SubmitterCarries, dbVars, channelVars,
       pendVars, runVars

LEMMA NiqPushHolds ==
    ASSUME PipelineTypeOK, NEW t \in Tasks, Held(t), NEW c \in niqBatch, NiqPush(c)
    PROVE  Held(t)' \/ DropsStaleCopy(t)
<1>1. c \in LiveCopy
  BY DEF PipelineTypeOK
<1>2. ASSUME NEW q \in Seq(TaskCopy), NEW n, NEW s \in TaskStatuses
      PROVE  /\ Carries(q, t) => Carries(Pushed(q, n, c, s), t)
             /\ LogCarries(q, t) => LogCarries(Pushed(q, n, c, s), t)
  <2>1. WithStatus(c, s) \in TaskCopy
    BY <1>1, WithStatusType DEF LiveCopy, TaskCopy
  <2>. QED
    BY <2>1, CarriesAppend DEF Pushed, Push
<1>3. {Scanned, Aborted, PendingInQueue, RunningInQueue, RequeueStatus(c.row.status)}
        \subseteq TaskStatuses
  BY <1>1 DEF RequeueStatus, LiveCopy, RowOver, TaskStatuses, LiveStatuses, FinalStatuses
<1>. DEFINE Grown == /\ Carries(pendingQueue, t) => Carries(pendingQueue, t)'
                     /\ Carries(runningQueue, t) => Carries(runningQueue, t)'
                     /\ LogCarries(logQueue, t) => LogCarries(logQueue, t)'
<1>4. Grown
  <2>1. ASSUME NEW s \in TaskStatuses, NiqToLog(c, s) PROVE Grown
    BY <1>2, <2>1, ChannelsTyped DEF NiqToLog, Carries
  <2>2. ASSUME NiqToPending(c) PROVE Grown
    BY <1>2, <1>3, <2>2, ChannelsTyped DEF NiqToPending, Carries, LogCarries
  <2>3. ASSUME NiqToRunning(c) PROVE Grown
    BY <1>2, <1>3, <2>3, ChannelsTyped DEF NiqToRunning, Carries, LogCarries
  <2>. HIDE DEF Grown
  <2>. QED
    BY <1>3, <2>1, <2>2, <2>3 DEF NiqPush, NiqRelog, NiqScanFound, NiqAdmit, NiqResume
<1>5. UNCHANGED <<live, pendBatch, submitters, runBatch>> /\ niqBatch' = niqBatch \ {c}
  BY DEF NiqPush, dbVars, pendVars, runVars
<1>6. CASE HeldIn(LogState, t) \/ InTransit(t)
  BY <1>4, <1>5, <1>6 DEF Held, HeldIn, LogState, InTransit, SubmitterCarries, Carries
<1>7. CASE Fetched(t) /\ ~ HeldIn(LogState, t)
  <2>1. ~ NotInQueue(t)
    BY <1>7 DEF HeldIn, LogState, NotInQueue, Fetchable
  <2>2. Fetched(t)' \/ c.id = t
    BY <1>5, <1>7 DEF Fetched
  <2>. QED
    BY <2>1, <2>2 DEF DropsStaleCopy, Held
<1>. QED
  BY <1>6, <1>7 DEF Held

LEMMA PendFetchHolds ==
    ASSUME PipelineTypeOK, NEW t \in Tasks, Held(t), PendFetch
    PROVE  Held(t)'
<1>1. PICK ok \in ListOutcomes :
        /\ NotReported(ok) < MaxFreeVms
        /\ pendBatch' = Taken(pendingQueue, MaxFreeVms - NotReported(ok))
        /\ pendingQueue' = Left(pendingQueue, MaxFreeVms - NotReported(ok))
  BY DEF PendFetch
<1>2. MaxFreeVms - NotReported(ok) \in Nat
  BY <1>1, FreeVmsType
<1>3. Carries(pendingQueue, t) => Carries(pendBatch', t) \/ Carries(pendingQueue', t)
  BY <1>1, <1>2, CarriesTaken, ChannelsTyped
<1>4. ~ Carries(pendBatch, t)
  BY DEF PendFetch, Carries
<1>. QED
  BY <1>3, <1>4 DEF PendFetch, Held, HeldIn, LogState, InTransit, SubmitterCarries, Fetched, Carries,
                    dbVars, niqVars, runVars

LEMMA PendGiveUpHolds ==
    ASSUME PipelineTypeOK, NEW t \in Tasks, Held(t), PendGiveUp, faults' = faults
    PROVE  Held(t)'
<1>1. Head(pendBatch) \in LiveCopy /\ Aborted \in TaskStatuses /\ Aborted # RunningInQueue
  BY HeadTailProperties DEF PendGiveUp, PipelineTypeOK, TaskStatuses, FinalStatuses, Aborted,
                            RunningInQueue
<1>2. /\ HeldIn(LogState, t) => HeldIn(LogState, t)'
      /\ Head(pendBatch).id = t => HeldIn(LogState, t)'
  BY <1>1, ChangeStatusHolds DEF PendGiveUp
<1>3. Carries(pendBatch, t) => Carries(Tail(pendBatch), t) \/ Head(pendBatch).id = t
  BY CarriesTail, ChannelsTyped DEF PendGiveUp
<1>. QED
  BY <1>2, <1>3 DEF PendGiveUp, Held, InTransit, SubmitterCarries, Fetched, Carries, niqVars, runVars

LEMMA PendSpawnHolds ==
    ASSUME PipelineTypeOK, NEW t \in Tasks, Held(t), NEW s \in 1 .. MaxSubmitters, PendSpawn(s)
    PROVE  Held(t)'
<1>1. Carries(pendBatch, t) => Carries(Tail(pendBatch), t) \/ Head(pendBatch).id = t
  BY CarriesTail, ChannelsTyped DEF PendSpawn
<1>2. Head(pendBatch).id = t => SubmitterCarries(submitters, t)'
  <2>1. PICK g : g = [stage |-> "sending", copy |-> Head(pendBatch), status |-> PendingInQueue]
    OBVIOUS
  <2>2. g # None
    <3>1. Head(pendBatch) \in LiveCopy
      BY HeadTailProperties DEF PendSpawn, PipelineTypeOK
    <3>2. g \in Submitter
      BY <2>1, <3>1 DEF Submitter, LiveStatuses
    <3>. QED
      BY <3>2, PipelineAssumption
  <2>. QED
    BY <2>1, <2>2 DEF PendSpawn, PipelineTypeOK, SubmitterCarries, PendingInQueue, RunningInQueue
<1>3. SubmitterCarries(submitters, t) => SubmitterCarries(submitters, t)'
  BY DEF PendSpawn, PipelineTypeOK, SubmitterCarries
<1>. QED
  BY <1>1, <1>2, <1>3 DEF PendSpawn, Held, HeldIn, LogState, InTransit, Fetched, Carries,
                          dbVars, channelVars, niqVars, runVars

LEMMA SubmitAcceptedHolds ==
    ASSUME PipelineTypeOK, NEW t \in Tasks, Held(t), NEW s \in 1 .. MaxSubmitters,
           SubmitAccepted(s)
    PROVE  Held(t)'
<1>1. PICK c2 : c2 = [submitters[s].copy EXCEPT !.row.sandboxId = NextSandboxId]
  OBVIOUS
<1>2. PICK st : st = IF HasRoom(runningQueue, RunningCapacity)
                     THEN RunningInQueue ELSE RunningNotInQueue
  OBVIOUS
<1>3. PICK g : g = [stage |-> "logging", copy |-> c2, status |-> st]
  OBVIOUS
<1>4. /\ runningQueue' = IF HasRoom(runningQueue, RunningCapacity)
                         THEN Append(runningQueue, c2) ELSE runningQueue
      /\ submitters' = [submitters EXCEPT ![s] = g]
  BY <1>1, <1>2, <1>3 DEF SubmitAccepted
<1>5. c2 \in LiveCopy /\ c2.id = submitters[s].copy.id
  <2>1. submitters[s].copy \in LiveCopy
    BY SubmitterType DEF SubmitAccepted, Sending
  <2>2. NextSandboxId \in Nat
    BY DEF NextSandboxId, PipelineTypeOK
  <2>. QED
    BY <1>1, <2>1, <2>2 DEF LiveCopy, RowOver
<1>6. g # None /\ g.copy = c2 /\ g.status = st
  <2>1. g \in Submitter
    BY <1>2, <1>3, <1>5 DEF Submitter, LiveStatuses
  <2>. QED
    BY <1>3, <2>1, PipelineAssumption
<1>7. Carries(runningQueue, t) => Carries(runningQueue', t)
  BY <1>4, <1>5, CarriesAppend, ChannelsTyped, LiveCopyIsTaskCopy
<1>8. SubmitterCarries(submitters, t) => Carries(runningQueue', t) \/ SubmitterCarries(submitters', t)
  <2>. SUFFICES ASSUME NEW r \in 1 .. MaxSubmitters, submitters[r] # None,
                       submitters[r].copy.id = t, submitters[r].status # RunningInQueue
                PROVE  Carries(runningQueue', t) \/ SubmitterCarries(submitters', t)
    BY DEF SubmitterCarries
  <2>1. CASE r # s
    <3>1. submitters'[r] = submitters[r]
      BY <1>4, <2>1 DEF PipelineTypeOK
    <3>. QED
      BY <3>1 DEF SubmitterCarries
  <2>2. CASE r = s /\ HasRoom(runningQueue, RunningCapacity)
    BY <1>4, <1>5, <2>2, CarriesAppend, ChannelsTyped, LiveCopyIsTaskCopy
  <2>3. CASE r = s /\ ~ HasRoom(runningQueue, RunningCapacity)
    <3>1. submitters'[s] = g /\ st # RunningInQueue
      BY <1>2, <1>4, <2>3 DEF PipelineTypeOK, RunningInQueue, RunningNotInQueue
    <3>. QED
      BY <1>5, <1>6, <2>3, <3>1 DEF SubmitterCarries
  <2>. QED
    BY <2>1, <2>2, <2>3
<1>. QED
  BY <1>7, <1>8 DEF SubmitAccepted, Held, HeldIn, LogState, InTransit, Fetched, Carries,
                    dbVars, niqVars, runVars

\* A goroutine that ends has left its task with the log channel or PendingQueue.
LEMMA SubmitterEnds ==
    ASSUME PipelineTypeOK, NEW t \in Tasks, NEW s \in 1 .. MaxSubmitters,
           submitters' = [submitters EXCEPT ![s] = None], SubmitterCarries(submitters, t)
    PROVE  \/ SubmitterCarries(submitters', t)
           \/ submitters[s].copy.id = t /\ submitters[s].status # RunningInQueue
<1>1. \A r \in 1 .. MaxSubmitters : r # s => submitters'[r] = submitters[r]
  BY DEF PipelineTypeOK
<1>. QED
  BY <1>1 DEF SubmitterCarries

LEMMA SubmitLoggedHolds ==
    ASSUME PipelineTypeOK, NEW t \in Tasks, Held(t), NEW s \in 1 .. MaxSubmitters,
           SubmitLogged(s), faults' = faults
    PROVE  Held(t)'
<1>1. submitters[s].copy \in LiveCopy /\ submitters[s].status \in TaskStatuses
  BY SubmitterType DEF SubmitLogged, TaskStatuses
<1>2. /\ HeldIn(LogState, t) => HeldIn(LogState, t)'
      /\ submitters[s].copy.id = t /\ submitters[s].status # RunningInQueue
            => HeldIn(LogState, t)'
  BY <1>1, ChangeStatusHolds DEF SubmitLogged
<1>3. SubmitterCarries(submitters, t) =>
        \/ SubmitterCarries(submitters', t)
        \/ submitters[s].copy.id = t /\ submitters[s].status # RunningInQueue
  BY SubmitterEnds DEF SubmitLogged
<1>. QED
  BY <1>2, <1>3 DEF SubmitLogged, Held, InTransit, SubmitterCarries, Fetched, Carries, niqVars,
                    runVars

LEMMA SubmitFailedHolds ==
    ASSUME PipelineTypeOK, NEW t \in Tasks, Held(t), NEW s \in 1 .. MaxSubmitters,
           SubmitFailed(s), faults' = faults
    PROVE  Held(t)'
<1>. DEFINE c == Retried(submitters[s].copy)
            c2 == [c EXCEPT !.row.queueRetryCount = @ + 1]
            Kept == /\ HeldIn(LogState, t) => HeldIn(LogState, t)'
                    /\ Carries(pendingQueue, t) => Carries(pendingQueue', t)
                    /\ c.id = t => HeldIn(LogState, t)' \/ Carries(pendingQueue', t)
<1>1. submitters[s].copy \in LiveCopy
  BY SubmitterType DEF SubmitFailed, Sending
<1>2. c \in LiveCopy /\ c.id = submitters[s].copy.id
  BY <1>1, CountedType DEF Retried, LiveCopy
<1>3. c2 \in LiveCopy /\ c2.id = c.id
  BY <1>2, CountedType DEF LiveCopy
<1>4. /\ PendingNotInQueue \in LiveStatuses /\ PendingNotInQueue \in TaskStatuses
      /\ Aborted \in TaskStatuses
      /\ PendingNotInQueue # RunningInQueue /\ Aborted # RunningInQueue
  BY DEF LiveStatuses, TaskStatuses, FinalStatuses, PendingNotInQueue, Aborted, RunningInQueue
<1>5. Kept
  <2>. HIDE DEF c, c2
  <2>1. CASE ChangeStatusAndPushToLogQueue(c, Aborted) /\ UNCHANGED pendingQueue
    BY <1>2, <1>4, <2>1, ChangeStatusHolds
  <2>2. CASE /\ pendingQueue' = Append(pendingQueue, c)
             /\ UNCHANGED <<logQueue, live, faults>>
    <3>1. HeldIn(LogState, t) => HeldIn(LogState, t)'
      BY <2>2 DEF HeldIn, LogState
    <3>2. Carries(pendingQueue, t) \/ c.id = t => Carries(pendingQueue', t)
      BY <1>2, <2>2, CarriesAppend, ChannelsTyped, LiveCopyIsTaskCopy
    <3>. QED
      BY <3>1, <3>2
  <2>3. CASE SubmitRetryThroughLog(c2) /\ UNCHANGED pendingQueue
    <3>1. WithStatus(c2, PendingNotInQueue) \in LiveCopy
          /\ WithStatus(c2, PendingNotInQueue).id = c2.id
      BY <1>3, <1>4, WithStatusType DEF LiveCopy, WithStatus
    <3>. QED
      BY <1>3, <1>4, <2>3, <3>1, ChangeStatusHolds DEF SubmitRetryThroughLog
  <2>. USE DEF c, c2
  <2>. HIDE DEF Kept
  <2>. QED
    BY <2>1, <2>2, <2>3 DEF SubmitFailed
<1>6. SubmitterCarries(submitters, t) => SubmitterCarries(submitters', t) \/ c.id = t
  BY <1>2, SubmitterEnds DEF SubmitFailed
<1>. HIDE DEF c
<1>. QED
  BY <1>5, <1>6 DEF SubmitFailed, Held, InTransit, SubmitterCarries, Fetched, Carries, niqVars,
                    runVars

LEMMA LogChangeLeaves ==
    ASSUME NEW st \in LogStates, NEW c \in LiveCopy, NEW s \in TaskStatuses, s # RunningInQueue,
           NEW ok \in BOOLEAN, ok, NEW t \in Tasks, c.id = t
    PROVE  HeldIn(LogChange(st, c, s, ok), t)
BY LogChangeHolds

LEMMA LogNotFoundHolds ==
    ASSUME NEW st \in LogStates, NEW c \in LiveCopy, NEW t \in Tasks, NEW ok \in BOOLEAN, ok
    PROVE  /\ HeldIn(st, t) => HeldIn(LogNotFound(st, c, ok), t)
           /\ c.id = t => HeldIn(LogNotFound(st, c, ok), t)
<1>1. PICK c2 : c2 = [c EXCEPT !.row.runningRetryCount = @ + 1]
  OBVIOUS
<1>2. c2 \in LiveCopy /\ c2.id = c.id
  BY <1>1, CountedType DEF LiveCopy
<1>3. PICK st2 : st2 = IF c2.row.runningRetryCount >= RunningMaxRetries
                       THEN LogChange(st, c2, Aborted, ok) ELSE st
  OBVIOUS
<1>4. LogNotFound(st, c, ok) = LogChange(st2, c2, RunningNotInQueue, ok)
  BY <1>1, <1>3 DEF LogNotFound
<1>5. /\ Aborted \in TaskStatuses /\ RunningNotInQueue \in TaskStatuses
      /\ RunningNotInQueue # RunningInQueue
  BY DEF TaskStatuses, FinalStatuses, LiveStatuses, RunningNotInQueue, RunningInQueue
<1>6. st2 \in LogStates /\ (HeldIn(st, t) => HeldIn(st2, t))
  BY <1>2, <1>3, <1>5, LogChangeType, LogChangeHolds
<1>7. PICK r : r = LogChange(st2, c2, RunningNotInQueue, ok)
  OBVIOUS
<1>8. /\ HeldIn(st2, t) => HeldIn(r, t)
      /\ c2.id = t => HeldIn(r, t)
  <2>1. HeldIn(st2, t) => HeldIn(LogChange(st2, c2, RunningNotInQueue, ok), t)
    BY <1>2, <1>5, <1>6, LogChangeHolds
  <2>2. ASSUME c2.id = t PROVE HeldIn(LogChange(st2, c2, RunningNotInQueue, ok), t)
    BY <1>2, <1>5, <1>6, <2>2, LogChangeLeaves
  <2>. QED
    BY <1>5, <1>7, <2>1, <2>2
<1>. QED
  BY <1>2, <1>4, <1>6, <1>7, <1>8

LEMMA RunFetchHolds ==
    ASSUME NEW t \in Tasks, Held(t), RunFetch
    PROVE  Held(t)'
<1>1. ~ Carries(runBatch, t)
  BY DEF RunFetch, Carries
<1>. QED
  BY <1>1 DEF RunFetch, Held, HeldIn, LogState, InTransit, SubmitterCarries, Fetched, Carries,
              dbVars, niqVars, pendVars

LEMMA RunCheckHolds ==
    ASSUME PipelineTypeOK, NEW t \in Tasks, Held(t), RunCheck, faults' = faults
    PROVE  Held(t)'
<1>1. PICK c : c = Head(runBatch)
  OBVIOUS
<1>2. c \in LiveCopy
  BY <1>1, HeadTailProperties DEF RunCheck, PipelineTypeOK
<1>3. Carries(runBatch, t) => Carries(Tail(runBatch), t) \/ c.id = t
  BY <1>1, CarriesTail, ChannelsTyped DEF RunCheck
<1>. DEFINE Kept == /\ HeldIn(LogState, t) => HeldIn(LogState, t)'
                    /\ Carries(runningQueue, t) => Carries(runningQueue', t)
                    /\ c.id = t => HeldIn(LogState, t)' \/ Carries(runningQueue', t)
<1>4. ASSUME NEW s \in {Aborted, Reported, RunningNotInQueue}, UNCHANGED runningQueue,
             ChangeStatusAndPushToLogQueue(c, s)
      PROVE  Kept
  <2>1. s \in TaskStatuses /\ s # RunningInQueue
    BY DEF TaskStatuses, FinalStatuses, LiveStatuses, RunningNotInQueue, RunningInQueue, Aborted,
           Reported
  <2>. QED
    BY <1>2, <1>4, <2>1, ChangeStatusHolds
<1>5. ASSUME NEW ok \in BOOLEAN, Statement(ok), UNCHANGED runningQueue,
             LogStateBecomes(LogNotFound(LogState, c, ok))
      PROVE  Kept
  <2>1. ok
    BY <1>5, FaultCounted
  <2>2. PICK r : r = LogNotFound(LogState, c, ok)
    OBVIOUS
  <2>3. (HeldIn(LogState, t) => HeldIn(r, t)) /\ (c.id = t => HeldIn(r, t))
    BY <1>2, <2>1, <2>2, LogStateType, LogNotFoundHolds
  <2>4. HeldIn(r, t) => HeldIn(LogState, t)'
    BY <1>5, <2>2 DEF LogStateBecomes, HeldIn, LogState
  <2>. QED
    BY <1>5, <2>3, <2>4
<1>6. ASSUME runningQueue' = Append(runningQueue, c), UNCHANGED <<logQueue, live>>
      PROVE  Kept
  <2>1. Carries(runningQueue, t) \/ c.id = t => Carries(runningQueue', t)
    BY <1>2, <1>6, CarriesAppend, ChannelsTyped, LiveCopyIsTaskCopy
  <2>2. HeldIn(LogState, t) => HeldIn(LogState, t)'
    BY <1>6 DEF HeldIn, LogState
  <2>. QED
    BY <2>1, <2>2
<1>7. Kept
  <2>. HIDE DEF Kept
  <2>. QED
    BY <1>1, <1>4, <1>5, <1>6 DEF RunCheck
<1>. QED
  BY <1>1, <1>3, <1>7 DEF RunCheck, Held, InTransit, SubmitterCarries, Fetched, Carries, niqVars,
                          pendVars

\* The head of the log channel goes with its row; a promoted duplicate is fetched.
LEMMA LogCommitHolds ==
    ASSUME PipelineTypeOK, NEW t \in Tasks, Held(t), LogCommit, faults' = faults
    PROVE  Held(t)'
<1>1. PICK c : c = Head(logQueue)
  OBVIOUS
<1>2. PICK D \in {{}, logRead.dups} : live' = LiveAfterFinish(c.id, D)
  BY <1>1, FaultCounted DEF LogCommit, Finish, Abort
<1>3. live'[t] = live[t] \/ live'[t] = None \/ Fetchable(live'[t])
  BY <1>2 DEF LiveAfterFinish, PromotedRow, NewLiveRow, Fetchable
<1>4. c.id = t => live'[t] = None \/ Fetchable(live'[t])
  BY <1>2 DEF LiveAfterFinish, PromotedRow, NewLiveRow, Fetchable
<1>5. LogCarries(logQueue, t) => LogCarries(Tail(logQueue), t) \/ c.id = t
  BY <1>1, CarriesTail, ChannelsTyped DEF LogCommit
<1>6. HeldIn(LogState, t) => HeldIn(LogState, t)'
  BY <1>3, <1>4, <1>5 DEF HeldIn, LogState, LogCommit, LogCarries
<1>. QED
  BY <1>6 DEF LogCommit, Held, InTransit, SubmitterCarries, Fetched, Carries, niqVars, pendVars,
              runVars

LEMMA OtherHolds ==
    ASSUME NEW t \in Tasks, Held(t),
           UNCHANGED <<live, channelVars, niqBatch, pendVars, runBatch>>
    PROVE  Held(t)'
BY DEF Held, HeldIn, LogState, InTransit, SubmitterCarries, Fetched, Carries, LogCarries,
       channelVars, pendVars

LEMMA StepHolds ==
    ASSUME PipelineTypeOK, NEW t \in Tasks, Held(t), [PipelineNext]_pipelineVars,
           ~ NiqUpdate, ~ LogStatus, faults' = faults
    PROVE  Held(t)' \/ DropsStaleCopy(t)
<1>1. CASE NiqNext
  BY <1>1, NiqFetchHolds, NiqPushHolds DEF NiqNext
<1>2. CASE PendNext
  BY <1>2, PendFetchHolds, PendGiveUpHolds, PendSpawnHolds DEF PendNext
<1>3. CASE RunNext
  <2>1. CASE RunList
    BY <2>1, OtherHolds DEF RunList, dbVars, niqVars
  <2>. QED
    BY <1>3, <2>1, RunFetchHolds, RunCheckHolds DEF RunNext
<1>4. CASE LogNext
  <2>1. CASE LogPrepare
    BY <2>1, OtherHolds DEF LogPrepare, dbVars, niqVars, runVars
  <2>. QED
    BY <1>4, <2>1, LogCommitHolds DEF LogNext
<1>5. CASE DeleteNext
  BY <1>5, OtherHolds DEF DeleteNext, DeleteLocalTask, DeleteSandboxData, dbVars, niqVars, runVars
<1>6. CASE \E s \in 1 .. MaxSubmitters : SubmitNext(s)
  BY <1>6, SubmitAcceptedHolds, SubmitFailedHolds, SubmitLoggedHolds DEF SubmitNext
<1>7. CASE \E i \in 1 .. MaxSandboxTasks : SandboxNext(i)
  BY <1>7, OtherHolds DEF SandboxNext, SandboxSettles, dbVars, niqVars, runVars
<1>8. ~ \E rebooted \in BOOLEAN : Restart(rebooted)
  BY DEF Restart, PipelineTypeOK
<1>9. CASE UNCHANGED pipelineVars
  BY <1>9, OtherHolds DEF pipelineVars, dbVars, niqVars, runVars
<1>. QED
  BY <1>1, <1>2, <1>3, <1>4, <1>5, <1>6, <1>7, <1>8, <1>9 DEF PipelineNext

\* No step of a handler leaves a live row without a copy that stands for it and out of
\* reach of fetchNotInQueueTasks, for every capacity of the channels, but a late UPDATE,
\* the drop of a copy whose row such an UPDATE has overwritten, and a fault.
THEOREM NoHandlerStrands == PipelineSpec => OnlyLateWritesStrand
<1>1. PipelineInit => PipelineTypeOK
  BY InitType
<1>2. PipelineTypeOK /\ [PipelineNext]_pipelineVars => PipelineTypeOK'
  BY NextType
<1>3. PipelineTypeOK /\ [PipelineNext]_pipelineVars =>
        [\A t \in Tasks : ~Stranded(t) /\ Stranded(t)' =>
            NiqUpdate \/ LogStatus \/ DropsStaleCopy(t) \/ faults' # faults]_pipelineVars
  <2>. SUFFICES ASSUME PipelineTypeOK, [PipelineNext]_pipelineVars, NEW t \in Tasks,
                       ~ Stranded(t), Stranded(t)', ~ NiqUpdate, ~ LogStatus, faults' = faults
                PROVE  DropsStaleCopy(t)
    OBVIOUS
  <2>1. Held(t)
    BY HeldIs DEF Held
  <2>2. ~ Held(t)'
    BY DEF Stranded, NotInQueue, Carried, Held, HeldIn, Fetchable, LogCarries, LogState, InTransit,
           SubmitterCarries, Fetched
  <2>. QED
    BY <2>1, <2>2, StepHolds
<1>. QED
  BY <1>1, <1>2, <1>3, PTL DEF PipelineSpec, OnlyLateWritesStrand
=============================================================================
