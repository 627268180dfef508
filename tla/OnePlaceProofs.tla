--------------------------- MODULE OnePlaceProofs ---------------------------
(***************************************************************************)
(* A file is in exactly one of the live table, the duplicate table and the *)
(* settled files, for every size of the system.  OnePlace is not inductive *)
(* by itself: a log entry moves whatever id it carries, so no copy may     *)
(* carry the id of a duplicate, and the duplicates LogQueueHandler has     *)
(* read must still be duplicates when its transaction runs.                *)
(*                                                                         *)
(* On that invariant rest three more: the duplicates of a digest are       *)
(* served, samples are kept, and admission to the sandbox is bounded.      *)
(*                                                                         *)
(* The second half is about what carries a task.  Each live task has one   *)
(* claim on it, in one place, as long as the system is Undisturbed.  From  *)
(* it follow that a task is worked on, sent, finished and answered once,   *)
(* and that the pipeline implements TaskLifecycle.                         *)
(***************************************************************************)
EXTENDS TaskPipelineProofs, TaskPipelineRefinement, WellFoundedInduction

KnownCopy == [id : KnownIds, row : RowOver(TaskStatuses)]

CopiesKnown ==
    /\ pendingQueue \in Seq(KnownCopy) /\ runningQueue \in Seq(KnownCopy)
    /\ logQueue \in Seq(KnownCopy)
    /\ niqBatch \subseteq KnownCopy
    /\ pendBatch \in Seq(KnownCopy) /\ runBatch \in Seq(KnownCopy)
    /\ \A s \in 1 .. MaxSubmitters :
        submitters[s] # None => submitters[s].copy \in KnownCopy
    /\ logRead # None => logRead.dups \subseteq dup

OnePlaceInv == PipelineTypeOK /\ OnePlace /\ CopiesKnown

\* Which ids have a live row.
SameRows(table) == \A t \in Tasks : table[t] = None <=> live[t] = None

-----------------------------------------------------------------------------
(* Steps that move no row between the tables.                              *)

LEMMA OnePlaceStable ==
    ASSUME OnePlace, UNCHANGED <<fod, dup, finished>>, SameRows(live')
    PROVE  OnePlace' /\ KnownIds' = KnownIds /\ KnownCopy' = KnownCopy
BY DEF OnePlace, Settled, SameRows, KnownIds, KnownCopy

LEMMA SameRowsUnchanged == live' = live => SameRows(live')
BY DEF SameRows

\* An UPDATE neither inserts nor deletes.
LEMMA WriteRowSameRows ==
    ASSUME PipelineTypeOK, NEW table \in LiveTable, SameRows(table), NEW t \in Tasks,
           NEW row \in RowOver(LiveStatuses)
    PROVE  SameRows(WriteRow(table, t, row))
<1>1. CASE table[t] = None
  BY <1>1 DEF WriteRow
<1>2. CASE table[t] # None
  <2>1. [row EXCEPT !.hash = table[t].hash] \in RowOver(LiveStatuses)
    BY <1>2 DEF LiveTable, RowOver
  <2>2. [row EXCEPT !.hash = table[t].hash] # None
    BY <2>1, DbAssumption
  <2>. QED
    BY <1>2, <2>2 DEF WriteRow, SameRows, LiveTable
<1>. QED
  BY <1>1, <1>2

LEMMA AppliedWriteSameRows ==
    ASSUME PipelineTypeOK, niqWrite # None
    PROVE  SameRows(AppliedWrite(live, niqWrite))
<1>. DEFINE t == niqWrite.id
<1>1. t \in Tasks /\ niqWrite.status \in LiveStatuses \cup {None}
  BY DEF PipelineTypeOK
<1>2. CASE live[t] = None
  BY <1>2 DEF AppliedWrite, SetStatus, ClearLogQueueFailed, SameRows
<1>3. CASE live[t] # None
  <2>1. live[t] \in RowOver(LiveStatuses)
    BY <1>1, <1>3 DEF PipelineTypeOK, DbTypeOK
  <2>2. [live[t] EXCEPT !.logQueueFailed = FALSE] \in RowOver(LiveStatuses)
    BY <2>1 DEF RowOver
  <2>3. niqWrite.status # None =>
          [live[t] EXCEPT !.status = niqWrite.status] \in RowOver(LiveStatuses)
    BY <1>1, <2>1 DEF RowOver
  <2>4. [live[t] EXCEPT !.logQueueFailed = FALSE] # None
    BY <2>2, DbAssumption
  <2>5. niqWrite.status # None => [live[t] EXCEPT !.status = niqWrite.status] # None
    BY <2>3, DbAssumption
  <2>. QED
    BY <1>1, <1>3, <2>4, <2>5 DEF AppliedWrite, SetStatus, ClearLogQueueFailed, SameRows,
                                   PipelineTypeOK, DbTypeOK
<1>. QED
  BY <1>2, <1>3

\* What a push to the log channel may do: the channel gains a known copy or the
\* row is updated.
KnownLog(st) ==
    st \in LogStates /\ st.queue \in Seq(KnownCopy) /\ SameRows(st.table)

LEMMA LogChangeKnown ==
    ASSUME PipelineTypeOK, NEW st, KnownLog(st), NEW c \in LiveCopy, c.id \in KnownIds,
           NEW s \in TaskStatuses, NEW ok \in BOOLEAN
    PROVE  KnownLog(LogChange(st, c, s, ok))
<1>1. LogChange(st, c, s, ok) \in LogStates
  BY LogChangeType DEF KnownLog
<1>2. CASE HasRoom(st.queue, LogCapacity)
  <2>1. WithStatus(c, s) \in KnownCopy
    BY DEF WithStatus, LiveCopy, KnownCopy, RowOver, TaskStatuses
  <2>2. Append(st.queue, WithStatus(c, s)) \in Seq(KnownCopy)
    BY <2>1, AppendProperties DEF KnownLog
  <2>. QED
    BY <1>1, <1>2, <2>2 DEF LogChange, Push, KnownLog, LogStates
<1>3. CASE ~HasRoom(st.queue, LogCapacity) /\ ok
  <2>1. c.id \in Tasks /\ [c.row EXCEPT !.logQueueFailed = TRUE] \in RowOver(LiveStatuses)
    BY DEF LiveCopy, RowOver
  <2>2. SameRows(WriteRow(st.table, c.id, [c.row EXCEPT !.logQueueFailed = TRUE]))
    BY <2>1, WriteRowSameRows DEF KnownLog, LogStates
  <2>. QED
    BY <1>1, <1>3, <2>2 DEF LogChange, KnownLog, LogStates
<1>4. CASE ~HasRoom(st.queue, LogCapacity) /\ ~ok
  BY <1>4 DEF LogChange
<1>. QED
  BY <1>2, <1>3, <1>4

LEMMA LogStateKnown == OnePlaceInv => KnownLog(LogState)
BY LogStateType DEF OnePlaceInv, CopiesKnown, KnownLog, LogState, SameRows

LEMMA ChangeStatusKnown ==
    ASSUME OnePlaceInv, NEW c \in LiveCopy, c.id \in KnownIds, NEW s \in TaskStatuses,
           ChangeStatusAndPushToLogQueue(c, s)
    PROVE  logQueue' \in Seq(KnownCopy) /\ SameRows(live')
<1>1. PICK ok \in BOOLEAN : LogStateBecomes(LogChange(LogState, c, s, ok))
  BY DEF ChangeStatusAndPushToLogQueue
<1>2. KnownLog(LogChange(LogState, c, s, ok))
  BY LogStateKnown, LogChangeKnown DEF OnePlaceInv
<1>. QED
  BY <1>1, <1>2 DEF LogStateBecomes, KnownLog

\* A step that moves no row keeps the invariant if its copies stay known ones.
LEMMA StableStep ==
    ASSUME OnePlaceInv, PipelineTypeOK', UNCHANGED <<fod, dup, finished>>,
           SameRows(live'),
           pendingQueue' \in Seq(KnownCopy), runningQueue' \in Seq(KnownCopy),
           logQueue' \in Seq(KnownCopy), niqBatch' \subseteq KnownCopy,
           pendBatch' \in Seq(KnownCopy), runBatch' \in Seq(KnownCopy),
           \A s \in 1 .. MaxSubmitters :
               submitters'[s] # None => submitters'[s].copy \in KnownCopy,
           logRead' # None => logRead'.dups \subseteq dup
    PROVE  OnePlaceInv'
<1>1. OnePlace' /\ KnownCopy' = KnownCopy
  BY OnePlaceStable DEF OnePlaceInv
<1>2. CopiesKnown'
  BY <1>1 DEF CopiesKnown
<1>. QED
  BY <1>1, <1>2 DEF OnePlaceInv

LEMMA KnownCopyOfLive ==
    ASSUME NEW c \in LiveCopy
    PROVE  c.id \in KnownIds <=> c \in KnownCopy
BY DEF LiveCopy, KnownCopy, RowOver, TaskStatuses

LEMMA InitOnePlace == PipelineInit => OnePlaceInv
<1>. SUFFICES ASSUME PipelineInit PROVE OnePlaceInv
  OBVIOUS
<1>1. PipelineTypeOK
  BY InitType
<1>2. PICK h \in [Tasks -> Hashes] :
        /\ fod = [t \in Tasks |-> [hash |-> h[t], rating |-> "none", verdict |-> "none"]]
        /\ live = [t \in Tasks |-> IF FirstOf(h, t) THEN NewLiveRow(h[t]) ELSE None]
        /\ dup = {t \in Tasks : ~FirstOf(h, t)}
        /\ finished = [t \in Tasks |-> 0]
        /\ EmptyMemory
  BY DEF PipelineInit
<1>3. \A t \in Tasks : fod[t] # None /\ ~Settled(t)
  <2>1. \A t \in Tasks : fod[t] \in FodRow /\ fod[t].rating = "none"
    BY <1>2 DEF FodRow, Ratings, Verdicts
  <2>. QED
    BY <2>1, DbAssumption DEF Settled
<1>4. \A t \in Tasks : live[t] # None <=> t \notin dup
  <2>1. \A t \in Tasks : NewLiveRow(h[t]) \in RowOver(LiveStatuses)
    BY <1>2 DEF NewLiveRow, RowOver, LiveStatuses, PendingNotInQueue
  <2>. QED
    BY <1>2, <2>1, DbAssumption
<1>5. OnePlace
  BY <1>2, <1>3, <1>4 DEF OnePlace
<1>6. CopiesKnown
  BY <1>2 DEF EmptyMemory, CopiesKnown
<1>. QED
  BY <1>1, <1>5, <1>6 DEF OnePlaceInv

-----------------------------------------------------------------------------
(* NotInQueueHandler.                                                      *)

LEMMA NiqFetchKnown == OnePlaceInv /\ NiqFetch => OnePlaceInv'
<1>. SUFFICES ASSUME OnePlaceInv, NiqFetch PROVE OnePlaceInv'
  OBVIOUS
<1>1. PipelineTypeOK'
  BY NiqFetchType DEF OnePlaceInv
<1>2. \A t \in Tasks : NotInQueue(t) => CopyOf(t) \in KnownCopy
  <2>1. ASSUME NEW t \in Tasks, NotInQueue(t) PROVE CopyOf(t) \in LiveCopy /\ t \in KnownIds
    BY <2>1 DEF OnePlaceInv, OnePlace, PipelineTypeOK, DbTypeOK, NotInQueue, CopyOf, LiveCopy,
                KnownIds
  <2>. QED
    BY <2>1, KnownCopyOfLive DEF CopyOf
<1>3. niqBatch' \subseteq KnownCopy
  BY <1>2 DEF NiqFetch
<1>. QED
  BY <1>1, <1>3, StableStep, SameRowsUnchanged
  DEF NiqFetch, OnePlaceInv, CopiesKnown, dbVars, channelVars, pendVars, runVars

LEMMA PushedKnown ==
    ASSUME NEW q \in Seq(KnownCopy), NEW capacity, NEW c \in LiveCopy, c.id \in KnownIds,
           NEW s \in TaskStatuses
    PROVE  Pushed(q, capacity, c, s) \in Seq(KnownCopy)
<1>1. WithStatus(c, s) \in KnownCopy
  BY DEF WithStatus, LiveCopy, KnownCopy, RowOver, TaskStatuses
<1>. QED
  BY <1>1, AppendProperties DEF Pushed, Push

LEMMA NiqPushKnown ==
    ASSUME OnePlaceInv, NEW c \in niqBatch, NiqPush(c)
    PROVE  OnePlaceInv'
<1>1. PipelineTypeOK'
  BY NiqPushType DEF OnePlaceInv
<1>2. c \in LiveCopy /\ c.id \in KnownIds
  BY DEF OnePlaceInv, PipelineTypeOK, CopiesKnown, KnownCopy
<1>3. {Scanned, Aborted, PendingInQueue, RunningInQueue, RequeueStatus(c.row.status)}
        \subseteq TaskStatuses
  BY <1>2 DEF RequeueStatus, LiveCopy, RowOver, TaskStatuses, LiveStatuses, FinalStatuses
<1>4. /\ pendingQueue' \in Seq(KnownCopy) /\ runningQueue' \in Seq(KnownCopy)
      /\ logQueue' \in Seq(KnownCopy)
  <2>1. ASSUME NEW s \in TaskStatuses, NiqToLog(c, s)
        PROVE  /\ pendingQueue' \in Seq(KnownCopy) /\ runningQueue' \in Seq(KnownCopy)
               /\ logQueue' \in Seq(KnownCopy)
    BY <1>2, <2>1, PushedKnown DEF NiqToLog, OnePlaceInv, CopiesKnown
  <2>2. ASSUME NiqToPending(c)
        PROVE  /\ pendingQueue' \in Seq(KnownCopy) /\ runningQueue' \in Seq(KnownCopy)
               /\ logQueue' \in Seq(KnownCopy)
    BY <1>2, <1>3, <2>2, PushedKnown DEF NiqToPending, OnePlaceInv, CopiesKnown
  <2>3. ASSUME NiqToRunning(c)
        PROVE  /\ pendingQueue' \in Seq(KnownCopy) /\ runningQueue' \in Seq(KnownCopy)
               /\ logQueue' \in Seq(KnownCopy)
    BY <1>2, <1>3, <2>3, PushedKnown DEF NiqToRunning, OnePlaceInv, CopiesKnown
  <2>. QED
    BY <1>3, <2>1, <2>2, <2>3 DEF NiqPush, NiqRelog, NiqScanFound, NiqAdmit, NiqResume
<1>5. niqBatch' \subseteq KnownCopy
  BY DEF NiqPush, OnePlaceInv, CopiesKnown
<1>. QED
  BY <1>1, <1>4, <1>5, StableStep, SameRowsUnchanged
  DEF NiqPush, OnePlaceInv, CopiesKnown, dbVars, pendVars, runVars

LEMMA NiqUpdateKnown == OnePlaceInv /\ NiqUpdate => OnePlaceInv'
<1>. SUFFICES ASSUME OnePlaceInv, NiqUpdate PROVE OnePlaceInv'
  OBVIOUS
<1>1. PipelineTypeOK'
  BY NiqUpdateType DEF OnePlaceInv
<1>2. SameRows(live')
  <2>1. live' = AppliedWrite(live, niqWrite) \/ live' = live
    BY DEF NiqUpdate
  <2>2. SameRows(AppliedWrite(live, niqWrite))
    BY AppliedWriteSameRows DEF OnePlaceInv, NiqUpdate
  <2>. QED
    BY <2>1, <2>2, SameRowsUnchanged
<1>. QED
  BY <1>1, <1>2, StableStep
  DEF NiqUpdate, OnePlaceInv, CopiesKnown, channelVars, pendVars, runVars

-----------------------------------------------------------------------------
(* PendingQueueHandler and its goroutines.                                 *)

LEMMA PendFetchKnown == OnePlaceInv /\ PendFetch => OnePlaceInv'
<1>. SUFFICES ASSUME OnePlaceInv, PendFetch PROVE OnePlaceInv'
  OBVIOUS
<1>1. PipelineTypeOK /\ PipelineTypeOK'
  BY PendFetchType DEF OnePlaceInv
<1>2. PICK ok \in ListOutcomes :
        /\ NotReported(ok) < MaxFreeVms
        /\ pendBatch' = Taken(pendingQueue, MaxFreeVms - NotReported(ok))
        /\ pendingQueue' = Left(pendingQueue, MaxFreeVms - NotReported(ok))
  BY DEF PendFetch
<1>3. pendingQueue \in Seq(KnownCopy) /\ MaxFreeVms - NotReported(ok) \in Nat
  BY <1>1, <1>2, FreeVmsType DEF OnePlaceInv, CopiesKnown
<1>4. pendBatch' \in Seq(KnownCopy) /\ pendingQueue' \in Seq(KnownCopy)
  BY <1>2, <1>3, TakenLeftType
<1>. QED
  BY <1>1, <1>4, StableStep, SameRowsUnchanged
  DEF PendFetch, OnePlaceInv, CopiesKnown, dbVars, niqVars, runVars

\* The task at the head of a batch may be worked on.
LEMMA HeadKnown ==
    ASSUME NEW q \in Seq(LiveCopy), q \in Seq(KnownCopy), q # <<>>
    PROVE  /\ Head(q) \in LiveCopy /\ Head(q).id \in KnownIds
           /\ Tail(q) \in Seq(KnownCopy)
<1>1. Head(q) \in LiveCopy /\ Head(q) \in KnownCopy /\ Tail(q) \in Seq(KnownCopy)
  BY HeadTailProperties
<1>. QED
  BY <1>1 DEF KnownCopy

LEMMA PendGiveUpKnown == OnePlaceInv /\ PendGiveUp => OnePlaceInv'
<1>. SUFFICES ASSUME OnePlaceInv, PendGiveUp PROVE OnePlaceInv'
  OBVIOUS
<1>1. PipelineTypeOK'
  BY PendGiveUpType DEF OnePlaceInv
<1>2. /\ Head(pendBatch) \in LiveCopy /\ Head(pendBatch).id \in KnownIds
      /\ Tail(pendBatch) \in Seq(KnownCopy)
  BY HeadKnown DEF OnePlaceInv, PipelineTypeOK, CopiesKnown, PendGiveUp
<1>3. logQueue' \in Seq(KnownCopy) /\ SameRows(live')
  BY <1>2, ChangeStatusKnown DEF PendGiveUp, TaskStatuses, FinalStatuses
<1>. QED
  BY <1>1, <1>2, <1>3, StableStep DEF PendGiveUp, OnePlaceInv, CopiesKnown, niqVars, runVars

LEMMA PendSpawnKnown ==
    ASSUME OnePlaceInv, NEW s \in 1 .. MaxSubmitters, PendSpawn(s)
    PROVE  OnePlaceInv'
<1>1. PipelineTypeOK'
  BY PendSpawnType DEF OnePlaceInv
<1>2. Head(pendBatch) \in KnownCopy /\ Tail(pendBatch) \in Seq(KnownCopy)
  BY HeadTailProperties DEF OnePlaceInv, CopiesKnown, PendSpawn
<1>3. \A r \in 1 .. MaxSubmitters :
        submitters'[r] # None => submitters'[r].copy \in KnownCopy
  BY <1>2 DEF PendSpawn, OnePlaceInv, CopiesKnown, PipelineTypeOK
<1>. QED
  BY <1>1, <1>2, <1>3, StableStep, SameRowsUnchanged
  DEF PendSpawn, OnePlaceInv, CopiesKnown, dbVars, channelVars, niqVars, runVars

\* A goroutine that ends leaves the others alone.
LEMMA SubmitterDone ==
    ASSUME OnePlaceInv, NEW s \in 1 .. MaxSubmitters,
           submitters' = [submitters EXCEPT ![s] = None]
    PROVE  \A r \in 1 .. MaxSubmitters :
               submitters'[r] # None => submitters'[r].copy \in KnownCopy
BY DEF OnePlaceInv, CopiesKnown, PipelineTypeOK

LEMMA SubmitAcceptedKnown ==
    ASSUME OnePlaceInv, NEW s \in 1 .. MaxSubmitters, SubmitAccepted(s)
    PROVE  OnePlaceInv'
<1>. DEFINE c  == submitters[s].copy
            c2 == [c EXCEPT !.row.sandboxId = NextSandboxId]
            st == IF HasRoom(runningQueue, RunningCapacity)
                  THEN RunningInQueue ELSE RunningNotInQueue
<1>1. PipelineTypeOK'
  BY SubmitAcceptedType DEF OnePlaceInv
<1>2. c2 \in KnownCopy
  <2>1. c \in KnownCopy
    BY DEF SubmitAccepted, Sending, OnePlaceInv, CopiesKnown
  <2>2. NextSandboxId \in Nat
    BY DEF NextSandboxId, OnePlaceInv, PipelineTypeOK
  <2>. QED
    BY <2>1, <2>2 DEF KnownCopy, RowOver
<1>3. /\ runningQueue' = Append(runningQueue, c2) \/ runningQueue' = runningQueue
      /\ submitters' = [submitters EXCEPT ![s] =
                          [stage |-> "logging", copy |-> c2, status |-> st]]
  BY DEF SubmitAccepted
<1>. HIDE DEF c2, st
<1>4. runningQueue' \in Seq(KnownCopy)
  <2>1. Append(runningQueue, c2) \in Seq(KnownCopy)
    BY <1>2, AppendProperties DEF OnePlaceInv, CopiesKnown
  <2>. QED
    BY <1>3, <2>1 DEF OnePlaceInv, CopiesKnown
<1>5. \A r \in 1 .. MaxSubmitters :
        submitters'[r] # None => submitters'[r].copy \in KnownCopy
  BY <1>2, <1>3 DEF OnePlaceInv, CopiesKnown, PipelineTypeOK
<1>. QED
  BY <1>1, <1>4, <1>5, StableStep, SameRowsUnchanged
  DEF SubmitAccepted, OnePlaceInv, CopiesKnown, dbVars, niqVars, runVars

LEMMA SubmitLoggedKnown ==
    ASSUME OnePlaceInv, NEW s \in 1 .. MaxSubmitters, SubmitLogged(s)
    PROVE  OnePlaceInv'
<1>1. PipelineTypeOK'
  BY SubmitLoggedType DEF OnePlaceInv
<1>2. /\ submitters[s].copy \in LiveCopy /\ submitters[s].copy.id \in KnownIds
      /\ submitters[s].status \in TaskStatuses
  BY SubmitterType
  DEF SubmitLogged, OnePlaceInv, CopiesKnown, KnownCopy, TaskStatuses
<1>3. logQueue' \in Seq(KnownCopy) /\ SameRows(live')
  BY <1>2, ChangeStatusKnown DEF SubmitLogged
<1>4. \A r \in 1 .. MaxSubmitters :
        submitters'[r] # None => submitters'[r].copy \in KnownCopy
  BY SubmitterDone DEF SubmitLogged
<1>. QED
  BY <1>1, <1>3, <1>4, StableStep DEF SubmitLogged, OnePlaceInv, CopiesKnown, niqVars, runVars

LEMMA SubmitRetryKnown ==
    ASSUME OnePlaceInv, NEW c \in LiveCopy, c.id \in KnownIds, SubmitRetryThroughLog(c)
    PROVE  logQueue' \in Seq(KnownCopy) /\ SameRows(live')
<1>1. PendingNotInQueue \in LiveStatuses /\ PendingNotInQueue \in TaskStatuses
      /\ Aborted \in TaskStatuses
  BY DEF LiveStatuses, TaskStatuses, FinalStatuses
<1>2. WithStatus(c, PendingNotInQueue) \in LiveCopy
  BY <1>1, WithStatusType DEF LiveCopy
<1>3. WithStatus(c, PendingNotInQueue).id = c.id
  BY DEF WithStatus, LiveCopy
<1>. QED
  BY <1>1, <1>2, <1>3, ChangeStatusKnown DEF SubmitRetryThroughLog

LEMMA SubmitFailedKnown ==
    ASSUME OnePlaceInv, NEW s \in 1 .. MaxSubmitters, SubmitFailed(s)
    PROVE  OnePlaceInv'
<1>. DEFINE c == Retried(submitters[s].copy)
            Known == /\ pendingQueue' \in Seq(KnownCopy) /\ logQueue' \in Seq(KnownCopy)
                     /\ SameRows(live')
<1>1. PipelineTypeOK'
  BY SubmitFailedType DEF OnePlaceInv
<1>2. submitters[s].copy \in LiveCopy /\ submitters[s].copy.id \in KnownIds
  BY SubmitterType DEF SubmitFailed, Sending, OnePlaceInv, CopiesKnown, KnownCopy
<1>3. c \in LiveCopy /\ [c EXCEPT !.row.queueRetryCount = @ + 1] \in LiveCopy
  BY <1>2, CountedType DEF Retried
<1>4. c.id \in KnownIds /\ [c EXCEPT !.row.queueRetryCount = @ + 1].id \in KnownIds
  BY <1>2 DEF Retried, LiveCopy
<1>. HIDE DEF c
<1>5. Known
  <2>1. CASE ChangeStatusAndPushToLogQueue(c, Aborted) /\ UNCHANGED pendingQueue
    BY <1>3, <1>4, <2>1, ChangeStatusKnown
    DEF OnePlaceInv, CopiesKnown, TaskStatuses, FinalStatuses
  <2>2. CASE /\ pendingQueue' = Append(pendingQueue, c)
             /\ UNCHANGED <<logQueue, live, faults>>
    BY <1>3, <1>4, <2>2, KnownCopyOfLive, AppendProperties, SameRowsUnchanged
    DEF OnePlaceInv, CopiesKnown
  <2>3. CASE /\ SubmitRetryThroughLog([c EXCEPT !.row.queueRetryCount = @ + 1])
             /\ UNCHANGED pendingQueue
    BY <1>3, <1>4, <2>3, SubmitRetryKnown DEF OnePlaceInv, CopiesKnown
  <2>. USE DEF c
  <2>. QED
    BY <2>1, <2>2, <2>3 DEF SubmitFailed
<1>6. \A r \in 1 .. MaxSubmitters :
        submitters'[r] # None => submitters'[r].copy \in KnownCopy
  BY SubmitterDone DEF SubmitFailed
<1>. QED
  BY <1>1, <1>5, <1>6, StableStep DEF SubmitFailed, OnePlaceInv, CopiesKnown, niqVars, runVars

-----------------------------------------------------------------------------
(* RunningQueueHandler.                                                    *)

LEMMA RunListKnown == OnePlaceInv /\ RunList => OnePlaceInv'
BY RunListType, StableStep, SameRowsUnchanged
DEF RunList, OnePlaceInv, CopiesKnown, dbVars, channelVars, niqVars, pendVars

LEMMA RunFetchKnown == OnePlaceInv /\ RunFetch => OnePlaceInv'
<1>. SUFFICES ASSUME OnePlaceInv, RunFetch PROVE OnePlaceInv'
  OBVIOUS
<1>1. PipelineTypeOK'
  BY RunFetchType DEF OnePlaceInv
<1>2. runBatch' \in Seq(KnownCopy) /\ runningQueue' \in Seq(KnownCopy)
  BY DEF RunFetch, OnePlaceInv, CopiesKnown
<1>. QED
  BY <1>1, <1>2, StableStep, SameRowsUnchanged
  DEF RunFetch, OnePlaceInv, CopiesKnown, dbVars, niqVars, pendVars

LEMMA LogNotFoundKnown ==
    ASSUME OnePlaceInv, NEW c \in LiveCopy, c.id \in KnownIds, NEW ok \in BOOLEAN
    PROVE  KnownLog(LogNotFound(LogState, c, ok))
<1>. DEFINE c2  == [c EXCEPT !.row.runningRetryCount = @ + 1]
            st2 == IF c2.row.runningRetryCount >= RunningMaxRetries
                   THEN LogChange(LogState, c2, Aborted, ok) ELSE LogState
<1>1. c2 \in LiveCopy
  BY CountedType
<1>2. c2.id \in KnownIds
  BY DEF LiveCopy
<1>3. Aborted \in TaskStatuses /\ RunningNotInQueue \in TaskStatuses
  BY DEF TaskStatuses, FinalStatuses, LiveStatuses
<1>4. LogNotFound(LogState, c, ok) = LogChange(st2, c2, RunningNotInQueue, ok)
  BY DEF LogNotFound
<1>. HIDE DEF c2
<1>5. KnownLog(st2)
  BY <1>1, <1>2, <1>3, LogStateKnown, LogChangeKnown DEF OnePlaceInv
<1>. HIDE DEF st2
<1>. QED
  BY <1>1, <1>2, <1>3, <1>4, <1>5, LogChangeKnown DEF OnePlaceInv

LEMMA RunCheckKnown == OnePlaceInv /\ RunCheck => OnePlaceInv'
<1>. SUFFICES ASSUME OnePlaceInv, RunCheck PROVE OnePlaceInv'
  OBVIOUS
<1>. DEFINE c == Head(runBatch)
            Known == /\ runningQueue' \in Seq(KnownCopy) /\ logQueue' \in Seq(KnownCopy)
                     /\ SameRows(live')
<1>1. PipelineTypeOK'
  BY RunCheckType DEF OnePlaceInv
<1>2. c \in LiveCopy /\ c.id \in KnownIds /\ Tail(runBatch) \in Seq(KnownCopy)
  BY HeadKnown DEF RunCheck, OnePlaceInv, CopiesKnown, PipelineTypeOK
<1>3. Append(runningQueue, c) \in Seq(KnownCopy)
  BY <1>2, KnownCopyOfLive, AppendProperties DEF OnePlaceInv, CopiesKnown
<1>4. {Reported, Aborted, RunningNotInQueue} \subseteq TaskStatuses
  BY DEF TaskStatuses, FinalStatuses, LiveStatuses
<1>5. Known
  <2>1. ASSUME NEW s \in {Reported, Aborted, RunningNotInQueue},
               ChangeStatusAndPushToLogQueue(c, s), UNCHANGED runningQueue
        PROVE  Known
    BY <1>2, <1>4, <2>1, ChangeStatusKnown DEF OnePlaceInv, CopiesKnown
  <2>2. ASSUME NEW ok \in BOOLEAN, LogStateBecomes(LogNotFound(LogState, c, ok)),
               UNCHANGED runningQueue
        PROVE  Known
    BY <1>2, <2>2, LogNotFoundKnown DEF LogStateBecomes, KnownLog, OnePlaceInv, CopiesKnown
  <2>3. ASSUME runningQueue' = Append(runningQueue, c), UNCHANGED <<logQueue, live, faults>>
        PROVE  Known
    BY <1>3, <2>3, SameRowsUnchanged DEF OnePlaceInv, CopiesKnown
  <2>. QED
    BY <2>1, <2>2, <2>3 DEF RunCheck
<1>. QED
  BY <1>1, <1>2, <1>5, StableStep DEF RunCheck, OnePlaceInv, CopiesKnown, niqVars, pendVars

-----------------------------------------------------------------------------
(* LogQueueHandler.                                                        *)

LEMMA LogPrepareKnown == OnePlaceInv /\ LogPrepare => OnePlaceInv'
<1>. SUFFICES ASSUME OnePlaceInv, LogPrepare PROVE OnePlaceInv'
  OBVIOUS
<1>1. PipelineTypeOK'
  BY LogPrepareType DEF OnePlaceInv
<1>2. logRead' # None => logRead'.dups \subseteq dup
  <2>1. PICK ok, score :
          logRead' = [score |-> score, dups |-> DuplicatesRead(Head(logQueue), ok)]
    BY DEF LogPrepare
  <2>. QED
    BY <2>1, DuplicatesReadType DEF OnePlaceInv
<1>. QED
  BY <1>1, <1>2, StableStep, SameRowsUnchanged
  DEF LogPrepare, OnePlaceInv, CopiesKnown, dbVars, channelVars, niqVars, pendVars, runVars

LEMMA LogStatusKnown == OnePlaceInv /\ LogStatus => OnePlaceInv'
<1>. SUFFICES ASSUME OnePlaceInv, LogStatus PROVE OnePlaceInv'
  OBVIOUS
<1>. DEFINE c == Head(logQueue)
<1>1. PipelineTypeOK'
  BY LogStatusType DEF OnePlaceInv
<1>2. c \in TaskCopy /\ Tail(logQueue) \in Seq(KnownCopy)
  BY HeadOfLog, HeadTailProperties DEF LogStatus, OnePlaceInv, CopiesKnown
<1>3. c.id \in Tasks /\ c.row \in RowOver(LiveStatuses)
  BY <1>2 DEF LogStatus, TaskCopy, RowOver, TaskStatuses
<1>4. SameRows(live')
  <2>1. SameRows(WriteRow(live, c.id, c.row))
    BY <1>3, WriteRowSameRows DEF SameRows, LiveTable, OnePlaceInv, PipelineTypeOK, DbTypeOK
  <2>. QED
    BY <2>1, SameRowsUnchanged DEF LogStatus
<1>. QED
  BY <1>1, <1>2, <1>4, StableStep
  DEF LogStatus, OnePlaceInv, CopiesKnown, niqVars, pendVars, runVars

-----------------------------------------------------------------------------
(* Deletions, the sandbox and the restart.                                 *)

LEMMA DeleteLocalTaskKnown ==
    ASSUME OnePlaceInv, NEW t \in Tasks, DeleteLocalTask(t)
    PROVE  OnePlaceInv'
BY DeleteLocalTaskType, StableStep, SameRowsUnchanged
DEF DeleteLocalTask, OnePlaceInv, CopiesKnown, channelVars, niqVars, pendVars, runVars

LEMMA DeleteSandboxDataKnown ==
    ASSUME OnePlaceInv, NEW i \in 1 .. MaxSandboxTasks, DeleteSandboxData(i)
    PROVE  OnePlaceInv'
BY DeleteSandboxDataType, StableStep, SameRowsUnchanged
DEF DeleteSandboxData, OnePlaceInv, CopiesKnown, dbVars, channelVars, niqVars, pendVars,
    runVars

LEMMA SandboxSettlesKnown ==
    ASSUME OnePlaceInv, NEW i \in 1 .. MaxSandboxTasks, SandboxSettles(i)
    PROVE  OnePlaceInv'
BY SandboxSettlesType, StableStep, SameRowsUnchanged
DEF SandboxSettles, OnePlaceInv, CopiesKnown, dbVars, channelVars, niqVars, pendVars,
    runVars

LEMMA RestartKnown ==
    ASSUME OnePlaceInv, NEW rebooted \in BOOLEAN, Restart(rebooted)
    PROVE  OnePlaceInv'
<1>1. PipelineTypeOK'
  BY RestartType DEF OnePlaceInv
<1>2. SameRows(live')
  <2>1. ASSUME NEW t \in Tasks, live[t] # None PROVE live'[t] # None
    <3>1. Recovered(live[t].status, rebooted) \in LiveStatuses
      BY <2>1 DEF Recovered, LiveStatuses, OnePlaceInv, PipelineTypeOK, DbTypeOK, RowOver
    <3>2. live'[t] = [live[t] EXCEPT !.status = Recovered(@, rebooted)]
      BY <2>1 DEF Restart, ResetQueueDb
    <3>3. live[t] \in RowOver(LiveStatuses)
      BY <2>1 DEF OnePlaceInv, PipelineTypeOK, DbTypeOK
    <3>4. live'[t] \in RowOver(LiveStatuses)
      BY <3>1, <3>2, <3>3 DEF RowOver
    <3>. QED
      BY <3>4, DbAssumption
  <2>. QED
    BY <2>1 DEF SameRows, Restart, ResetQueueDb
<1>3. \A s \in 1 .. MaxSubmitters :
        submitters'[s] # None => submitters'[s].copy \in KnownCopy
  BY DEF Restart
<1>4. /\ pendingQueue' \in Seq(KnownCopy) /\ runningQueue' \in Seq(KnownCopy)
      /\ logQueue' \in Seq(KnownCopy) /\ niqBatch' \subseteq KnownCopy
      /\ pendBatch' \in Seq(KnownCopy) /\ runBatch' \in Seq(KnownCopy)
  BY DEF Restart
<1>. QED
  BY <1>1, <1>2, <1>3, <1>4, StableStep DEF Restart

-----------------------------------------------------------------------------
(* The transactions of LogQueueHandler: the only steps that move rows.      *)

LEMMA LogCommitKnown == OnePlaceInv /\ LogCommit => OnePlaceInv'
<1>. SUFFICES ASSUME OnePlaceInv, LogCommit PROVE OnePlaceInv'
  OBVIOUS
<1>. DEFINE c == Head(logQueue)
<1>1. PipelineTypeOK'
  BY LogCommitType DEF OnePlaceInv
<1>2. c \in KnownCopy /\ Tail(logQueue) \in Seq(KnownCopy)
  BY HeadTailProperties DEF LogCommit, OnePlaceInv, CopiesKnown
<1>3. c.id \in KnownIds /\ logRead.dups \subseteq dup /\ logRead.score \in Scores
  BY <1>2 DEF LogCommit, OnePlaceInv, CopiesKnown, PipelineTypeOK, LogRead, KnownCopy
<1>4. OnePlace' /\ KnownIds \subseteq KnownIds'
  <2>1. CASE Finish(c.id, logRead.dups, logRead.score)
    BY <1>3, <2>1, FinishOnePlace DEF OnePlaceInv, PipelineTypeOK
  <2>2. CASE Abort(c.id, logRead.dups)
    BY <1>3, <2>2, AbortOnePlace DEF OnePlaceInv, PipelineTypeOK
  <2>3. CASE UNCHANGED <<fod, live, dup, finished>>
    BY <2>3, OnePlaceStable, SameRowsUnchanged DEF OnePlaceInv
  <2>. QED
    BY <2>1, <2>2, <2>3 DEF LogCommit
<1>5. KnownCopy \subseteq KnownCopy'
  BY <1>4 DEF KnownCopy
<1>6. Seq(KnownCopy) \subseteq Seq(KnownCopy')
  BY <1>5
<1>7. CopiesKnown'
  <2>1. /\ pendingQueue' \in Seq(KnownCopy) /\ runningQueue' \in Seq(KnownCopy)
        /\ logQueue' \in Seq(KnownCopy) /\ niqBatch' \subseteq KnownCopy
        /\ pendBatch' \in Seq(KnownCopy) /\ runBatch' \in Seq(KnownCopy)
        /\ \A s \in 1 .. MaxSubmitters :
             submitters'[s] # None => submitters'[s].copy \in KnownCopy
        /\ logRead' = None
    BY <1>2 DEF LogCommit, OnePlaceInv, CopiesKnown, niqVars, pendVars, runVars
  <2>. QED
    BY <1>5, <1>6, <2>1 DEF CopiesKnown
<1>. QED
  BY <1>1, <1>4, <1>7 DEF OnePlaceInv

-----------------------------------------------------------------------------
LEMMA NextOnePlace ==
    ASSUME OnePlaceInv, [PipelineNext]_pipelineVars
    PROVE  OnePlaceInv'
<1>1. CASE NiqNext
  BY <1>1, NiqFetchKnown, NiqPushKnown, NiqUpdateKnown DEF NiqNext
<1>2. CASE PendNext
  BY <1>2, PendFetchKnown, PendGiveUpKnown, PendSpawnKnown DEF PendNext
<1>3. CASE RunNext
  BY <1>3, RunListKnown, RunFetchKnown, RunCheckKnown DEF RunNext
<1>4. CASE LogNext
  BY <1>4, LogPrepareKnown, LogCommitKnown, LogStatusKnown DEF LogNext
<1>5. CASE DeleteNext
  BY <1>5, DeleteLocalTaskKnown, DeleteSandboxDataKnown DEF DeleteNext
<1>6. CASE \E s \in 1 .. MaxSubmitters : SubmitNext(s)
  BY <1>6, SubmitAcceptedKnown, SubmitFailedKnown, SubmitLoggedKnown DEF SubmitNext
<1>7. CASE \E i \in 1 .. MaxSandboxTasks : SandboxNext(i)
  BY <1>7, SandboxSettlesKnown DEF SandboxNext
<1>8. CASE \E rebooted \in BOOLEAN : Restart(rebooted)
  BY <1>8, RestartKnown
<1>9. CASE UNCHANGED pipelineVars
  <2>1. PipelineTypeOK'
    BY <1>9, NextType DEF OnePlaceInv
  <2>. QED
    BY <1>9, <2>1, StableStep, SameRowsUnchanged
    DEF OnePlaceInv, CopiesKnown, pipelineVars, dbVars, channelVars, niqVars, pendVars,
        runVars, asyncVars
<1>. QED
  BY <1>1, <1>2, <1>3, <1>4, <1>5, <1>6, <1>7, <1>8, <1>9 DEF PipelineNext

\* No accepted file is lost between the tables and none is in two of them,
\* whatever the channels hold, drop or duplicate, whatever statement fails and
\* whenever the process restarts.
THEOREM OnePlaceCorrect == PipelineSpec => []OnePlace
<1>1. PipelineInit => OnePlaceInv
  BY InitOnePlace
<1>2. OnePlaceInv /\ [PipelineNext]_pipelineVars => OnePlaceInv'
  BY NextOnePlace
<1>3. OnePlaceInv => OnePlace
  BY DEF OnePlaceInv
<1>. QED
  BY <1>1, <1>2, <1>3, PTL DEF PipelineSpec

-----------------------------------------------------------------------------
(* The entry at the head of LogQueue stays while LogQueueHandler works on   *)
(* it: the others only append.                                              *)

LEMMA LogChangeHead ==
    ASSUME NEW st \in LogStates, NEW c, NEW s, NEW ok \in BOOLEAN, st.queue # <<>>,
           WithStatus(c, s) \in TaskCopy
    PROVE  LogChange(st, c, s, ok).queue # <<>>
           /\ Head(LogChange(st, c, s, ok).queue) = Head(st.queue)
<1>1. st.queue \in Seq(TaskCopy)
  BY DEF LogStates
<1>2. Append(st.queue, WithStatus(c, s)) # <<>>
      /\ Head(Append(st.queue, WithStatus(c, s))) = Head(st.queue)
  BY <1>1
<1>. QED
  BY <1>2 DEF LogChange, Push, LogStates

SameHead == logQueue' # <<>> /\ Head(logQueue') = Head(logQueue)

LEMMA ChangeStatusHead ==
    ASSUME PipelineTypeOK, NEW c \in LiveCopy, NEW s \in TaskStatuses, logQueue # <<>>,
           ChangeStatusAndPushToLogQueue(c, s)
    PROVE  SameHead
<1>1. PICK ok \in BOOLEAN : LogStateBecomes(LogChange(LogState, c, s, ok))
  BY DEF ChangeStatusAndPushToLogQueue
<1>2. WithStatus(c, s) \in TaskCopy /\ LogState \in LogStates
  BY WithStatusType, LogStateType DEF LiveCopy, TaskCopy
<1>3. LogState.queue = logQueue
  BY DEF LogState
<1>. QED
  BY <1>1, <1>2, <1>3, LogChangeHead DEF LogStateBecomes, SameHead

LEMMA LogNotFoundHead ==
    ASSUME PipelineTypeOK, NEW c \in LiveCopy, NEW ok \in BOOLEAN, logQueue # <<>>,
           LogStateBecomes(LogNotFound(LogState, c, ok))
    PROVE  SameHead
<1>. DEFINE c2  == [c EXCEPT !.row.runningRetryCount = @ + 1]
            st2 == IF c2.row.runningRetryCount >= RunningMaxRetries
                   THEN LogChange(LogState, c2, Aborted, ok) ELSE LogState
<1>1. c2 \in LiveCopy
  BY CountedType
<1>2. Aborted \in TaskStatuses /\ RunningNotInQueue \in TaskStatuses
  BY DEF TaskStatuses, FinalStatuses, LiveStatuses
<1>3. WithStatus(c2, Aborted) \in TaskCopy /\ WithStatus(c2, RunningNotInQueue) \in TaskCopy
  BY <1>1, <1>2, WithStatusType DEF LiveCopy, TaskCopy
<1>4. LogStateBecomes(LogChange(st2, c2, RunningNotInQueue, ok))
  BY DEF LogNotFound
<1>. HIDE DEF c2
<1>5. LogState \in LogStates /\ LogState.queue = logQueue
  BY LogStateType DEF LogState
<1>6. st2 \in LogStates /\ st2.queue # <<>> /\ Head(st2.queue) = Head(logQueue)
  BY <1>1, <1>2, <1>3, <1>5, LogChangeType, LogChangeHead
<1>. HIDE DEF st2
<1>. QED
  BY <1>3, <1>4, <1>6, LogChangeHead DEF LogStateBecomes, SameHead

LEMMA NiqPushHead ==
    ASSUME PipelineTypeOK, NEW c \in niqBatch, NiqPush(c), logQueue # <<>>
    PROVE  SameHead
<1>1. c \in LiveCopy
  BY DEF PipelineTypeOK
<1>2. {Scanned, Aborted, RequeueStatus(c.row.status)} \subseteq TaskStatuses
  BY <1>1 DEF RequeueStatus, LiveCopy, RowOver, TaskStatuses, LiveStatuses, FinalStatuses
<1>3. ASSUME NEW s \in TaskStatuses, NiqToLog(c, s) PROVE SameHead
  <2>1. WithStatus(c, s) \in TaskCopy /\ logQueue \in Seq(TaskCopy)
    BY <1>1, WithStatusType DEF LiveCopy, TaskCopy, PipelineTypeOK
  <2>2. Append(logQueue, WithStatus(c, s)) # <<>>
        /\ Head(Append(logQueue, WithStatus(c, s))) = Head(logQueue)
    BY <2>1
  <2>. QED
    BY <1>3, <2>2 DEF NiqToLog, Pushed, Push, SameHead
<1>. QED
  BY <1>2, <1>3 DEF NiqPush, NiqRelog, NiqScanFound, NiqAdmit, NiqResume, NiqToPending,
                    NiqToRunning, SameHead

LEMMA SubmitFailedHead ==
    ASSUME PipelineTypeOK, NEW s \in 1 .. MaxSubmitters, SubmitFailed(s), logQueue # <<>>
    PROVE  SameHead
<1>. DEFINE c  == Retried(submitters[s].copy)
            c2 == [c EXCEPT !.row.queueRetryCount = @ + 1]
<1>1. c \in LiveCopy /\ c2 \in LiveCopy
  BY SubmitterType, CountedType DEF SubmitFailed, Sending, Retried
<1>2. PendingNotInQueue \in LiveStatuses /\ PendingNotInQueue \in TaskStatuses
      /\ Aborted \in TaskStatuses
  BY DEF LiveStatuses, TaskStatuses, FinalStatuses
<1>. HIDE DEF c, c2
<1>3. CASE ChangeStatusAndPushToLogQueue(c, Aborted)
  BY <1>1, <1>2, <1>3, ChangeStatusHead
<1>4. CASE UNCHANGED logQueue
  BY <1>4 DEF SameHead
<1>5. CASE SubmitRetryThroughLog(c2)
  <2>1. WithStatus(c2, PendingNotInQueue) \in LiveCopy
    BY <1>1, <1>2, WithStatusType DEF LiveCopy
  <2>. QED
    BY <1>1, <1>2, <1>5, <2>1, ChangeStatusHead DEF SubmitRetryThroughLog
<1>. USE DEF c, c2
<1>. QED
  BY <1>3, <1>4, <1>5 DEF SubmitFailed

LEMMA RunCheckHead ==
    ASSUME PipelineTypeOK, RunCheck, logQueue # <<>>
    PROVE  SameHead
<1>. DEFINE c == Head(runBatch)
<1>1. c \in LiveCopy
  BY HeadTailProperties DEF PipelineTypeOK, RunCheck
<1>2. {Reported, Aborted, RunningNotInQueue} \subseteq TaskStatuses
  BY DEF TaskStatuses, FinalStatuses, LiveStatuses
<1>3. ASSUME NEW s \in {Reported, Aborted, RunningNotInQueue},
             ChangeStatusAndPushToLogQueue(c, s)
      PROVE  SameHead
  BY <1>1, <1>2, <1>3, ChangeStatusHead
<1>4. ASSUME NEW ok \in BOOLEAN, LogStateBecomes(LogNotFound(LogState, c, ok))
      PROVE  SameHead
  BY <1>1, <1>4, LogNotFoundHead
<1>5. CASE UNCHANGED logQueue
  BY <1>5 DEF SameHead
<1>. QED
  BY <1>3, <1>4, <1>5 DEF RunCheck

LEMMA HeadStays ==
    ASSUME PipelineTypeOK, [PipelineNext]_pipelineVars, logQueue # <<>>
    PROVE  \/ LogCommit \/ LogStatus \/ \E rebooted \in BOOLEAN : Restart(rebooted)
           \/ SameHead
<1>1. CASE NiqNext
  BY <1>1, NiqPushHead DEF NiqNext, NiqFetch, NiqUpdate, channelVars, SameHead
<1>2. CASE PendNext
  <2>1. CASE PendGiveUp
    <3>1. Head(pendBatch) \in LiveCopy
      BY <2>1, HeadTailProperties DEF PipelineTypeOK, PendGiveUp
    <3>. QED
      BY <2>1, <3>1, ChangeStatusHead DEF PendGiveUp, TaskStatuses, FinalStatuses
  <2>. QED
    BY <1>2, <2>1 DEF PendNext, PendFetch, PendSpawn, channelVars, SameHead
<1>3. CASE RunNext
  BY <1>3, RunCheckHead DEF RunNext, RunList, RunFetch, channelVars, SameHead
<1>4. CASE LogNext
  BY <1>4 DEF LogNext, LogPrepare, channelVars, SameHead
<1>5. CASE DeleteNext
  BY <1>5 DEF DeleteNext, DeleteLocalTask, DeleteSandboxData, channelVars, SameHead
<1>6. CASE \E s \in 1 .. MaxSubmitters : SubmitNext(s)
  <2>1. ASSUME NEW s \in 1 .. MaxSubmitters, SubmitLogged(s) PROVE SameHead
    BY <2>1, SubmitterType, ChangeStatusHead DEF SubmitLogged, TaskStatuses
  <2>. QED
    BY <1>6, <2>1, SubmitFailedHead DEF SubmitNext, SubmitAccepted, SameHead
<1>7. CASE \E i \in 1 .. MaxSandboxTasks : SandboxNext(i)
  BY <1>7 DEF SandboxNext, SandboxSettles, channelVars, SameHead
<1>8. CASE UNCHANGED pipelineVars
  BY <1>8 DEF pipelineVars, channelVars, SameHead
<1>. QED
  BY <1>1, <1>2, <1>3, <1>4, <1>5, <1>6, <1>7, <1>8 DEF PipelineNext

\* Only the transactions of LogQueueHandler touch these tables.
LEMMA FilesStay ==
    ASSUME [PipelineNext]_pipelineVars
    PROVE  LogCommit \/ UNCHANGED <<fod, dup, finished>>
BY DEF PipelineNext, NiqNext, PendNext, RunNext, LogNext, DeleteNext, SubmitNext, SandboxNext,
       NiqFetch, NiqPush, NiqUpdate, PendFetch, PendGiveUp, PendSpawn, SubmitAccepted,
       SubmitFailed, SubmitLogged, RunList, RunFetch, RunCheck, LogPrepare, LogStatus,
       DeleteLocalTask, DeleteSandboxData, SandboxSettles, Restart, pipelineVars, dbVars

-----------------------------------------------------------------------------
(* What LogQueueHandler read for the transaction is what it would read now. *)

ReadCurrent ==
    logRead # None => /\ logQueue # <<>> /\ Head(logQueue).row.status \in FinalStatuses
                      /\ logRead.dups = DuplicatesToSettle(Head(logQueue))

LEMMA NextReadCurrent ==
    ASSUME PipelineTypeOK, ReadCurrent, "statement" \notin FaultKinds,
           [PipelineNext]_pipelineVars
    PROVE  ReadCurrent'
<1>1. CASE LogPrepare
  <2>1. PICK ok \in BOOLEAN, score \in ScoresOf(Head(logQueue)) :
          Statement(ok) /\ logRead' = [score |-> score, dups |-> DuplicatesRead(Head(logQueue), ok)]
    BY <1>1 DEF LogPrepare
  <2>2. ok
    BY <2>1 DEF Statement
  <2>. QED
    BY <1>1, <2>1, <2>2 DEF LogPrepare, DuplicatesRead, DuplicatesToSettle, DuplicatesOf,
                            LowestOf, ReadCurrent, dbVars, channelVars
<1>2. CASE LogCommit \/ \E rebooted \in BOOLEAN : Restart(rebooted)
  BY <1>2 DEF LogCommit, Restart, ReadCurrent
<1>3. CASE LogStatus
  BY <1>3 DEF LogStatus, ReadCurrent
<1>4. CASE ~LogPrepare /\ ~LogCommit /\ ~LogStatus /\ ~\E rebooted \in BOOLEAN : Restart(rebooted)
  <2>1. logRead' = logRead
    BY <1>4 DEF PipelineNext, NiqNext, PendNext, RunNext, LogNext, DeleteNext, SubmitNext,
                SandboxNext, NiqFetch, NiqPush, NiqUpdate, PendFetch, PendGiveUp, PendSpawn,
                SubmitAccepted, SubmitFailed, SubmitLogged, RunList, RunFetch, RunCheck,
                DeleteLocalTask, DeleteSandboxData, SandboxSettles, pipelineVars
  <2>2. UNCHANGED <<fod, dup>>
    BY <1>4, FilesStay
  <2>3. logQueue # <<>> => SameHead
    BY <1>4, HeadStays
  <2>. QED
    BY <2>1, <2>2, <2>3 DEF ReadCurrent, SameHead, DuplicatesToSettle, DuplicatesOf, LowestOf
<1>. QED
  BY <1>1, <1>2, <1>3, <1>4

-----------------------------------------------------------------------------
(* A copy carries the digest of its row.  A promoted duplicate's row has    *)
(* none, but no copy of a duplicate exists.                                *)

SameDigest == {c \in TaskCopy : live[c.id] # None => c.row.hash = live[c.id].hash}
HashCopy == {c \in SameDigest : c.id \in KnownIds}

ServedInv == OnePlaceInv /\ Holds(HashCopy) /\ ReadCurrent

LEMMA HoldsMore ==
    ASSUME NEW G, Holds(G), NEW H, G \subseteq H
    PROVE  Holds(H)
<1>1. Seq(G) \subseteq Seq(H)
  OBVIOUS
<1>. QED
  BY <1>1 DEF Holds, TableIn

\* A row is inserted for a promoted duplicate only, and an UPDATE never touches
\* the digest.
LEMMA RowsStep ==
    ASSUME OnePlaceInv, OnePlaceInv', Holds(HashCopy), [PipelineNext]_pipelineVars
    PROVE  /\ ~LogCommit => SameRows(live')
           /\ \A t \in Tasks : live'[t] # None =>
                 \/ live[t] # None /\ live'[t].hash = live[t].hash
                 \/ LogCommit /\ t \in logRead.dups /\ live'[t] = PromotedRow
<1>1. ASSUME ~LogCommit PROVE SameRows(live')
  <2>1. UNCHANGED <<fod, dup>>
    BY <1>1, FilesStay
  <2>. QED
    BY <2>1 DEF OnePlaceInv, OnePlace, SameRows, Settled
<1>2. ASSUME NEW t \in Tasks, live[t] # None, live'[t] # None
      PROVE  live'[t].hash = live[t].hash
  <2>1. PICK G : G = SameDigest
    OBVIOUS
  <2>2. Closed(G) /\ AcceptedIn(G)
    <3>1. ASSUME NEW s \in 1 .. MaxSubmitters, SubmitAccepted(s)
          PROVE  submitters[s].copy \in SameDigest
      BY <3>1 DEF SubmitAccepted, Sending, Holds, HashCopy
    <3>. QED
      BY <2>1, <3>1 DEF Closed, AcceptedIn, SameDigest
  <2>3. Holds(G)
    BY <2>1, HoldsMore DEF HashCopy
  <2>4. PromotedIn(G)
    <3>1. ASSUME LogCommit, NEW d \in logRead.dups PROVE d \in Tasks /\ live[d] = None
      BY <3>1 DEF LogCommit, OnePlaceInv, OnePlace, CopiesKnown, PipelineTypeOK, LogRead
    <3>2. \A d \in Tasks : [id |-> d, row |-> PromotedRow] \in TaskCopy
      BY PromotedRowType DEF TaskCopy, RowOver, TaskStatuses
    <3>. QED
      BY <2>1, <3>1, <3>2 DEF PromotedIn, SameDigest
  <2>5. Holds(G)'
    BY <2>2, <2>3, <2>4, CopiesStay DEF OnePlaceInv
  <2>6. [id |-> t, row |-> live'[t]] \in G
    BY <1>2, <2>5 DEF Holds, TableIn
  <2>. QED
    BY <1>2, <2>1, <2>6 DEF SameDigest
<1>3. ASSUME NEW t \in Tasks, live[t] = None, live'[t] # None
      PROVE  LogCommit /\ t \in logRead.dups /\ live'[t] = PromotedRow
  <2>1. LogCommit
    BY <1>1, <1>3 DEF SameRows
  <2>. QED
    BY <1>3, <2>1 DEF LogCommit, Finish, Abort, LiveAfterFinish
<1>. QED
  BY <1>1, <1>2, <1>3

LEMMA KnownIdsGrow ==
    ASSUME OnePlaceInv, [PipelineNext]_pipelineVars
    PROVE  KnownIds \subseteq KnownIds'
<1>1. CASE LogCommit
  <2>. DEFINE c == Head(logQueue)
  <2>1. c \in KnownCopy
    BY <1>1, HeadTailProperties DEF LogCommit, OnePlaceInv, CopiesKnown
  <2>2. c.id \in KnownIds /\ logRead.dups \subseteq dup /\ logRead.score \in Scores
    BY <1>1, <2>1 DEF LogCommit, OnePlaceInv, CopiesKnown, PipelineTypeOK, LogRead, KnownCopy
  <2>3. CASE Finish(c.id, logRead.dups, logRead.score)
    BY <2>2, <2>3, FinishOnePlace DEF OnePlaceInv, PipelineTypeOK
  <2>4. CASE Abort(c.id, logRead.dups)
    BY <2>2, <2>4, AbortOnePlace DEF OnePlaceInv, PipelineTypeOK
  <2>5. CASE UNCHANGED <<fod, live, dup, finished>>
    BY <2>5 DEF KnownIds
  <2>. QED
    BY <1>1, <2>3, <2>4, <2>5 DEF LogCommit
<1>2. CASE UNCHANGED <<fod, dup>>
  BY <1>2 DEF KnownIds
<1>. QED
  BY <1>1, <1>2, FilesStay

LEMMA NextHash ==
    ASSUME OnePlaceInv, Holds(HashCopy), [PipelineNext]_pipelineVars
    PROVE  OnePlaceInv' /\ Holds(HashCopy)'
<1>1. OnePlaceInv' /\ KnownIds \subseteq KnownIds'
  BY NextOnePlace, KnownIdsGrow
<1>2. \A t \in Tasks : live'[t] # None =>
        \/ live[t] # None /\ live'[t].hash = live[t].hash
        \/ LogCommit /\ t \in logRead.dups /\ live'[t] = PromotedRow
  BY <1>1, RowsStep
<1>3. LogCommit => logRead.dups \subseteq dup /\ dup \subseteq Tasks
  BY DEF LogCommit, OnePlaceInv, CopiesKnown, PipelineTypeOK, DbTypeOK
<1>4. HashCopy \subseteq HashCopy'
  <2>. SUFFICES ASSUME NEW c \in HashCopy, live'[c.id] # None
                PROVE  c.row.hash = live'[c.id].hash
    BY <1>1 DEF HashCopy, SameDigest
  <2>1. c.id \in Tasks /\ c.id \notin dup
    BY DEF HashCopy, KnownIds
  <2>2. live[c.id] # None /\ live'[c.id].hash = live[c.id].hash
    BY <1>2, <1>3, <2>1
  <2>. QED
    BY <2>2 DEF HashCopy, SameDigest
<1>5. PICK G : G = HashCopy'
  OBVIOUS
<1>6. Closed(G)
  BY <1>5 DEF Closed, HashCopy, SameDigest
<1>7. Holds(G)
  BY <1>4, <1>5, HoldsMore
<1>8. AcceptedIn(G)
  <2>1. ASSUME NEW s \in 1 .. MaxSubmitters, SubmitAccepted(s)
        PROVE  submitters[s].copy \in HashCopy'
    BY <1>4, <2>1 DEF SubmitAccepted, Sending, Holds
  <2>. QED
    BY <1>5, <2>1 DEF AcceptedIn, HashCopy, SameDigest
<1>9. PromotedIn(G)
  <2>. SUFFICES ASSUME LogCommit, NEW d \in logRead.dups, live'[d] # None
                PROVE  [id |-> d, row |-> PromotedRow] \in HashCopy'
    BY <1>5 DEF PromotedIn
  <2>1. d \in Tasks /\ live[d] = None
    BY <1>3 DEF OnePlaceInv, OnePlace
  <2>2. live'[d] = PromotedRow
    BY <1>2, <2>1
  <2>3. [id |-> d, row |-> PromotedRow] \in TaskCopy
    BY <2>1, PromotedRowType DEF TaskCopy, RowOver, TaskStatuses
  <2>4. d \in KnownIds'
    BY <1>1, <2>1 DEF OnePlaceInv, OnePlace, KnownIds
  <2>. QED
    BY <2>2, <2>3, <2>4 DEF HashCopy, SameDigest
<1>10. Holds(G)'
  BY <1>6, <1>7, <1>8, <1>9, CopiesStay DEF OnePlaceInv
<1>. QED
  BY <1>1, <1>5, <1>10 DEF Holds, TableIn

LEMMA InitServed == PipelineInit => ServedInv
<1>. SUFFICES ASSUME PipelineInit PROVE ServedInv
  OBVIOUS
<1>1. OnePlaceInv
  BY InitOnePlace
<1>2. ASSUME NEW t \in Tasks, live[t] # None
      PROVE  [id |-> t, row |-> live[t]] \in HashCopy
  <2>1. CopyOf(t) \in LiveCopy
    BY <1>1, <1>2 DEF OnePlaceInv, PipelineTypeOK, DbTypeOK, LiveCopy, CopyOf
  <2>2. t \in KnownIds
    BY <1>1, <1>2 DEF OnePlaceInv, OnePlace, KnownIds
  <2>3. CopyOf(t) \in TaskCopy
    BY <2>1, LiveCopyIsTaskCopy
  <2>. QED
    BY <2>2, <2>3 DEF HashCopy, SameDigest, CopyOf
<1>3. Holds(HashCopy)
  BY <1>2 DEF Holds, TableIn, PipelineInit, EmptyMemory
<1>. QED
  BY <1>1, <1>3 DEF ServedInv, ReadCurrent, PipelineInit, EmptyMemory

LEMMA NextServed ==
    ASSUME ServedInv, "statement" \notin FaultKinds, [PipelineNext]_pipelineVars
    PROVE  ServedInv'
<1>1. OnePlaceInv' /\ Holds(HashCopy)'
  BY NextHash DEF ServedInv
<1>2. ReadCurrent'
  BY NextReadCurrent DEF ServedInv, OnePlaceInv
<1>. QED
  BY <1>1, <1>2 DEF ServedInv

\* ORDER BY id LIMIT 1 finds a row when there is one.
LEMMA LowestExists ==
    ASSUME NEW D, D \subseteq Nat, D # {}
    PROVE  \E d \in D : LowestOf(D) = {d}
<1>1. PICK R : R = OpToRel(<, Nat)
  OBVIOUS
<1>2. IsWellFoundedOn(R, Nat)
  BY <1>1, NatLessThanWellFounded
<1>3. PICK d \in D : \A e \in D : ~ (<<e, d>> \in R)
  BY <1>2, WFMin
<1>4. \A x, y \in D : y < x => <<y, x>> \in R
  BY <1>1 DEF OpToRel
<1>5. ASSUME NEW e \in D PROVE d <= e
  <2>1. ~ (e < d)
    BY <1>3, <1>4
  <2>2. d \in Nat /\ e \in Nat
    OBVIOUS
  <2>. QED
    BY <2>1, <2>2
<1>6. ASSUME NEW x \in LowestOf(D) PROVE x = d
  <2>1. x <= d /\ d <= x
    BY <1>5, <1>6 DEF LowestOf
  <2>2. d \in Nat /\ x \in Nat
    BY <1>6 DEF LowestOf
  <2>. QED
    BY <2>1, <2>2
<1>. QED
  BY <1>5, <1>6 DEF LowestOf

\* A row leaves the live table with the log entry of its own task, and the
\* duplicates read for that entry are those of the row's digest.
LEMMA ServedStep ==
    ASSUME ServedInv, [PipelineNext]_pipelineVars, NEW t \in Tasks, NEW h \in Hashes,
           live[t] # None, live'[t] = None, live[t].hash = h
    PROVE  DigestServed(h)' \/ \A d \in dup' : fod[d].hash # h
<1>1. LogCommit
  <2>1. OnePlaceInv'
    BY NextOnePlace DEF ServedInv
  <2>. QED
    BY <2>1, RowsStep DEF ServedInv, SameRows
<1>2. PICK c : c = Head(logQueue)
  OBVIOUS
<1>3. c \in HashCopy
  BY <1>1, <1>2, HeadTailProperties DEF LogCommit, ServedInv, Holds
<1>4. logRead.dups = DuplicatesToSettle(c) /\ logRead.dups \subseteq dup /\ dup \subseteq Tasks
  BY <1>1, <1>2 DEF LogCommit, ServedInv, ReadCurrent, OnePlaceInv, CopiesKnown, PipelineTypeOK,
                    DbTypeOK
<1>5. \A d \in dup : fod[d] # None /\ live[d] = None
  BY <1>4 DEF ServedInv, OnePlaceInv, OnePlace
<1>6. CASE c.row.status # Aborted /\ Finish(c.id, logRead.dups, logRead.score)
  <2>1. t = c.id
    BY <1>6 DEF Finish, LiveAfterFinish
  <2>2. logRead.dups = DuplicatesOf(h)
    BY <1>3, <1>4, <1>6, <2>1 DEF HashCopy, SameDigest, DuplicatesToSettle
  <2>. QED
    BY <1>5, <1>6, <2>2 DEF Finish, DuplicatesOf
<1>7. CASE c.row.status = Aborted /\ Abort(c.id, logRead.dups)
  <2>. PromotedRow # None
    <3>1. PromotedRow \in RowOver(LiveStatuses)
      BY PromotedRowType
    <3>. QED
      BY <3>1, DbAssumption
  <2>1. t = c.id
    BY <1>7 DEF Abort, LiveAfterFinish
  <2>2. logRead.dups = LowestOf(DuplicatesOf(h))
    BY <1>3, <1>4, <1>7, <2>1 DEF HashCopy, SameDigest, DuplicatesToSettle
  <2>3. CASE DuplicatesOf(h) = {}
    BY <1>5, <1>7, <2>3 DEF Abort, DuplicatesOf
  <2>4. CASE DuplicatesOf(h) # {}
    <3>1. DuplicatesOf(h) \subseteq Nat
      <4>1. Tasks \subseteq Nat
        BY DbAssumption DEF Tasks
      <4>2. DuplicatesOf(h) \subseteq dup
        BY DEF DuplicatesOf
      <4>. QED
        BY <1>4, <4>1, <4>2
    <3>2. PICK d \in DuplicatesOf(h) : LowestOf(DuplicatesOf(h)) = {d}
      BY <2>4, <3>1, LowestExists
    <3>3. d \in Tasks /\ d # t /\ fod[d].hash = h
      BY <1>4, <1>5, <3>2 DEF DuplicatesOf
    <3>4. live'[d] = PromotedRow
      BY <1>7, <2>2, <3>2, <3>3 DEF Abort, LiveAfterFinish
    <3>5. fod'[d] = fod[d]
      BY <1>7, <2>1, <3>3 DEF Abort, UpdateFod
    <3>. QED
      BY <3>3, <3>4, <3>5 DEF DigestServed
  <2>. QED
    BY <2>3, <2>4
<1>8. ~ UNCHANGED live
  OBVIOUS
<1>. QED
  BY <1>1, <1>2, <1>6, <1>7, <1>8 DEF LogCommit

\* A task that leaves the live table settles the duplicates of its digest, or
\* leaves one of them live in its place: processDuplicateTasksForReported and
\* processDuplicateTasksForAborted act on what was read before their
\* transaction, which is still true when it runs.  A duplicate is overlooked
\* only when a SELECT or the transaction itself fails.
THEOREM DuplicatesAreServed ==
    ASSUME "statement" \notin FaultKinds
    PROVE  PipelineSpec => DuplicatesServed
<1>1. PipelineInit => ServedInv
  BY InitServed
<1>2. ServedInv /\ [PipelineNext]_pipelineVars => ServedInv'
  BY NextServed
<1>3. ServedInv /\ [PipelineNext]_pipelineVars =>
        [\A t \in Tasks, h \in Hashes :
            live[t] # None /\ live'[t] = None /\ live[t].hash = h =>
                DigestServed(h)' \/ \A d \in dup' : fod[d].hash # h]_pipelineVars
  BY ServedStep
<1>. QED
  BY <1>1, <1>2, <1>3, PTL DEF PipelineSpec, DuplicatesServed
-----------------------------------------------------------------------------
(* The samples of the tasks still to be analysed.  SampleKept does not say  *)
(* why the samples of the duplicates an abort promotes are still there:     *)
(* processDuplicateTasksForAborted deletes none.                            *)

Safe(t) == files[t] # None /\ <<"file", t>> \notin deletions

\* The duplicates whose samples are deleted early (db.go:91).
SettledWith == IF logRead = None \/ Head(logQueue).row.status = Aborted THEN {} ELSE logRead.dups

SampleInv ==
    /\ ServedInv
    /\ \A t \in Tasks : live[t] # None => Safe(t)
    /\ \A t \in dup : t \notin SettledWith => Safe(t)

LEMMA SampleInvKept == SampleInv => SampleKept
BY DEF SampleInv, SampleKept, SettledWith, Safe, ServedInv, ReadCurrent, OnePlaceInv,
       PipelineTypeOK, DbTypeOK

LEMMA InitSample == PipelineInit => SampleInv
<1>. SUFFICES ASSUME PipelineInit PROVE SampleInv
  OBVIOUS
<1>1. ServedInv
  BY InitServed
<1>2. \A t \in Tasks : Safe(t)
  BY DbAssumption DEF PipelineInit, EmptyMemory, Safe
<1>3. dup \subseteq Tasks
  BY DEF PipelineInit
<1>. QED
  BY <1>1, <1>2, <1>3 DEF SampleInv

LEMMA LogPrepareSample ==
    ASSUME SampleInv, LogPrepare, ServedInv'
    PROVE  SampleInv'
<1>1. PICK c : c = Head(logQueue)
  OBVIOUS
<1>2. PICK ok \in BOOLEAN, score \in ScoresOf(c) :
        /\ logRead' = [score |-> score, dups |-> DuplicatesRead(c, ok)]
        /\ deletions' = deletions \cup EarlyDeletions(c, DuplicatesRead(c, ok))
  BY <1>1 DEF LogPrepare
<1>3. DuplicatesRead(c, ok) \subseteq dup
  BY DEF DuplicatesRead, DuplicatesToSettle, DuplicatesOf, LowestOf
<1>4. logRead' # None
  <2>1. score \in Scores /\ dup \subseteq Tasks
    BY DEF ScoresOf, Scores, SampleInv, ServedInv, OnePlaceInv, PipelineTypeOK, DbTypeOK
  <2>2. logRead' \in LogRead
    BY <1>2, <1>3, <2>1 DEF LogRead
  <2>. QED
    BY <2>2, PipelineAssumption
<1>. QED
  BY <1>1, <1>2, <1>3, <1>4 DEF SampleInv, LogPrepare, Safe, SettledWith, EarlyDeletions,
     dbVars, channelVars, ServedInv, OnePlaceInv, OnePlace, PipelineTypeOK, DbTypeOK

LEMMA LogCommitSample ==
    ASSUME SampleInv, LogCommit, "statement" \notin FaultKinds, ServedInv'
    PROVE  SampleInv'
<1>1. PICK c : c = Head(logQueue)
  OBVIOUS
<1>2. c.id \in Tasks /\ c.id \notin dup
  <2>1. c \in KnownCopy
    BY <1>1, HeadTailProperties DEF LogCommit, SampleInv, ServedInv, OnePlaceInv, CopiesKnown
  <2>. QED
    BY <2>1 DEF KnownCopy, KnownIds
<1>3. IF c.row.status = Aborted THEN Abort(c.id, logRead.dups)
      ELSE Finish(c.id, logRead.dups, logRead.score)
  BY <1>1 DEF LogCommit, Statement
<1>4. \A t \in Tasks : t # c.id => <<"file", t>> \notin CleanUp(c)
  BY DEF CleanUp
<1>5. files' = files /\ deletions' = deletions \cup CleanUp(c) /\ SettledWith' = {}
  BY <1>1 DEF LogCommit, SettledWith
<1>6. \A t \in Tasks : t # c.id /\ Safe(t) => Safe(t)'
  BY <1>4, <1>5 DEF Safe
<1>7. logRead.dups \subseteq dup /\ dup \subseteq Tasks
  BY DEF LogCommit, SampleInv, ServedInv, OnePlaceInv, CopiesKnown, PipelineTypeOK, DbTypeOK
<1>8. SettledWith = IF c.row.status = Aborted THEN {} ELSE logRead.dups
  BY <1>1 DEF LogCommit, SettledWith
<1>9. \A t \in Tasks : live'[t] # None =>
        /\ t # c.id
        /\ live[t] # None \/ (c.row.status = Aborted /\ t \in logRead.dups)
  BY <1>2, <1>3, <1>7 DEF Abort, Finish, LiveAfterFinish
<1>10. dup' = dup \ logRead.dups
  BY <1>3 DEF Abort, Finish
<1>. QED
  BY <1>2, <1>5, <1>6, <1>7, <1>8, <1>9, <1>10 DEF SampleInv

LEMMA DeleteLocalTaskSample ==
    ASSUME SampleInv, NEW t \in Tasks, DeleteLocalTask(t), ServedInv'
    PROVE  SampleInv'
<1>1. live[t] = None /\ (t \in dup => t \in SettledWith)
  BY DEF SampleInv, DeleteLocalTask, Safe
<1>2. \A u \in Tasks : u # t /\ Safe(u) => Safe(u)'
  BY DEF DeleteLocalTask, Safe, SampleInv, ServedInv, OnePlaceInv, PipelineTypeOK, DbTypeOK
<1>3. UNCHANGED <<live, dup, SettledWith>>
  BY DEF DeleteLocalTask, SettledWith, channelVars
<1>4. dup \subseteq Tasks
  BY DEF SampleInv, ServedInv, OnePlaceInv, PipelineTypeOK, DbTypeOK
<1>. QED
  BY <1>1, <1>2, <1>3, <1>4 DEF SampleInv

LEMMA NextSample ==
    ASSUME FaultKinds = {}, SampleInv, [PipelineNext]_pipelineVars
    PROVE  SampleInv'
<1>1. ServedInv'
  BY NextServed DEF SampleInv
<1>2. CASE LogPrepare
  BY <1>1, <1>2, LogPrepareSample
<1>3. CASE LogCommit
  BY <1>1, <1>3, LogCommitSample
<1>4. CASE \E t \in Tasks : DeleteLocalTask(t)
  BY <1>1, <1>4, DeleteLocalTaskSample
<1>5. CASE ~LogPrepare /\ ~LogCommit /\ ~ \E t \in Tasks : DeleteLocalTask(t)
  <2>1. ~ \E rebooted \in BOOLEAN : Restart(rebooted)
    BY DEF Restart
  <2>2. /\ UNCHANGED <<files, dup, logRead>>
        /\ \A t \in Tasks : <<"file", t>> \in deletions' => <<"file", t>> \in deletions
    BY <1>5, <2>1 DEF PipelineNext, NiqNext, PendNext, RunNext, LogNext, DeleteNext, SubmitNext,
       SandboxNext, NiqFetch, NiqPush, NiqUpdate, PendFetch, PendGiveUp, PendSpawn,
       SubmitAccepted, SubmitFailed, SubmitLogged, RunList, RunFetch, RunCheck, LogStatus,
       DeleteSandboxData, SandboxSettles, pipelineVars, dbVars, asyncVars
  <2>3. SameRows(live')
    <3>1. OnePlaceInv'
      BY <1>1 DEF ServedInv
    <3>. QED
      BY <1>5, <3>1, RowsStep DEF SampleInv, ServedInv
  <2>4. SettledWith' = SettledWith
    <3>1. CASE logRead = None
      BY <2>2, <3>1 DEF SettledWith
    <3>2. CASE logRead # None
      <4>1. logQueue # <<>> /\ Head(logQueue).row.status \in FinalStatuses
        BY <3>2 DEF SampleInv, ServedInv, ReadCurrent
      <4>2. ~LogStatus
        BY <4>1 DEF LogStatus
      <4>3. SameHead
        BY <1>5, <2>1, <4>1, <4>2, HeadStays DEF SampleInv, ServedInv, OnePlaceInv
      <4>. QED
        BY <2>2, <4>3 DEF SettledWith, SameHead
    <3>. QED
      BY <3>1, <3>2
  <2>5. dup \subseteq Tasks
    BY DEF SampleInv, ServedInv, OnePlaceInv, PipelineTypeOK, DbTypeOK
  <2>. QED
    BY <1>1, <2>2, <2>3, <2>4, <2>5 DEF SampleInv, Safe, SameRows
<1>. QED
  BY <1>2, <1>3, <1>4, <1>5

\* The sample of a file still to be analysed is on disk and no goroutine is
\* about to delete it.  A crash or a failed transaction between the early
\* deletion of db.go:91 and the rows it is about does break this, so the
\* theorem is about a store and a process that keep running.
THEOREM SampleIsKept ==
    ASSUME FaultKinds = {}
    PROVE  PipelineSpec => []SampleKept
<1>1. PipelineInit => SampleInv
  BY InitSample
<1>2. SampleInv /\ [PipelineNext]_pipelineVars => SampleInv'
  BY NextSample
<1>3. SampleInv => SampleKept
  BY SampleInvKept
<1>. QED
  BY <1>1, <1>2, <1>3, PTL DEF PipelineSpec
-----------------------------------------------------------------------------
(* The tasks admitted to the sandbox.  NotInQueueHandler compares a count   *)
(* of rows with MAX_FREE_VMS; the bound on the tasks in the channels        *)
(* follows because every other way into them is taken by tasks admitted     *)
(* before: T holds them, and every copy or row in a running status is one.  *)

RunningStatuses == {RunningNotInQueue, RunningInQueue}

WorkCopy(T) == {c \in TaskCopy : c.id \in T}
RestCopy(T) == {c \in TaskCopy : c.row.status \in RunningStatuses => c.id \in T}

RunningIn(table, T) ==
    \A t \in Tasks : table[t] # None /\ table[t].status \in RunningStatuses => t \in T

\* niqWrite stores a running status for one of T only.
WriteIn(w, T) ==
    w # None /\ w.status # None /\ w.status \in RunningStatuses => w.id \in T

Work(T) ==
    /\ pendingQueue \in Seq(WorkCopy(T)) /\ pendBatch \in Seq(WorkCopy(T))
    /\ runningQueue \in Seq(WorkCopy(T)) /\ runBatch \in Seq(WorkCopy(T))
    /\ \A s \in 1 .. MaxSubmitters :
        submitters[s] # None => submitters[s].copy \in WorkCopy(T)
    /\ logQueue \in Seq(RestCopy(T))
    /\ niqBatch \subseteq RestCopy(T)
    /\ WriteIn(niqWrite, T)
    /\ RunningIn(live, T)

AdmissionInv ==
    /\ OnePlaceInv /\ Holds(HashCopy)
    /\ \E T \in SUBSET KnownIds : Work(T) /\ Cardinality(T \cap LiveTasks) < MaxFreeVms

LEMMA WorkGrows ==
    ASSUME NEW T, Work(T), NEW U, T \subseteq U
    PROVE  Work(U)
<1>1. WorkCopy(T) \subseteq WorkCopy(U) /\ RestCopy(T) \subseteq RestCopy(U)
  BY DEF WorkCopy, RestCopy
<1>2. Seq(WorkCopy(T)) \subseteq Seq(WorkCopy(U)) /\ Seq(RestCopy(T)) \subseteq Seq(RestCopy(U))
  BY <1>1
<1>. QED
  BY <1>1, <1>2 DEF Work, RunningIn, WriteIn

WorkLog(st, T) == st \in LogStates /\ st.queue \in Seq(RestCopy(T)) /\ RunningIn(st.table, T)

LEMMA LogChangeWork ==
    ASSUME NEW T, NEW st, WorkLog(st, T), NEW c \in LiveCopy, c.id \in T,
           NEW s \in TaskStatuses, NEW ok \in BOOLEAN
    PROVE  WorkLog(LogChange(st, c, s, ok), T)
<1>1. LogChange(st, c, s, ok) \in LogStates
  BY LogChangeType DEF WorkLog
<1>2. WithStatus(c, s) \in RestCopy(T)
  <2>1. WithStatus(c, s) \in TaskCopy
    BY WithStatusType DEF LiveCopy, TaskCopy
  <2>2. WithStatus(c, s).id = c.id
    BY DEF WithStatus, LiveCopy
  <2>. QED
    BY <2>1, <2>2 DEF RestCopy
<1>3. Append(st.queue, WithStatus(c, s)) \in Seq(RestCopy(T))
  BY <1>2, AppendProperties DEF WorkLog
<1>4. \A row : RunningIn(WriteRow(st.table, c.id, row), T)
  BY DEF WorkLog, RunningIn, WriteRow, LogStates, LiveTable
<1>. QED
  BY <1>1, <1>3, <1>4 DEF LogChange, Push, WorkLog, LogStates

LEMMA LogStateWork ==
    ASSUME PipelineTypeOK, NEW T, Work(T)
    PROVE  WorkLog(LogState, T)
BY LogStateType DEF WorkLog, LogState, Work

LEMMA ChangeStatusWork ==
    ASSUME PipelineTypeOK, NEW T, Work(T), NEW c \in LiveCopy, c.id \in T,
           NEW s \in TaskStatuses, ChangeStatusAndPushToLogQueue(c, s)
    PROVE  logQueue' \in Seq(RestCopy(T)) /\ RunningIn(live', T)
<1>1. PICK ok \in BOOLEAN : LogStateBecomes(LogChange(LogState, c, s, ok))
  BY DEF ChangeStatusAndPushToLogQueue
<1>2. WorkLog(LogChange(LogState, c, s, ok), T)
  BY LogStateWork, LogChangeWork
<1>. QED
  BY <1>1, <1>2 DEF LogStateBecomes, WorkLog

LEMMA LogNotFoundWork ==
    ASSUME PipelineTypeOK, NEW T, Work(T), NEW c \in LiveCopy, c.id \in T,
           NEW ok \in BOOLEAN
    PROVE  WorkLog(LogNotFound(LogState, c, ok), T)
<1>. DEFINE c2  == [c EXCEPT !.row.runningRetryCount = @ + 1]
            st2 == IF c2.row.runningRetryCount >= RunningMaxRetries
                   THEN LogChange(LogState, c2, Aborted, ok) ELSE LogState
<1>1. c2 \in LiveCopy /\ c2.id \in T
  BY CountedType DEF LiveCopy
<1>2. Aborted \in TaskStatuses /\ RunningNotInQueue \in TaskStatuses
  BY DEF TaskStatuses, FinalStatuses, LiveStatuses
<1>3. LogNotFound(LogState, c, ok) = LogChange(st2, c2, RunningNotInQueue, ok)
  BY DEF LogNotFound
<1>. HIDE DEF c2
<1>4. WorkLog(st2, T)
  BY <1>1, <1>2, LogStateWork, LogChangeWork
<1>. HIDE DEF st2
<1>. QED
  BY <1>1, <1>2, <1>3, <1>4, LogChangeWork

-----------------------------------------------------------------------------
LEMMA NiqFetchWork ==
    ASSUME PipelineTypeOK, NEW T, Work(T), NiqFetch
    PROVE  Work(T)'
<1>1. ASSUME NEW t \in Tasks, live[t] # None PROVE CopyOf(t) \in RestCopy(T)
  <2>1. CopyOf(t) \in LiveCopy
    BY <1>1 DEF PipelineTypeOK, DbTypeOK, LiveCopy, CopyOf
  <2>2. CopyOf(t) \in TaskCopy
    BY <2>1, LiveCopyIsTaskCopy
  <2>. QED
    BY <1>1, <2>2 DEF RestCopy, CopyOf, Work, RunningIn
<1>2. niqBatch' \subseteq RestCopy(T)
  BY <1>1 DEF NiqFetch, NotInQueue
<1>. QED
  BY <1>2 DEF Work, RunningIn, NiqFetch, dbVars, channelVars, pendVars, runVars

\* PendingQueue takes a task only when it is one of T.
AdmittedIn(T) == \A c \in niqBatch : NiqPush(c) => c.id \in T \/ UNCHANGED pendingQueue

LEMMA NiqPushWork ==
    ASSUME PipelineTypeOK, NEW T, Work(T), AdmittedIn(T), NEW c \in niqBatch, NiqPush(c)
    PROVE  Work(T)'
<1>1. c \in LiveCopy /\ c \in RestCopy(T) /\ c.id \in Tasks
  BY DEF PipelineTypeOK, Work, LiveCopy
<1>2. ASSUME NEW s \in TaskStatuses, s \in RunningStatuses => c.id \in T
      PROVE  WithStatus(c, s) \in RestCopy(T) /\ (c.id \in T => WithStatus(c, s) \in WorkCopy(T))
  <2>1. WithStatus(c, s) \in TaskCopy
    BY <1>1, WithStatusType DEF LiveCopy, TaskCopy
  <2>2. WithStatus(c, s).id = c.id /\ WithStatus(c, s).row.status = s
    BY <1>1 DEF WithStatus, LiveCopy, RowOver
  <2>. QED
    BY <1>2, <2>1, <2>2 DEF RestCopy, WorkCopy
<1>3. {PendingInQueue, RunningInQueue, Scanned, Aborted} \subseteq TaskStatuses
      /\ Scanned \notin RunningStatuses /\ Aborted \notin RunningStatuses
      /\ PendingInQueue \notin RunningStatuses
  BY DEF TaskStatuses, LiveStatuses, FinalStatuses, RunningStatuses, Scanned, Aborted,
         RunningNotInQueue, RunningInQueue, PendingInQueue
<1>. DEFINE Kept == /\ pendingQueue' \in Seq(WorkCopy(T)) /\ runningQueue' \in Seq(WorkCopy(T))
                    /\ logQueue' \in Seq(RestCopy(T)) /\ WriteIn(niqWrite', T)
<1>4. ASSUME NEW s \in TaskStatuses, s \in RunningStatuses => c.id \in T, NiqToLog(c, s)
      PROVE  Kept
  <2>1. Append(logQueue, WithStatus(c, s)) \in Seq(RestCopy(T))
    BY <1>2, <1>4, AppendProperties DEF Work
  <2>2. WriteIn(niqWrite', T)
    BY <1>4 DEF NiqToLog, WriteDue, WriteIn
  <2>. QED
    BY <1>4, <2>1, <2>2 DEF NiqToLog, Pushed, Push, Work
<1>5. ASSUME NiqRelog(c) PROVE Kept
  <2>1. RequeueStatus(c.row.status) \in TaskStatuses
    BY <1>1 DEF RequeueStatus, LiveCopy, RowOver, TaskStatuses, LiveStatuses
  <2>2. RequeueStatus(c.row.status) \in RunningStatuses => c.row.status \in RunningStatuses
    BY DEF RequeueStatus, RunningStatuses, PendingNotInQueue, RunningNotInQueue, RunningInQueue
  <2>. QED
    BY <1>1, <1>4, <1>5, <2>1, <2>2 DEF NiqRelog, RestCopy
<1>6. ASSUME NiqScanFound(c) PROVE Kept
  BY <1>3, <1>4, <1>6 DEF NiqScanFound
<1>7. ASSUME NiqAdmit(c) /\ NiqToLog(c, Aborted) PROVE Kept
  BY <1>3, <1>4, <1>7
<1>8. ASSUME NiqAdmit(c) /\ NiqToPending(c) PROVE Kept
  <2>1. ASSUME c.id \in T PROVE Kept
    <3>1. Append(pendingQueue, WithStatus(c, PendingInQueue)) \in Seq(WorkCopy(T))
      BY <1>2, <1>3, <2>1, AppendProperties DEF Work
    <3>2. WriteIn(niqWrite', T)
      BY <1>8, <2>1 DEF NiqToPending, WriteDue, WriteIn
    <3>. QED
      BY <1>8, <3>1, <3>2 DEF NiqToPending, Pushed, Push, Work
  <2>2. ASSUME UNCHANGED pendingQueue PROVE Kept
    <3>1. WriteIn(niqWrite', T)
      BY <1>3, <1>8 DEF NiqToPending, WriteDue, WriteIn
    <3>. QED
      BY <1>8, <2>2, <3>1 DEF NiqToPending, Work
  <2>. QED
    BY <2>1, <2>2 DEF AdmittedIn
<1>9. ASSUME NiqResume(c) PROVE Kept
  <2>1. c.id \in T
    BY <1>1, <1>9 DEF NiqResume, RestCopy, RunningStatuses
  <2>2. Append(runningQueue, WithStatus(c, RunningInQueue)) \in Seq(WorkCopy(T))
    BY <1>2, <1>3, <2>1, AppendProperties DEF Work
  <2>3. WriteIn(niqWrite', T)
    BY <1>9, <2>1 DEF NiqResume, NiqToRunning, WriteDue, WriteIn
  <2>. QED
    BY <1>9, <2>2, <2>3 DEF NiqResume, NiqToRunning, Pushed, Push, Work
<1>10. Kept
  BY <1>5, <1>6, <1>7, <1>8, <1>9 DEF NiqPush, NiqAdmit
<1>. QED
  BY <1>10 DEF NiqPush, Work, RunningIn, dbVars, pendVars, runVars

LEMMA NiqUpdateWork ==
    ASSUME PipelineTypeOK, NEW T, Work(T), NiqUpdate
    PROVE  Work(T)'
<1>1. niqWrite \in [id : Tasks, status : LiveStatuses \cup {None}]
  BY DEF PipelineTypeOK, NiqUpdate
<1>2. live \in [Tasks -> RowOver(LiveStatuses) \cup {None}]
  BY DEF PipelineTypeOK, DbTypeOK
<1>3. RunningIn(AppliedWrite(live, niqWrite), T)
  BY <1>1, <1>2 DEF NiqUpdate, AppliedWrite, SetStatus, ClearLogQueueFailed, RunningIn, RowOver,
                    Work, WriteIn
<1>4. RunningIn(live', T)
  BY <1>3 DEF NiqUpdate, Work, RunningIn
<1>. QED
  BY <1>4 DEF NiqUpdate, Work, WriteIn, channelVars, pendVars, runVars

LEMMA PendFetchWork ==
    ASSUME PipelineTypeOK, NEW T, Work(T), PendFetch
    PROVE  Work(T)'
<1>1. PICK ok \in ListOutcomes :
        /\ NotReported(ok) < MaxFreeVms
        /\ pendBatch' = Taken(pendingQueue, MaxFreeVms - NotReported(ok))
        /\ pendingQueue' = Left(pendingQueue, MaxFreeVms - NotReported(ok))
  BY DEF PendFetch
<1>2. MaxFreeVms - NotReported(ok) \in Nat
  BY <1>1, FreeVmsType
<1>3. pendBatch' \in Seq(WorkCopy(T)) /\ pendingQueue' \in Seq(WorkCopy(T))
  BY <1>1, <1>2, TakenLeftType DEF Work
<1>. QED
  BY <1>3 DEF PendFetch, Work, RunningIn, dbVars, niqVars, runVars

\* The next copy of a batch.
LEMMA HeadWork ==
    ASSUME NEW T, NEW q \in Seq(LiveCopy), q \in Seq(WorkCopy(T)), q # <<>>
    PROVE  /\ Head(q) \in LiveCopy /\ Head(q).id \in T /\ Head(q) \in WorkCopy(T)
           /\ Tail(q) \in Seq(WorkCopy(T))
BY HeadTailProperties DEF WorkCopy

LEMMA PendGiveUpWork ==
    ASSUME PipelineTypeOK, NEW T, Work(T), PendGiveUp
    PROVE  Work(T)'
<1>1. /\ Head(pendBatch) \in LiveCopy /\ Head(pendBatch).id \in T
      /\ Tail(pendBatch) \in Seq(WorkCopy(T))
  BY HeadWork DEF Work, PipelineTypeOK, PendGiveUp
<1>2. logQueue' \in Seq(RestCopy(T)) /\ RunningIn(live', T)
  BY <1>1, ChangeStatusWork DEF PendGiveUp, TaskStatuses, FinalStatuses
<1>. QED
  BY <1>1, <1>2 DEF PendGiveUp, Work, niqVars, runVars

LEMMA PendSpawnWork ==
    ASSUME PipelineTypeOK, NEW T, Work(T), NEW s \in 1 .. MaxSubmitters, PendSpawn(s)
    PROVE  Work(T)'
<1>1. Head(pendBatch) \in WorkCopy(T) /\ Tail(pendBatch) \in Seq(WorkCopy(T))
  BY HeadTailProperties DEF Work, PendSpawn
<1>2. \A r \in 1 .. MaxSubmitters : submitters'[r] # None => submitters'[r].copy \in WorkCopy(T)
  BY <1>1 DEF PendSpawn, Work, PipelineTypeOK
<1>. QED
  BY <1>1, <1>2 DEF PendSpawn, Work, RunningIn, dbVars, channelVars, niqVars, runVars

LEMMA SubmitAcceptedWork ==
    ASSUME PipelineTypeOK, NEW T, Work(T), NEW s \in 1 .. MaxSubmitters, SubmitAccepted(s)
    PROVE  Work(T)'
<1>. DEFINE c  == submitters[s].copy
            c2 == [c EXCEPT !.row.sandboxId = NextSandboxId]
            st == IF HasRoom(runningQueue, RunningCapacity)
                  THEN RunningInQueue ELSE RunningNotInQueue
<1>1. c2 \in WorkCopy(T)
  <2>1. c \in LiveCopy /\ c.id \in T
    BY SubmitterType DEF SubmitAccepted, Sending, Work, WorkCopy
  <2>2. NextSandboxId \in Nat
    BY DEF NextSandboxId, PipelineTypeOK
  <2>3. c2 \in TaskCopy /\ c2.id = c.id
    BY <2>1, <2>2 DEF LiveCopy, TaskCopy, RowOver, TaskStatuses
  <2>. QED
    BY <2>1, <2>3 DEF WorkCopy
<1>2. /\ runningQueue' = Append(runningQueue, c2) \/ runningQueue' = runningQueue
      /\ submitters' = [submitters EXCEPT ![s] =
                          [stage |-> "logging", copy |-> c2, status |-> st]]
  BY DEF SubmitAccepted
<1>. HIDE DEF c2, st
<1>3. runningQueue' \in Seq(WorkCopy(T))
  <2>1. Append(runningQueue, c2) \in Seq(WorkCopy(T))
    BY <1>1, AppendProperties DEF Work
  <2>. QED
    BY <1>2, <2>1 DEF Work
<1>4. \A r \in 1 .. MaxSubmitters : submitters'[r] # None => submitters'[r].copy \in WorkCopy(T)
  BY <1>1, <1>2 DEF Work, PipelineTypeOK
<1>. QED
  BY <1>3, <1>4 DEF SubmitAccepted, Work, RunningIn, dbVars, niqVars, runVars

LEMMA SubmitterGoneWork ==
    ASSUME PipelineTypeOK, NEW T, Work(T), NEW s \in 1 .. MaxSubmitters,
           submitters' = [submitters EXCEPT ![s] = None]
    PROVE  \A r \in 1 .. MaxSubmitters : submitters'[r] # None => submitters'[r].copy \in WorkCopy(T)
BY DEF Work, PipelineTypeOK

LEMMA SubmitLoggedWork ==
    ASSUME PipelineTypeOK, NEW T, Work(T), NEW s \in 1 .. MaxSubmitters, SubmitLogged(s)
    PROVE  Work(T)'
<1>1. /\ submitters[s].copy \in LiveCopy /\ submitters[s].copy.id \in T
      /\ submitters[s].status \in TaskStatuses
  BY SubmitterType DEF SubmitLogged, Work, WorkCopy, TaskStatuses
<1>2. logQueue' \in Seq(RestCopy(T)) /\ RunningIn(live', T)
  BY <1>1, ChangeStatusWork DEF SubmitLogged
<1>3. \A r \in 1 .. MaxSubmitters : submitters'[r] # None => submitters'[r].copy \in WorkCopy(T)
  BY SubmitterGoneWork DEF SubmitLogged
<1>. QED
  BY <1>2, <1>3 DEF SubmitLogged, Work, niqVars, runVars

LEMMA SubmitFailedWork ==
    ASSUME PipelineTypeOK, NEW T, Work(T), NEW s \in 1 .. MaxSubmitters, SubmitFailed(s)
    PROVE  Work(T)'
<1>. DEFINE c == Retried(submitters[s].copy)
            c2 == [c EXCEPT !.row.queueRetryCount = @ + 1]
            Kept == /\ pendingQueue' \in Seq(WorkCopy(T)) /\ logQueue' \in Seq(RestCopy(T))
                    /\ RunningIn(live', T)
<1>1. submitters[s].copy \in LiveCopy /\ submitters[s].copy.id \in T
  BY SubmitterType DEF SubmitFailed, Sending, Work, WorkCopy
<1>2. c \in LiveCopy /\ c.id \in T
  BY <1>1, CountedType DEF Retried, LiveCopy
<1>3. c2 \in LiveCopy /\ c2.id \in T
  BY <1>2, CountedType DEF LiveCopy
<1>4. PendingNotInQueue \in LiveStatuses /\ PendingNotInQueue \in TaskStatuses
      /\ Aborted \in TaskStatuses
  BY DEF LiveStatuses, TaskStatuses, FinalStatuses
<1>5. Kept
  <2>. HIDE DEF c, c2
  <2>1. CASE ChangeStatusAndPushToLogQueue(c, Aborted) /\ UNCHANGED pendingQueue
    BY <1>2, <1>4, <2>1, ChangeStatusWork DEF Work
  <2>2. CASE /\ pendingQueue' = Append(pendingQueue, c)
             /\ UNCHANGED <<logQueue, live, faults>>
    <3>1. c \in WorkCopy(T)
      BY <1>2, LiveCopyIsTaskCopy DEF WorkCopy
    <3>. QED
      BY <2>2, <3>1, AppendProperties DEF Work, RunningIn
  <2>3. CASE SubmitRetryThroughLog(c2) /\ UNCHANGED pendingQueue
    <3>1. WithStatus(c2, PendingNotInQueue) \in LiveCopy /\ WithStatus(c2, PendingNotInQueue).id \in T
      BY <1>3, <1>4, WithStatusType DEF LiveCopy, WithStatus
    <3>. QED
      BY <1>3, <1>4, <2>3, <3>1, ChangeStatusWork DEF SubmitRetryThroughLog, Work
  <2>. USE DEF c, c2
  <2>. QED
    BY <2>1, <2>2, <2>3 DEF SubmitFailed
<1>6. \A r \in 1 .. MaxSubmitters : submitters'[r] # None => submitters'[r].copy \in WorkCopy(T)
  BY SubmitterGoneWork DEF SubmitFailed
<1>. QED
  BY <1>5, <1>6 DEF SubmitFailed, Work, niqVars, runVars

LEMMA RunFetchWork ==
    ASSUME NEW T, Work(T), RunFetch
    PROVE  Work(T)'
<1>1. runBatch' \in Seq(WorkCopy(T)) /\ runningQueue' \in Seq(WorkCopy(T))
  BY DEF RunFetch, Work
<1>. QED
  BY <1>1 DEF RunFetch, Work, RunningIn, dbVars, niqVars, pendVars

LEMMA RunCheckWork ==
    ASSUME PipelineTypeOK, NEW T, Work(T), RunCheck
    PROVE  Work(T)'
<1>. DEFINE c == Head(runBatch)
            Kept == /\ runningQueue' \in Seq(WorkCopy(T)) /\ logQueue' \in Seq(RestCopy(T))
                    /\ RunningIn(live', T)
<1>1. c \in LiveCopy /\ c.id \in T /\ c \in WorkCopy(T) /\ Tail(runBatch) \in Seq(WorkCopy(T))
  BY HeadWork DEF RunCheck, Work, PipelineTypeOK
<1>2. Append(runningQueue, c) \in Seq(WorkCopy(T))
  BY <1>1, AppendProperties DEF Work
<1>3. {Reported, Aborted, RunningNotInQueue} \subseteq TaskStatuses
  BY DEF TaskStatuses, FinalStatuses, LiveStatuses
<1>4. Kept
  <2>1. ASSUME NEW s \in {Reported, Aborted, RunningNotInQueue},
               ChangeStatusAndPushToLogQueue(c, s), UNCHANGED runningQueue
        PROVE  Kept
    BY <1>1, <1>3, <2>1, ChangeStatusWork DEF Work
  <2>2. ASSUME NEW ok \in BOOLEAN, LogStateBecomes(LogNotFound(LogState, c, ok)),
               UNCHANGED runningQueue
        PROVE  Kept
    BY <1>1, <2>2, LogNotFoundWork DEF LogStateBecomes, WorkLog, Work
  <2>3. ASSUME runningQueue' = Append(runningQueue, c), UNCHANGED <<logQueue, live, faults>>
        PROVE  Kept
    BY <1>2, <2>3 DEF Work, RunningIn
  <2>. QED
    BY <2>1, <2>2, <2>3 DEF RunCheck
<1>. QED
  BY <1>1, <1>4 DEF RunCheck, Work, niqVars, pendVars

LEMMA LogStatusWork ==
    ASSUME PipelineTypeOK, NEW T, Work(T), LogStatus
    PROVE  Work(T)'
<1>1. Head(logQueue) \in RestCopy(T) /\ Tail(logQueue) \in Seq(RestCopy(T))
  BY HeadTailProperties DEF LogStatus, Work
<1>2. Head(logQueue).row \in RowOver(TaskStatuses)
  BY <1>1 DEF RestCopy, TaskCopy
<1>3. live \in [Tasks -> RowOver(LiveStatuses) \cup {None}]
  BY DEF PipelineTypeOK, DbTypeOK
<1>4. RunningIn(WriteRow(live, Head(logQueue).id, Head(logQueue).row), T)
  BY <1>1, <1>2, <1>3 DEF WriteRow, RunningIn, RestCopy, RowOver, Work
<1>5. RunningIn(live', T)
  BY <1>4 DEF LogStatus, Work
<1>. QED
  BY <1>1, <1>5 DEF LogStatus, Work, niqVars, pendVars, runVars

LEMMA LogCommitWork ==
    ASSUME PipelineTypeOK, NEW T, Work(T), LogCommit
    PROVE  Work(T)'
<1>1. Tail(logQueue) \in Seq(RestCopy(T))
  BY HeadTailProperties DEF LogCommit, Work
<1>2. PromotedRow.status \notin RunningStatuses
  BY DEF PromotedRow, NewLiveRow, RunningStatuses, PendingNotInQueue, RunningNotInQueue,
         RunningInQueue
<1>3. RunningIn(live', T)
  <2>1. \A D : RunningIn(LiveAfterFinish(Head(logQueue).id, D), T)
    BY <1>2 DEF LiveAfterFinish, RunningIn, Work
  <2>. QED
    BY <2>1 DEF LogCommit, Finish, Abort, RunningIn, Work
<1>. QED
  BY <1>1, <1>3 DEF LogCommit, Work, niqVars, pendVars, runVars

LEMMA RestartWork ==
    ASSUME PipelineTypeOK, NEW T, Work(T), NEW rebooted \in BOOLEAN, Restart(rebooted)
    PROVE  Work(T)'
<1>1. RunningIn(live', T)
  <2>. SUFFICES ASSUME NEW t \in Tasks, live'[t] # None, live'[t].status \in RunningStatuses
                PROVE  t \in T
    BY DEF RunningIn
  <2>1. live[t] # None /\ live'[t] = [live[t] EXCEPT !.status = Recovered(@, rebooted)]
    BY DEF Restart, ResetQueueDb
  <2>2. live[t] \in RowOver(LiveStatuses)
    BY <2>1 DEF PipelineTypeOK, DbTypeOK
  <2>3. live'[t].status = Recovered(live[t].status, rebooted)
    BY <2>1, <2>2 DEF RowOver
  <2>4. live[t].status \in RunningStatuses
    BY <2>2, <2>3 DEF Recovered, RunningStatuses, LiveStatuses, RowOver, PendingNotInQueue,
                      PendingInQueue, RunningNotInQueue, RunningInQueue
  <2>. QED
    BY <2>1, <2>4 DEF Work, RunningIn
<1>. QED
  BY <1>1 DEF Restart, Work, WriteIn
LEMMA WorkStays ==
    ASSUME PipelineTypeOK, NEW T, Work(T), AdmittedIn(T), [PipelineNext]_pipelineVars
    PROVE  Work(T)'
<1>1. CASE NiqNext
  BY <1>1, NiqFetchWork, NiqPushWork, NiqUpdateWork DEF NiqNext
<1>2. CASE PendNext
  BY <1>2, PendFetchWork, PendGiveUpWork, PendSpawnWork DEF PendNext
<1>3. CASE RunNext
  <2>1. CASE RunList
    BY <2>1 DEF RunList, Work, RunningIn, dbVars, channelVars, niqVars, pendVars
  <2>. QED
    BY <1>3, <2>1, RunFetchWork, RunCheckWork DEF RunNext
<1>4. CASE LogNext
  <2>1. CASE LogPrepare
    BY <2>1 DEF LogPrepare, Work, RunningIn, dbVars, channelVars, niqVars, pendVars, runVars
  <2>. QED
    BY <1>4, <2>1, LogCommitWork, LogStatusWork DEF LogNext
<1>5. CASE DeleteNext
  BY <1>5 DEF DeleteNext, DeleteLocalTask, DeleteSandboxData, Work, RunningIn, dbVars,
              channelVars, niqVars, pendVars, runVars
<1>6. CASE \E s \in 1 .. MaxSubmitters : SubmitNext(s)
  BY <1>6, SubmitAcceptedWork, SubmitFailedWork, SubmitLoggedWork DEF SubmitNext
<1>7. CASE \E i \in 1 .. MaxSandboxTasks : SandboxNext(i)
  BY <1>7 DEF SandboxNext, SandboxSettles, Work, RunningIn, dbVars, channelVars, niqVars,
              pendVars, runVars
<1>8. CASE \E rebooted \in BOOLEAN : Restart(rebooted)
  BY <1>8, RestartWork
<1>9. CASE UNCHANGED pipelineVars
  BY <1>9 DEF Work, RunningIn, pipelineVars, dbVars, channelVars, niqVars, pendVars, runVars
<1>. QED
  BY <1>1, <1>2, <1>3, <1>4, <1>5, <1>6, <1>7, <1>8, <1>9 DEF PipelineNext

LEMMA TasksFinite ==
    ASSUME NEW S, S \subseteq Tasks
    PROVE  IsFiniteSet(S) /\ Cardinality(S) \in Nat
<1>1. IsFiniteSet(Tasks)
  BY DbAssumption, FS_Interval DEF Tasks
<1>. QED
  BY <1>1, FS_Subset, FS_CardinalityType

LEMMA FewerTasks ==
    ASSUME NEW S, S \subseteq Tasks, NEW R, R \subseteq S, Cardinality(S) < MaxFreeVms
    PROVE  Cardinality(R) < MaxFreeVms
<1>1. IsFiniteSet(S) /\ Cardinality(S) \in Nat /\ Cardinality(R) \in Nat
  BY TasksFinite
<1>2. Cardinality(R) <= Cardinality(S)
  BY <1>1, FS_Subset
<1>3. MaxFreeVms \in Nat
  BY PipelineAssumption
<1>. QED
  BY <1>1, <1>2, <1>3

LEMMA InitAdmission == PipelineInit => AdmissionInv
<1>. SUFFICES ASSUME PipelineInit PROVE AdmissionInv
  OBVIOUS
<1>1. ServedInv
  BY InitServed
<1>2. RunningIn(live, {})
  <2>1. \A g : NewLiveRow(g).status \notin RunningStatuses
    BY DEF NewLiveRow, RunningStatuses, PendingNotInQueue, RunningNotInQueue, RunningInQueue
  <2>2. \A t \in Tasks : live[t] # None => \E g : live[t] = NewLiveRow(g)
    BY DEF PipelineInit
  <2>. QED
    BY <2>1, <2>2 DEF RunningIn
<1>3. Work({})
  BY <1>2 DEF Work, WriteIn, PipelineInit, EmptyMemory
<1>4. Cardinality({} \cap LiveTasks) < MaxFreeVms
  <2>1. Cardinality({}) = 0
    BY FS_EmptySet
  <2>2. MaxFreeVms \in Nat \ {0}
    BY PipelineAssumption
  <2>3. {} \cap LiveTasks = {}
    OBVIOUS
  <2>. QED
    BY <2>1, <2>2, <2>3
<1>. QED
  BY <1>1, <1>3, <1>4 DEF AdmissionInv, ServedInv

LEMMA NextAdmission ==
    ASSUME AdmissionInv, "statement" \notin FaultKinds, [PipelineNext]_pipelineVars
    PROVE  AdmissionInv'
<1>1. OnePlaceInv' /\ Holds(HashCopy)' /\ KnownIds \subseteq KnownIds'
  BY NextHash, KnownIdsGrow DEF AdmissionInv
<1>2. PICK T \in SUBSET KnownIds : Work(T) /\ Cardinality(T \cap LiveTasks) < MaxFreeVms
  BY DEF AdmissionInv
<1>3. PipelineTypeOK
  BY DEF AdmissionInv, OnePlaceInv
<1>4. LiveTasks \subseteq Tasks /\ KnownIds \subseteq Tasks
  BY DEF LiveTasks, KnownIds
<1>. DEFINE Admits(c) == NiqPush(c) /\ c.row.status = PendingNotInQueue
                         /\ Cardinality(LiveTasks) < MaxFreeVms
<1>5. ASSUME NEW c \in niqBatch, NiqPush(c), ~Admits(c) PROVE UNCHANGED pendingQueue
  <2>1. ASSUME NiqAdmit(c) PROVE NiqToLog(c, Aborted)
    <3>1. ~(Cardinality(LiveTasks) < MaxFreeVms)
      BY <1>5, <2>1 DEF NiqAdmit
    <3>2. Cardinality(LiveTasks) \in Nat /\ MaxFreeVms \in Nat
      BY <1>4, TasksFinite, PipelineAssumption
    <3>3. LiveTaskCount(TRUE) >= MaxFreeVms
      BY <3>1, <3>2 DEF LiveTaskCount
    <3>. QED
      BY <2>1, <3>3 DEF NiqAdmit, Statement
  <2>. QED
    BY <1>5, <2>1 DEF NiqPush, NiqRelog, NiqScanFound, NiqResume, NiqToLog, NiqToRunning
<1>6. CASE \A c \in niqBatch : ~Admits(c)
  <2>1. AdmittedIn(T)
    BY <1>5, <1>6 DEF AdmittedIn
  <2>2. Work(T)'
    BY <1>2, <1>3, <2>1, WorkStays
  <2>3. (T \cap LiveTasks') \subseteq T \cap LiveTasks
    <3>1. \A t \in Tasks : live'[t] # None => live[t] # None \/ (LogCommit /\ t \in logRead.dups)
      BY <1>1, RowsStep DEF AdmissionInv
    <3>2. LogCommit => \A t \in logRead.dups : t \notin KnownIds
      BY DEF AdmissionInv, LogCommit, OnePlaceInv, CopiesKnown, KnownIds
    <3>. QED
      BY <1>2, <3>1, <3>2 DEF LiveTasks
  <2>4. Cardinality(T \cap LiveTasks') < MaxFreeVms
    <3>1. T \cap LiveTasks \subseteq Tasks
      BY <1>4
    <3>. QED
      BY <1>2, <2>3, <3>1, FewerTasks
  <2>5. T \in SUBSET KnownIds'
    BY <1>1, <1>2
  <2>. QED
    BY <1>1, <2>2, <2>4, <2>5 DEF AdmissionInv
<1>7. CASE \E c \in niqBatch : Admits(c)
  <2>1. PICK c \in niqBatch : Admits(c)
    BY <1>7
  <2>2. PICK U : U = T \cup {c.id}
    OBVIOUS
  <2>3. U \in SUBSET KnownIds
    BY <1>2, <2>2 DEF AdmissionInv, OnePlaceInv, CopiesKnown, KnownCopy
  <2>4. \A d \in niqBatch : NiqPush(d) => d = c
    BY <2>1 DEF NiqPush
  <2>5. Work(U) /\ AdmittedIn(U)
    BY <1>2, <2>2, <2>4, WorkGrows DEF AdmittedIn
  <2>6. Work(U)'
    BY <1>3, <2>5, WorkStays
  <2>7. LiveTasks' = LiveTasks
    BY <2>1 DEF NiqPush, dbVars, LiveTasks
  <2>8. Cardinality(U \cap LiveTasks') < MaxFreeVms
    <3>1. U \cap LiveTasks' \subseteq LiveTasks
      BY <2>7
    <3>. QED
      BY <1>4, <2>1, <3>1, FewerTasks
  <2>9. U \in SUBSET KnownIds'
    BY <1>1, <2>3
  <2>. QED
    BY <1>1, <2>6, <2>8, <2>9 DEF AdmissionInv
<1>. QED
  BY <1>6, <1>7

LEMMA AdmissionInvBounds == AdmissionInv => AdmissionBounded
<1>. SUFFICES ASSUME AdmissionInv PROVE AdmissionBounded
  OBVIOUS
<1>1. PICK T \in SUBSET KnownIds : Work(T) /\ Cardinality(T \cap LiveTasks) < MaxFreeVms
  BY DEF AdmissionInv
<1>2. ASSUME NEW q \in Seq(WorkCopy(T)), NEW t, Carries(q, t) PROVE t \in T
  <2>1. PICK i \in DOMAIN q : q[i].id = t
    BY <1>2 DEF Carries
  <2>2. i \in 1 .. Len(q)
    OBVIOUS
  <2>3. q[i] \in WorkCopy(T)
    BY <2>2, ElementOfSeq
  <2>. QED
    BY <2>1, <2>3 DEF WorkCopy
<1>3. \A s \in 1 .. MaxSubmitters : Sending(s) => submitters[s].copy.id \in T
  BY <1>1 DEF Sending, Work, WorkCopy
<1>4. WorkingTasks \subseteq T \cap LiveTasks
  BY <1>1, <1>2, <1>3 DEF WorkingTasks, Work
<1>5. T \cap LiveTasks \subseteq Tasks
  BY DEF LiveTasks
<1>. QED
  BY <1>1, <1>4, <1>5, FewerTasks DEF AdmissionBounded

\* Fewer than MAX_FREE_VMS live tasks are on their way to the sandbox or in it,
\* although NotInQueueHandler counts rows before it pushes and the tasks it
\* admitted earlier move meanwhile; a restart puts them back and the bound
\* still holds.  Only a count that fails, and is then taken for zero
\* (fetchLiveTaskCount), admits a task too many.
THEOREM AdmissionIsBounded ==
    ASSUME "statement" \notin FaultKinds
    PROVE  PipelineSpec => []AdmissionBounded
<1>1. PipelineInit => AdmissionInv
  BY InitAdmission
<1>2. AdmissionInv /\ [PipelineNext]_pipelineVars => AdmissionInv'
  BY NextAdmission
<1>3. AdmissionInv => AdmissionBounded
  BY AdmissionInvBounds
<1>. QED
  BY <1>1, <1>2, <1>3, PTL DEF PipelineSpec

-----------------------------------------------------------------------------
(* One claim on a task.  A task is in one place: in its row, where only     *)
(* NotInQueueHandler sees it, in one of the queues, batches and goroutines  *)
(* on its way to the sandbox, in a log entry that hands it back or settles  *)
(* it, or away from the live table.  Everything else that carries its id is *)
(* without consequence: the row while an UPDATE is due, and log entries     *)
(* that confirm a status or come too late.                                  *)

Places == {"row", "pending", "pendBatch", "submitter", "running", "runBatch", "back", "final",
           "away"}

IdleStatuses == {PendingNotInQueue, RunningNotInQueue}

\* The copies of q are in place p, one of a task at most.
Sole(q, p, P) ==
    \A i \in 1 .. Len(q) :
        /\ P[q[i].id] = p
        /\ \A j \in 1 .. Len(q) : q[j].id = q[i].id => j = i

\* A goroutine that is to submit its task or to hand it back.
Claims(g) == g # None /\ (g.stage = "sending" \/ g.status = RunningNotInQueue)

SoleSubmitter(S, P) ==
    \A s \in 1 .. MaxSubmitters : Claims(S[s]) =>
        /\ P[S[s].copy.id] = "submitter"
        /\ \A r \in 1 .. MaxSubmitters :
              Claims(S[r]) /\ S[r].copy.id = S[s].copy.id => r = s

SoleFetched(B, P) ==
    \A c \in B : /\ P[c.id] = "row"
                 /\ c.row.status \in IdleStatuses /\ ~ c.row.logQueueFailed
                 /\ \A d \in B : d.id = c.id => d = c

Settles(c) == c.row.status \in FinalStatuses
Returns(c) == c.row.status \in IdleStatuses

\* One entry at most settles a task.  An entry that would hand it back is the only
\* claim, or comes after the entry that settles it, or is about a settled file.
SoleEntry(q, P) ==
    \A i \in 1 .. Len(q) :
        /\ Settles(q[i]) =>
              /\ P[q[i].id] = "final"
              /\ \A j \in 1 .. Len(q) : q[j].id = q[i].id /\ Settles(q[j]) => j = i
        /\ Returns(q[i]) =>
              \/ P[q[i].id] = "away"
              \/ \E j \in 1 .. i - 1 : q[j].id = q[i].id /\ Settles(q[j])
              \/ /\ P[q[i].id] = "back"
                 /\ \A j \in 1 .. Len(q) : q[j].id = q[i].id /\ Returns(q[j]) => j = i

\* NotInQueueHandler may fetch a row only when nothing else has a claim on it, or
\* after its own UPDATE.
RowsIdle(table, w, P) ==
    \A t \in Tasks :
        /\ table[t] = None <=> P[t] = "away"
        /\ table[t] # None /\ table[t].status \in IdleStatuses =>
              P[t] = "row" \/ (w # None /\ w.id = t)

\* An UPDATE that is due takes a row out of its reach.
WriteBusy(w) == w # None => w.status # None /\ w.status \notin IdleStatuses

LoggingSubmitters(S) ==
    \A s \in 1 .. MaxSubmitters : S[s] # None /\ S[s].stage = "logging" =>
        S[s].status \in {RunningInQueue, RunningNotInQueue}

Placed(P) ==
    /\ Sole(pendingQueue, "pending", P) /\ Sole(pendBatch, "pendBatch", P)
    /\ Sole(runningQueue, "running", P) /\ Sole(runBatch, "runBatch", P)
    /\ SoleSubmitter(submitters, P) /\ SoleFetched(niqBatch, P) /\ SoleEntry(logQueue, P)
    /\ RowsIdle(live, niqWrite, P)

Unfailing == WriteBusy(niqWrite) /\ LoggingSubmitters(submitters)

PlaceInv == Unfailing /\ \E P \in [Tasks -> Places] : Placed(P)

\* Only t has another place.
Moved(P, R, t) ==
    /\ P \in [Tasks -> Places] /\ R \in [Tasks -> Places]
    /\ \A u \in Tasks : u # t => R[u] = P[u]

LEMMA SomeMove ==
    ASSUME NEW P \in [Tasks -> Places], NEW t \in Tasks, NEW p \in Places
    PROVE  \E R : Moved(P, R, t) /\ R[t] = p
<1>. DEFINE R == [P EXCEPT ![t] = p]
<1>1. Moved(P, R, t) /\ R[t] = p
  BY DEF Moved
<1>. QED
  BY <1>1

-----------------------------------------------------------------------------
(* Queues and batches.                                                      *)

LEMMA CopiesOf ==
    ASSUME NEW q \in Seq(TaskCopy)
    PROVE  Len(q) \in Nat /\ \A i \in 1 .. Len(q) : q[i] \in TaskCopy /\ q[i].id \in Tasks
<1>1. \A i \in 1 .. Len(q) : q[i] \in TaskCopy
  BY ElementOfSeq
<1>. QED
  BY <1>1 DEF TaskCopy

LEMMA SoleElsewhere ==
    ASSUME NEW q \in Seq(TaskCopy), NEW p, NEW P, NEW R, NEW t \in Tasks, Moved(P, R, t),
           Sole(q, p, P), P[t] # p
    PROVE  Sole(q, p, R)
<1>1. \A i \in 1 .. Len(q) : q[i].id \in Tasks /\ q[i].id # t
  BY CopiesOf DEF Sole
<1>. QED
  BY <1>1 DEF Sole, Moved

LEMMA SoleTail ==
    ASSUME NEW q \in Seq(TaskCopy), NEW p, NEW P, NEW R, q # <<>>,
           Moved(P, R, Head(q).id), Sole(q, p, P)
    PROVE  P[Head(q).id] = p /\ Sole(Tail(q), p, R)
<1>1. Len(q) \in Nat /\ Len(q) > 0 /\ Head(q) = q[1]
  BY EmptySeq
<1>2. /\ Len(Tail(q)) = Len(q) - 1
      /\ \A i \in 1 .. Len(Tail(q)) : Tail(q)[i] = q[i + 1]
  BY HeadTailProperties
<1>3. \A i \in 1 .. Len(q) : q[i].id \in Tasks /\ (q[i].id = q[1].id => i = 1)
  BY <1>1, CopiesOf DEF Sole
<1>4. P[Head(q).id] = p
  BY <1>1 DEF Sole
<1>5. ASSUME NEW i \in 1 .. Len(Tail(q))
      PROVE  /\ R[Tail(q)[i].id] = p
             /\ \A j \in 1 .. Len(Tail(q)) : Tail(q)[j].id = Tail(q)[i].id => j = i
  <2>1. i + 1 \in 1 .. Len(q) /\ q[i + 1].id # q[1].id /\ q[i + 1].id \in Tasks
    BY <1>1, <1>2, <1>3
  <2>2. R[q[i + 1].id] = p
    BY <1>1, <2>1 DEF Moved, Sole
  <2>3. ASSUME NEW j \in 1 .. Len(Tail(q)), q[j + 1].id = q[i + 1].id PROVE j = i
    <3>1. j + 1 \in 1 .. Len(q)
      BY <1>1, <1>2
    <3>2. j + 1 = i + 1
      BY <2>1, <2>3, <3>1 DEF Sole
    <3>. QED
      BY <3>2
  <2>. QED
    BY <1>2, <2>2, <2>3
<1>. QED
  BY <1>4, <1>5 DEF Sole

LEMMA SoleAppend ==
    ASSUME NEW q \in Seq(TaskCopy), NEW c \in TaskCopy, NEW p, NEW P, NEW R,
           Moved(P, R, c.id), Sole(q, p, P), P[c.id] # p, R[c.id] = p
    PROVE  Sole(Append(q, c), p, R)
<1>1. /\ Len(Append(q, c)) = Len(q) + 1 /\ Len(q) \in Nat
      /\ \A i \in 1 .. Len(q) : Append(q, c)[i] = q[i]
      /\ Append(q, c)[Len(q) + 1] = c
  BY AppendProperties
<1>2. \A i \in 1 .. Len(q) : q[i].id \in Tasks /\ q[i].id # c.id /\ R[q[i].id] = p
  BY CopiesOf DEF Sole, Moved
<1>3. \A i \in 1 .. Len(q) + 1 : i \in 1 .. Len(q) \/ i = Len(q) + 1
  BY <1>1
<1>. HIDE DEF Moved
<1>. QED
  BY <1>1, <1>2, <1>3 DEF Sole

LEMMA SoleEmpty ==
    ASSUME NEW p, NEW P
    PROVE  Sole(<<>>, p, P)
<1>1. Len(<<>>) = 0
  OBVIOUS
<1>. QED
  BY <1>1 DEF Sole

\* Tasks that go from place to place together: some from the front, or all.
LEMMA SoleMoves ==
    ASSUME NEW q \in Seq(TaskCopy), NEW n \in Nat, NEW p, NEW r, p # r,
           NEW P \in [Tasks -> Places], Sole(q, p, P), NEW R,
           \A t \in Tasks : R[t] = IF \E i \in 1 .. Len(Taken(q, n)) : Taken(q, n)[i].id = t
                                   THEN r ELSE P[t]
    PROVE  Sole(Taken(q, n), r, R) /\ Sole(Left(q, n), p, R)
<1>. DEFINE k == Least(n, Len(q))
<1>1. k \in 0 .. Len(q) /\ Len(q) \in Nat
  BY DEF Least
<1>2. \A i \in 1 .. Len(q) : q[i] \in TaskCopy
  BY ElementOfSeq
<1>. HIDE DEF k
<1>3. Len(Taken(q, n)) = k /\ \A i \in 1 .. k : Taken(q, n)[i] = q[i]
  BY <1>1, <1>2 DEF Taken, k
<1>4. Len(Left(q, n)) = Len(q) - k /\ \A i \in 1 .. Len(q) - k : Left(q, n)[i] = q[i + k]
  BY <1>1, <1>2 DEF Left, k
<1>5. ASSUME NEW i \in 1 .. Len(q)
      PROVE  q[i].id \in Tasks /\ R[q[i].id] = IF i <= k THEN r ELSE p
  <2>1. q[i].id \in Tasks
    BY <1>2 DEF TaskCopy
  <2>2. (\E j \in 1 .. k : Taken(q, n)[j].id = q[i].id) <=> i <= k
    <3>1. ASSUME NEW j \in 1 .. k, Taken(q, n)[j].id = q[i].id PROVE i <= k
      BY <1>1, <1>3, <3>1 DEF Sole
    <3>2. i <= k => i \in 1 .. k
      BY <1>1
    <3>. QED
      BY <1>3, <3>1, <3>2
  <2>. QED
    BY <1>3, <2>1, <2>2 DEF Sole
<1>6. Sole(Taken(q, n), r, R)
  <2>1. \A i \in 1 .. k : i \in 1 .. Len(q) /\ i <= k
    BY <1>1
  <2>. QED
    BY <1>3, <1>5, <2>1 DEF Sole
<1>7. Sole(Left(q, n), p, R)
  <2>1. \A i \in 1 .. Len(q) - k : i + k \in 1 .. Len(q) /\ ~ (i + k <= k)
    BY <1>1
  <2>2. \A i, j \in 1 .. Len(q) - k : i + k = j + k => i = j
    BY <1>1
  <2>. QED
    BY <1>4, <1>5, <2>1, <2>2 DEF Sole
<1>. QED
  BY <1>6, <1>7

-----------------------------------------------------------------------------
(* Goroutines and the batch of NotInQueueHandler.                           *)

SubmittersOf(S) == \A s \in 1 .. MaxSubmitters : S[s] # None => S[s].copy.id \in Tasks

Becomes(S, T, s, g) ==
    T[s] = g /\ \A r \in 1 .. MaxSubmitters : r # s => T[r] = S[r]

LEMMA SubmitterElsewhere ==
    ASSUME NEW S, SubmittersOf(S), NEW P, NEW R, NEW t \in Tasks, Moved(P, R, t),
           SoleSubmitter(S, P), P[t] # "submitter"
    PROVE  SoleSubmitter(S, R)
<1>1. \A s \in 1 .. MaxSubmitters : Claims(S[s]) => S[s].copy.id \in Tasks /\ S[s].copy.id # t
  BY DEF SubmittersOf, SoleSubmitter, Claims
<1>2. \A s \in 1 .. MaxSubmitters : Claims(S[s]) => R[S[s].copy.id] = "submitter"
  BY <1>1 DEF Moved, SoleSubmitter
<1>. HIDE DEF Claims
<1>. QED
  BY <1>2 DEF SoleSubmitter

LEMMA SubmitterLeaves ==
    ASSUME NEW S, SubmittersOf(S), NEW T, NEW s \in 1 .. MaxSubmitters, NEW g,
           Becomes(S, T, s, g), Claims(S[s]), ~ Claims(g), NEW P, NEW R,
           Moved(P, R, S[s].copy.id), SoleSubmitter(S, P)
    PROVE  P[S[s].copy.id] = "submitter" /\ SoleSubmitter(T, R)
<1>1. P[S[s].copy.id] = "submitter"
  BY DEF SoleSubmitter
<1>2. ASSUME NEW r \in 1 .. MaxSubmitters, Claims(T[r])
      PROVE  r # s /\ T[r] = S[r] /\ R[S[r].copy.id] = "submitter"
  <2>1. r # s /\ T[r] = S[r]
    BY <1>2 DEF Becomes
  <2>2. S[r].copy.id \in Tasks
    BY <1>2, <2>1 DEF SubmittersOf, Claims
  <2>3. S[r].copy.id # S[s].copy.id
    BY <1>2, <2>1 DEF SoleSubmitter
  <2>. QED
    BY <1>2, <2>1, <2>2, <2>3 DEF SoleSubmitter, Moved
<1>. QED
  BY <1>1, <1>2 DEF SoleSubmitter

LEMMA SubmitterIdle ==
    ASSUME NEW S, NEW T, NEW s \in 1 .. MaxSubmitters, NEW g, Becomes(S, T, s, g),
           ~ Claims(g), NEW P, SoleSubmitter(S, P)
    PROVE  SoleSubmitter(T, P)
<1>1. \A r \in 1 .. MaxSubmitters : Claims(T[r]) => T[r] = S[r]
  BY DEF Becomes
<1>. QED
  BY <1>1 DEF SoleSubmitter

LEMMA SubmitterTakes ==
    ASSUME NEW S, SubmittersOf(S), NEW T, NEW s \in 1 .. MaxSubmitters, NEW g,
           Becomes(S, T, s, g), NEW P, NEW R, Moved(P, R, g.copy.id), g.copy.id \in Tasks,
           SoleSubmitter(S, P), P[g.copy.id] # "submitter", R[g.copy.id] = "submitter"
    PROVE  SoleSubmitter(T, R)
<1>1. ASSUME NEW r \in 1 .. MaxSubmitters, Claims(T[r]), r # s
      PROVE  T[r] = S[r] /\ S[r].copy.id # g.copy.id /\ R[S[r].copy.id] = "submitter"
  <2>1. T[r] = S[r]
    BY <1>1 DEF Becomes
  <2>2. S[r].copy.id \in Tasks /\ P[S[r].copy.id] = "submitter"
    BY <1>1, <2>1 DEF SubmittersOf, Claims, SoleSubmitter
  <2>. QED
    BY <2>1, <2>2 DEF Moved
<1>2. T[s] = g
  BY DEF Becomes
<1>3. \A r \in 1 .. MaxSubmitters : Claims(T[r]) => R[T[r].copy.id] = "submitter"
  BY <1>1, <1>2
<1>4. ASSUME NEW r \in 1 .. MaxSubmitters, NEW q \in 1 .. MaxSubmitters, Claims(T[r]), Claims(T[q]),
             T[r].copy.id = T[q].copy.id
      PROVE  r = q
  BY <1>1, <1>2, <1>4 DEF SoleSubmitter
<1>. QED
  BY <1>3, <1>4 DEF SoleSubmitter

LEMMA SubmitterChanges ==
    ASSUME NEW S, NEW T, NEW s \in 1 .. MaxSubmitters, NEW g, Becomes(S, T, s, g),
           Claims(S[s]), g.copy.id = S[s].copy.id, NEW P, SoleSubmitter(S, P)
    PROVE  SoleSubmitter(T, P)
<1>1. \A r \in 1 .. MaxSubmitters : Claims(T[r]) => Claims(S[r]) /\ T[r].copy.id = S[r].copy.id
  BY DEF Becomes
<1>. QED
  BY <1>1 DEF SoleSubmitter

LEMMA FetchedElsewhere ==
    ASSUME NEW B, B \subseteq LiveCopy, NEW P, NEW R, NEW t \in Tasks, Moved(P, R, t),
           SoleFetched(B, P), P[t] # "row" \/ \A c \in B : c.id # t
    PROVE  SoleFetched(B, R)
<1>1. \A c \in B : c.id \in Tasks /\ c.id # t
  BY DEF LiveCopy, SoleFetched
<1>2. \A c \in B : R[c.id] = "row"
  BY <1>1 DEF SoleFetched, Moved
<1>. QED
  BY <1>2 DEF SoleFetched

LEMMA FetchedLess ==
    ASSUME NEW B, NEW c \in B, NEW P, SoleFetched(B, P)
    PROVE  SoleFetched(B \ {c}, P) /\ \A d \in B \ {c} : d.id # c.id
BY DEF SoleFetched

-----------------------------------------------------------------------------
(* Log entries.                                                             *)

ClaimPlaces == {"final", "back", "away"}

LEMMA EntryElsewhere ==
    ASSUME NEW q \in Seq(TaskCopy), NEW P, NEW R, NEW t \in Tasks, Moved(P, R, t),
           SoleEntry(q, P), P[t] \notin ClaimPlaces
    PROVE  /\ SoleEntry(q, R)
           /\ \A i \in 1 .. Len(q) : q[i].id = t => ~ Settles(q[i]) /\ ~ Returns(q[i])
<1>1. ASSUME NEW i \in 1 .. Len(q), q[i].id = t
      PROVE  ~ Settles(q[i]) /\ ~ Returns(q[i])
  <2>1. \A j \in 1 .. Len(q) : Settles(q[j]) => P[q[j].id] = "final"
    BY DEF SoleEntry
  <2>2. \A j \in 1 .. i - 1 : j \in 1 .. Len(q)
    BY CopiesOf
  <2>3. ~ Settles(q[i])
    BY <1>1, <2>1 DEF ClaimPlaces
  <2>4. Returns(q[i]) => \/ P[q[i].id] \in {"away", "back"}
                         \/ \E j \in 1 .. i - 1 : q[j].id = q[i].id /\ Settles(q[j])
    BY DEF SoleEntry
  <2>5. ~ Returns(q[i])
    BY <1>1, <2>1, <2>2, <2>4 DEF ClaimPlaces
  <2>. QED
    BY <2>3, <2>5
<1>2. \A i \in 1 .. Len(q) : Settles(q[i]) \/ Returns(q[i]) => R[q[i].id] = P[q[i].id]
  BY <1>1, CopiesOf DEF Moved
<1>3. SoleEntry(q, R)
  BY <1>2 DEF SoleEntry
<1>. QED
  BY <1>1, <1>3

\* A log entry for a task that has no other: it settles it or hands it back.
LEMMA EntryAppend ==
    ASSUME NEW q \in Seq(TaskCopy), NEW c \in TaskCopy, NEW P, SoleEntry(q, P),
           \/ ~ Settles(c) /\ ~ Returns(c)
           \/ /\ Settles(c) /\ ~ Returns(c) /\ P[c.id] = "final"
              /\ \A i \in 1 .. Len(q) : q[i].id = c.id => ~ Settles(q[i])
           \/ /\ Returns(c) /\ ~ Settles(c) /\ P[c.id] = "back"
              /\ \A i \in 1 .. Len(q) : q[i].id = c.id => ~ Returns(q[i])
           \/ /\ Returns(c) /\ ~ Settles(c)
              /\ \E i \in 1 .. Len(q) : q[i].id = c.id /\ Settles(q[i])
    PROVE  SoleEntry(Append(q, c), P)
<1>. DEFINE r == Append(q, c)
<1>1. /\ Len(r) = Len(q) + 1 /\ Len(q) \in Nat
      /\ \A i \in 1 .. Len(q) : r[i] = q[i]
      /\ r[Len(q) + 1] = c
  BY AppendProperties
<1>2. \A i \in 1 .. Len(r) : i \in 1 .. Len(q) \/ i = Len(q) + 1
  BY <1>1
<1>. HIDE DEF r
<1>3. \A i \in 1 .. Len(q) : i \in 1 .. Len(r) /\ \A j \in 1 .. i - 1 : j \in 1 .. Len(q) /\ r[j] = q[j]
  BY <1>1
<1>4. Len(r) \in 1 .. Len(r) /\ Len(r) \notin 1 .. Len(q) /\ \A j \in 1 .. Len(r) - 1 : r[j] = q[j]
  BY <1>1
<1>5. ASSUME NEW i \in 1 .. Len(r), Settles(r[i])
      PROVE  P[r[i].id] = "final" /\ \A j \in 1 .. Len(r) : r[j].id = r[i].id /\ Settles(r[j]) => j = i
  <2>1. CASE i \in 1 .. Len(q)
    <3>1. P[q[i].id] = "final" /\ \A j \in 1 .. Len(q) : q[j].id = q[i].id /\ Settles(q[j]) => j = i
      BY <1>1, <1>5, <2>1 DEF SoleEntry
    <3>. QED
      BY <1>1, <1>2, <1>5, <2>1, <3>1
  <2>2. CASE i = Len(q) + 1
    BY <1>1, <1>2, <1>5, <2>2
  <2>. QED
    BY <1>2, <2>1, <2>2
<1>6. ASSUME NEW i \in 1 .. Len(r), Returns(r[i])
      PROVE  \/ P[r[i].id] = "away"
             \/ \E j \in 1 .. i - 1 : r[j].id = r[i].id /\ Settles(r[j])
             \/ /\ P[r[i].id] = "back"
                /\ \A j \in 1 .. Len(r) : r[j].id = r[i].id /\ Returns(r[j]) => j = i
  <2>1. CASE i \in 1 .. Len(q)
    <3>1. \/ P[q[i].id] = "away"
          \/ \E j \in 1 .. i - 1 : q[j].id = q[i].id /\ Settles(q[j])
          \/ /\ P[q[i].id] = "back"
             /\ \A j \in 1 .. Len(q) : q[j].id = q[i].id /\ Returns(q[j]) => j = i
      BY <1>1, <1>6, <2>1 DEF SoleEntry
    <3>2. \A j \in 1 .. i - 1 : r[j] = q[j]
      BY <1>3, <2>1
    <3>3. CASE \E k \in 1 .. Len(q) : q[k].id = c.id /\ Settles(q[k])
      <4>1. P[c.id] = "final"
        BY <3>3 DEF SoleEntry
      <4>. QED
        BY <1>1, <1>2, <1>6, <2>1, <3>1, <3>2, <4>1
    <3>4. CASE ~ \E k \in 1 .. Len(q) : q[k].id = c.id /\ Settles(q[k])
      BY <1>1, <1>2, <1>6, <2>1, <3>1, <3>2, <3>4
    <3>. QED
      BY <3>3, <3>4
  <2>2. CASE i = Len(q) + 1
    <3>1. \A j \in 1 .. i - 1 : r[j] = q[j]
      BY <1>1, <1>4, <2>2
    <3>2. 1 .. i - 1 = 1 .. Len(q) /\ r[i] = c
      BY <1>1, <2>2
    <3>. QED
      BY <1>1, <1>2, <1>6, <2>2, <3>1, <3>2
  <2>. QED
    BY <1>2, <2>1, <2>2
<1>. QED
  BY <1>5, <1>6 DEF SoleEntry, r

\* The entry at the head is handled; t may have moved, in one of three ways.
LEMMA EntryTail ==
    ASSUME NEW q \in Seq(TaskCopy), q # <<>>, NEW P, NEW R, NEW t \in Tasks, t = Head(q).id,
           SoleEntry(q, P),
           \A i \in 1 .. Len(q) : q[i].id # t => R[q[i].id] = P[q[i].id],
           \/ ~ Settles(Head(q)) /\ R[t] = P[t]
           \/ Settles(Head(q)) /\ R[t] = "away"
           \/ ~ Settles(Head(q)) /\ Returns(Head(q)) /\ P[t] = "back"
    PROVE  SoleEntry(Tail(q), R)
<1>. DEFINE r == Tail(q)
<1>1. Len(q) \in Nat /\ Len(q) > 0 /\ Head(q) = q[1]
  BY EmptySeq
<1>2. Len(r) = Len(q) - 1 /\ \A i \in 1 .. Len(r) : r[i] = q[i + 1] /\ i + 1 \in 1 .. Len(q)
  BY <1>1, HeadTailProperties
<1>. HIDE DEF r
<1>3. \A i, j \in 1 .. Len(r) : i + 1 = j + 1 => i = j
  BY <1>2
<1>4. 1 \in 1 .. Len(q) /\ \A i \in 1 .. Len(r) : i + 1 # 1
  BY <1>1
<1>5. ASSUME NEW i \in 1 .. Len(r), Settles(r[i])
      PROVE  R[r[i].id] = "final" /\ \A j \in 1 .. Len(r) : r[j].id = r[i].id /\ Settles(r[j]) => j = i
  <2>1. /\ P[q[i + 1].id] = "final"
        /\ \A j \in 1 .. Len(q) : q[j].id = q[i + 1].id /\ Settles(q[j]) => j = i + 1
    BY <1>2, <1>5 DEF SoleEntry
  <2>2. q[i + 1].id = t => R[t] = P[t]
    BY <1>1, <1>2, <1>4, <2>1
  <2>3. R[q[i + 1].id] = "final"
    BY <1>2, <2>1, <2>2
  <2>. QED
    BY <1>2, <1>3, <2>1, <2>3
<1>6. ASSUME NEW i \in 1 .. Len(r), Returns(r[i])
      PROVE  \/ R[r[i].id] = "away"
             \/ \E j \in 1 .. i - 1 : r[j].id = r[i].id /\ Settles(r[j])
             \/ /\ R[r[i].id] = "back"
                /\ \A j \in 1 .. Len(r) : r[j].id = r[i].id /\ Returns(r[j]) => j = i
  <2>1. \/ P[q[i + 1].id] = "away"
        \/ \E j \in 1 .. (i + 1) - 1 : q[j].id = q[i + 1].id /\ Settles(q[j])
        \/ /\ P[q[i + 1].id] = "back"
           /\ \A j \in 1 .. Len(q) : q[j].id = q[i + 1].id /\ Returns(q[j]) => j = i + 1
    BY <1>2, <1>6 DEF SoleEntry
  <2>2. CASE q[i + 1].id = t /\ Settles(q[1])
    <3>1. R[t] = "away"
      BY <1>1, <2>2
    <3>. QED
      BY <1>2, <2>2, <3>1
  <2>3. CASE q[i + 1].id # t \/ ~ Settles(q[1])
    <3>1. R[q[i + 1].id] = P[q[i + 1].id]
      <4>1. CASE q[i + 1].id # t
        BY <1>2, <4>1
      <4>2. CASE q[i + 1].id = t /\ ~ Settles(q[1])
        <5>1. SUFFICES ASSUME Returns(q[1]), P[t] = "back" PROVE FALSE
          BY <1>1, <4>2
        <5>2. q[1].id = t /\ 1 # i + 1
          BY <1>1, <1>4
        <5>3. PICK j \in 1 .. i : q[j].id = t /\ Settles(q[j])
          BY <1>4, <2>1, <4>2, <5>1, <5>2
        <5>4. j \in 1 .. Len(q)
          BY <1>1, <1>2
        <5>5. P[t] = "final"
          BY <5>3, <5>4 DEF SoleEntry
        <5>. QED
          BY <5>1, <5>5
      <4>. QED
        BY <2>3, <4>1, <4>2
    <3>2. CASE \E j \in 1 .. i : q[j].id = q[i + 1].id /\ Settles(q[j])
      <4>1. PICK j \in 1 .. i : q[j].id = q[i + 1].id /\ Settles(q[j])
        BY <3>2
      <4>2. j # 1
        BY <1>1, <2>3, <4>1
      <4>3. j - 1 \in 1 .. i - 1 /\ j - 1 \in 1 .. Len(r) /\ (j - 1) + 1 = j
        BY <1>1, <1>2, <4>2
      <4>4. r[j - 1] = q[j]
        BY <1>2, <4>3
      <4>. QED
        BY <1>2, <4>1, <4>3, <4>4
    <3>3. CASE P[q[i + 1].id] = "away"
      BY <1>2, <3>1, <3>3
    <3>4. CASE /\ P[q[i + 1].id] = "back"
               /\ \A j \in 1 .. Len(q) : q[j].id = q[i + 1].id /\ Returns(q[j]) => j = i + 1
      <4>1. R[r[i].id] = "back"
        BY <1>2, <3>1, <3>4
      <4>2. ASSUME NEW j \in 1 .. Len(r), r[j].id = r[i].id, Returns(r[j]) PROVE j = i
        <5>1. j + 1 \in 1 .. Len(q) /\ q[j + 1].id = q[i + 1].id /\ Returns(q[j + 1])
          BY <1>2, <4>2
        <5>2. j + 1 = i + 1
          BY <3>4, <5>1
        <5>. QED
          BY <1>3, <5>2
      <4>. QED
        BY <4>1, <4>2
    <3>5. (i + 1) - 1 = i
      BY <1>2
    <3>. QED
      BY <2>1, <3>2, <3>3, <3>4, <3>5
  <2>. QED
    BY <2>2, <2>3
<1>. QED
  BY <1>5, <1>6 DEF SoleEntry, r

-----------------------------------------------------------------------------
(* Rows, and the log channel while it never overflows.                      *)

\* No row is flagged: the log channel had room whenever a handler pushed to it.
NeverFlagged == \A t \in Tasks : live[t] # None => ~ live[t].logQueueFailed

\* And NotInQueueHandler found fewer live tasks than MAX_FREE_VMS.
Undisturbed == NeverFlagged /\ Cardinality(LiveTasks) < MaxFreeVms

\* Every statement runs and the scanners find nothing.
Faultless == "statement" \notin FaultKinds /\ TRUE \notin Detections

LEMMA RowsMove ==
    ASSUME NEW table, NEW w, NEW P, RowsIdle(table, w, P), NEW R, NEW t \in Tasks,
           Moved(P, R, t), R[t] = "away" <=> P[t] = "away", NEW new, NEW v,
           \A u \in Tasks : u # t => new[u] = table[u],
           new[t] = None <=> table[t] = None,
           \A u \in Tasks : u # t /\ w # None /\ w.id = u => v # None /\ v.id = u,
           new[t] # None /\ new[t].status \in IdleStatuses =>
               R[t] = "row" \/ (v # None /\ v.id = t)
    PROVE  RowsIdle(new, v, R)
BY DEF RowsIdle, Moved

\* A task that has a place has a row.
LEMMA PlacedRow ==
    ASSUME NEW P, Placed(P), NEW t \in Tasks
    PROVE  live[t] # None <=> P[t] # "away"
BY DEF Placed, RowsIdle

LEMMA Elsewhere ==
    ASSUME PipelineTypeOK, NEW P, Placed(P), NEW R, NEW t \in Tasks, Moved(P, R, t)
    PROVE  /\ P[t] # "pending" => Sole(pendingQueue, "pending", R)
           /\ P[t] # "pendBatch" => Sole(pendBatch, "pendBatch", R)
           /\ P[t] # "running" => Sole(runningQueue, "running", R)
           /\ P[t] # "runBatch" => Sole(runBatch, "runBatch", R)
           /\ P[t] # "submitter" => SoleSubmitter(submitters, R)
           /\ P[t] # "row" \/ (\A c \in niqBatch : c.id # t) => SoleFetched(niqBatch, R)
           /\ P[t] \notin ClaimPlaces =>
                /\ SoleEntry(logQueue, R)
                /\ \A i \in 1 .. Len(logQueue) :
                     logQueue[i].id = t => ~ Settles(logQueue[i]) /\ ~ Returns(logQueue[i])
           /\ P[t] # "away" /\ R[t] # "away" /\ (R[t] = "row" \/ P[t] # "row") =>
                RowsIdle(live, niqWrite, R)
<1>1. /\ pendingQueue \in Seq(TaskCopy) /\ pendBatch \in Seq(TaskCopy)
      /\ runningQueue \in Seq(TaskCopy) /\ runBatch \in Seq(TaskCopy)
      /\ logQueue \in Seq(TaskCopy) /\ niqBatch \subseteq LiveCopy
  BY LiveCopyIsTaskCopy DEF PipelineTypeOK
<1>2. SubmittersOf(submitters)
  BY DEF PipelineTypeOK, SubmittersOf, Submitter, LiveCopy
<1>3. /\ P[t] # "pending" => Sole(pendingQueue, "pending", R)
      /\ P[t] # "pendBatch" => Sole(pendBatch, "pendBatch", R)
  BY <1>1, SoleElsewhere DEF Placed
<1>4. /\ P[t] # "running" => Sole(runningQueue, "running", R)
      /\ P[t] # "runBatch" => Sole(runBatch, "runBatch", R)
  BY <1>1, SoleElsewhere DEF Placed
<1>5. P[t] # "submitter" => SoleSubmitter(submitters, R)
  BY <1>2, SubmitterElsewhere DEF Placed
<1>6. P[t] # "row" \/ (\A c \in niqBatch : c.id # t) => SoleFetched(niqBatch, R)
  BY <1>1, FetchedElsewhere DEF Placed
<1>7. P[t] \notin ClaimPlaces =>
        /\ SoleEntry(logQueue, R)
        /\ \A i \in 1 .. Len(logQueue) :
             logQueue[i].id = t => ~ Settles(logQueue[i]) /\ ~ Returns(logQueue[i])
  BY <1>1, EntryElsewhere DEF Placed
<1>8. P[t] # "away" /\ R[t] # "away" /\ (R[t] = "row" \/ P[t] # "row") =>
        RowsIdle(live, niqWrite, R)
  BY DEF Placed, RowsIdle, Moved
<1>. QED
  BY <1>3, <1>4, <1>5, <1>6, <1>7, <1>8

LEMMA StatementRuns ==
    ASSUME Faultless, NEW ok \in BOOLEAN, Statement(ok)
    PROVE  ok
BY DEF Faultless, Statement

LEMMA LogPushed ==
    ASSUME PipelineTypeOK, Faultless, NeverFlagged', NEW c \in LiveCopy, live[c.id] # None,
           NEW s, ChangeStatusAndPushToLogQueue(c, s)
    PROVE  logQueue' = Append(logQueue, WithStatus(c, s)) /\ live' = live
<1>1. PICK ok \in BOOLEAN : Statement(ok) /\ LogStateBecomes(LogChange(LogState, c, s, ok))
  BY DEF ChangeStatusAndPushToLogQueue
<1>2. ok
  BY <1>1, StatementRuns
<1>3. CASE HasRoom(logQueue, LogCapacity)
  BY <1>1, <1>3 DEF LogStateBecomes, LogChange, LogState, Push
<1>4. CASE ~ HasRoom(logQueue, LogCapacity)
  <2>. DEFINE row == [c.row EXCEPT !.logQueueFailed = TRUE]
  <2>1. live' = WriteRow(live, c.id, row)
    BY <1>1, <1>2, <1>4 DEF LogStateBecomes, LogChange, LogState
  <2>2. row \in RowOver(LiveStatuses) /\ row.logQueueFailed /\ c.id \in Tasks
    BY DEF LiveCopy, RowOver
  <2>. HIDE DEF row
  <2>3. live'[c.id] = [row EXCEPT !.hash = live[c.id].hash]
    BY <2>1, <2>2 DEF WriteRow, PipelineTypeOK, DbTypeOK
  <2>4. live[c.id].hash \in Hashes \cup {NoHash}
    BY <2>2 DEF PipelineTypeOK, DbTypeOK, RowOver
  <2>5. live'[c.id] \in RowOver(LiveStatuses) /\ live'[c.id].logQueueFailed
    BY <2>2, <2>3, <2>4 DEF RowOver
  <2>6. live'[c.id] # None
    BY <2>5, DbAssumption
  <2>. QED
    BY <2>2, <2>5, <2>6 DEF NeverFlagged
<1>. QED
  BY <1>3, <1>4

\* A copy whose row has gone may find no room and leave no trace.
LEMMA LogPushedOrNot ==
    ASSUME PipelineTypeOK, Faultless, NeverFlagged', NEW c \in LiveCopy, NEW s,
           ChangeStatusAndPushToLogQueue(c, s)
    PROVE  logQueue' \in {logQueue, Append(logQueue, WithStatus(c, s))} /\ live' = live
<1>1. CASE live[c.id] # None
  BY <1>1, LogPushed
<1>2. CASE live[c.id] = None
  BY <1>2 DEF ChangeStatusAndPushToLogQueue, LogStateBecomes, LogChange, LogState, Push, WriteRow
<1>. QED
  BY <1>1, <1>2

\* The statuses of what is pushed.
LEMMA StatusKinds ==
    /\ FinalStatuses \cap IdleStatuses = {}
    /\ PendingInQueue \notin FinalStatuses \cup IdleStatuses
    /\ RunningInQueue \notin FinalStatuses \cup IdleStatuses
BY DEF FinalStatuses, IdleStatuses, PendingInQueue, RunningInQueue, PendingNotInQueue,
       RunningNotInQueue, Reported, Aborted, Scanned

LEMMA PushedStatus ==
    ASSUME NEW c \in LiveCopy, NEW s \in TaskStatuses
    PROVE  /\ WithStatus(c, s) \in TaskCopy /\ WithStatus(c, s).id = c.id
           /\ WithStatus(c, s).row.status = s
           /\ Settles(WithStatus(c, s)) <=> s \in FinalStatuses
           /\ Returns(WithStatus(c, s)) <=> s \in IdleStatuses
<1>1. WithStatus(c, s) \in TaskCopy
  BY WithStatusType DEF LiveCopy, TaskCopy
<1>2. WithStatus(c, s).id = c.id /\ WithStatus(c, s).row.status = s
  BY DEF WithStatus, LiveCopy, RowOver
<1>. QED
  BY <1>1, <1>2 DEF Settles, Returns

LEMMA PlacedNext ==
    ASSUME NEW R, R \in [Tasks -> Places],
           Sole(pendingQueue, "pending", R)', Sole(pendBatch, "pendBatch", R)',
           Sole(runningQueue, "running", R)', Sole(runBatch, "runBatch", R)',
           SoleSubmitter(submitters, R)', SoleFetched(niqBatch, R)', SoleEntry(logQueue, R)',
           RowsIdle(live, niqWrite, R)', Unfailing'
    PROVE  PlaceInv'
BY DEF PlaceInv, Placed

-----------------------------------------------------------------------------
(* NotInQueueHandler.                                                      *)

LEMMA NiqFetchPlace ==
    ASSUME PipelineTypeOK, PlaceInv, NeverFlagged, NiqFetch
    PROVE  PlaceInv'
<1>1. PICK P \in [Tasks -> Places] : Placed(P)
  BY DEF PlaceInv
<1>2. ASSUME NEW t \in Tasks, NotInQueue(t)
      PROVE  P[t] = "row" /\ live[t].status \in IdleStatuses /\ ~ live[t].logQueueFailed
  <2>1. live[t] # None /\ ~ live[t].logQueueFailed /\ live[t].status \in IdleStatuses
    BY <1>2 DEF NotInQueue, NeverFlagged, IdleStatuses
  <2>. QED
    BY <1>1, <2>1 DEF Placed, RowsIdle, NiqFetch
<1>3. SoleFetched(niqBatch, P)'
  BY <1>2 DEF NiqFetch, SoleFetched, CopyOf
<1>4. Unfailing'
  BY DEF NiqFetch, PlaceInv, Unfailing, pendVars
<1>. QED
  BY <1>1, <1>3, <1>4, PlacedNext DEF Placed, NiqFetch, dbVars, channelVars, pendVars, runVars

\* The task goes to PendingQueue or to RunningQueue: its row is not one to log,
\* to give up or to settle.
LEMMA NiqPushTo ==
    ASSUME PipelineTypeOK, PlaceInv, Undisturbed, Faultless, NEW c \in niqBatch, NiqPush(c)
    PROVE  \/ c.row.status = PendingNotInQueue /\ NiqToPending(c)
           \/ NiqToRunning(c)
<1>1. ~ c.row.logQueueFailed
  BY DEF PlaceInv, Placed, SoleFetched
<1>2. ~ ScanFinds(c.id)
  BY DEF ScanFinds, Faultless
<1>3. ASSUME NiqAdmit(c) PROVE c.row.status = PendingNotInQueue /\ NiqToPending(c)
  <2>1. PICK ok \in BOOLEAN :
            /\ Statement(ok)
            /\ IF LiveTaskCount(ok) >= MaxFreeVms THEN NiqToLog(c, Aborted) ELSE NiqToPending(c)
    BY <1>3 DEF NiqAdmit
  <2>2. LiveTaskCount(ok) = Cardinality(LiveTasks)
    BY <2>1, StatementRuns DEF LiveTaskCount
  <2>3. Cardinality(LiveTasks) \in Nat /\ MaxFreeVms \in Nat
    BY TasksFinite, PipelineAssumption DEF LiveTasks
  <2>4. ~ (LiveTaskCount(ok) >= MaxFreeVms)
    BY <2>2, <2>3 DEF Undisturbed
  <2>. QED
    BY <1>3, <2>1, <2>4 DEF NiqAdmit
<1>. QED
  BY <1>1, <1>2, <1>3 DEF NiqPush, NiqRelog, NiqScanFound, NiqResume

\* c leaves the batch for queue r, and its row may wait for its UPDATE.
LEMMA NiqMoves ==
    ASSUME PipelineTypeOK, NEW P, Placed(P), NEW c, c \in niqBatch, niqWrite = None,
           NEW R, NEW t, t = c.id, Moved(P, R, t), R[t] = "pending" \/ R[t] = "running",
           NEW w, w # None, w.id = t, NEW B, B = niqBatch \ {c}
    PROVE  /\ P[t] = "row" /\ t \in Tasks
           /\ SoleFetched(B, R) /\ RowsIdle(live, w, R)
<1>1. c.id \in Tasks /\ niqBatch \subseteq LiveCopy
  BY DEF PipelineTypeOK, LiveCopy
<1>2. P[c.id] = "row" /\ SoleFetched(niqBatch, P)
  BY DEF Placed, SoleFetched
<1>3. SoleFetched(B, R)
  <2>1. SoleFetched(B, P) /\ \A d \in niqBatch \ {c} : d.id # c.id
    BY <1>2, FetchedLess
  <2>. QED
    BY <1>1, <2>1, FetchedElsewhere
<1>4. RowsIdle(live, w, R)
  BY <1>1, <1>2, RowsMove DEF Placed
<1>. QED
  BY <1>1, <1>2, <1>3, <1>4

LEMMA NiqPushPlace ==
    ASSUME PipelineTypeOK, PlaceInv, Undisturbed, Faultless, NEW c \in niqBatch, NiqPush(c)
    PROVE  PlaceInv'
<1>1. PICK P \in [Tasks -> Places] : Placed(P)
  BY DEF PlaceInv
<1>2. c \in LiveCopy /\ c.id \in Tasks /\ niqWrite = None
  BY DEF PipelineTypeOK, LiveCopy, NiqPush
<1>3. LoggingSubmitters(submitters')
  BY DEF NiqPush, pendVars, PlaceInv, Unfailing
<1>. USE DEF dbVars, pendVars, runVars
<1>4. ASSUME NiqToPending(c) PROVE PlaceInv'
  <2>1. CASE ~ HasRoom(pendingQueue, PendingCapacity)
    <3>1. UNCHANGED <<pendingQueue, runningQueue, logQueue, niqWrite>>
      BY <1>2, <1>4, <2>1 DEF NiqToPending, WriteDue, Pushed
    <3>2. SoleFetched(niqBatch, P)'
      BY <1>1, FetchedLess DEF Placed, NiqPush
    <3>3. Unfailing'
      BY <1>3, <3>1 DEF PlaceInv, Unfailing
    <3>. QED
      BY <1>1, <3>1, <3>2, <3>3, PlacedNext DEF Placed, NiqPush
  <2>2. CASE HasRoom(pendingQueue, PendingCapacity)
    <3>1. PICK w : w = [id |-> c.id, status |-> PendingInQueue]
      OBVIOUS
    <3>2. w # None /\ w.id = c.id /\ WriteBusy(w)
      <4>1. w # None
        BY <1>2, <3>1, PipelineAssumption DEF LiveStatuses
      <4>. QED
        BY <3>1, <4>1, StatusKinds, PipelineAssumption DEF WriteBusy, LiveStatuses
    <3>3. /\ pendingQueue' = Append(pendingQueue, WithStatus(c, PendingInQueue))
          /\ niqWrite' = w /\ UNCHANGED <<runningQueue, logQueue>>
      BY <1>4, <2>2, <3>1 DEF NiqToPending, WriteDue, Pushed, Push
    <3>4. PICK R : Moved(P, R, c.id) /\ R[c.id] = "pending"
      BY <1>1, <1>2, SomeMove DEF Places
    <3>5. P[c.id] = "row" /\ SoleFetched(niqBatch', R) /\ RowsIdle(live, w, R)
      <4>1. R[c.id] \in {"pending", "running"}
        BY <3>4
      <4>2. Moved(P, R, c.id) /\ w # None /\ w.id = c.id
        BY <3>2, <3>4
      <4>3. niqBatch' = niqBatch \ {c}
        BY DEF NiqPush
      <4>. QED
        BY <1>1, <1>2, <4>1, <4>2, <4>3, NiqMoves
    <3>6. Sole(pendingQueue', "pending", R)
      <4>1. WithStatus(c, PendingInQueue) \in TaskCopy /\ WithStatus(c, PendingInQueue).id = c.id
        BY <1>2, PushedStatus DEF TaskStatuses, LiveStatuses
      <4>2. pendingQueue \in Seq(TaskCopy)
        BY LiveCopyIsTaskCopy DEF PipelineTypeOK
      <4>. QED
        BY <1>1, <3>3, <3>4, <3>5, <4>1, <4>2, SoleAppend DEF Placed
    <3>7. /\ Sole(pendBatch, "pendBatch", R) /\ Sole(runningQueue, "running", R)
          /\ Sole(runBatch, "runBatch", R) /\ SoleSubmitter(submitters, R)
          /\ SoleEntry(logQueue, R)
      BY <1>1, <1>2, <3>4, <3>5, Elsewhere DEF ClaimPlaces
    <3>. QED
      BY <1>3, <3>2, <3>3, <3>4, <3>5, <3>6, <3>7, PlacedNext DEF Moved, Unfailing, NiqPush
  <2>. QED
    BY <2>1, <2>2
<1>5. ASSUME NiqToRunning(c) PROVE PlaceInv'
  <2>1. CASE ~ HasRoom(runningQueue, RunningCapacity)
    <3>1. UNCHANGED <<pendingQueue, runningQueue, logQueue, niqWrite>>
      BY <1>2, <1>5, <2>1 DEF NiqToRunning, WriteDue, Pushed
    <3>2. SoleFetched(niqBatch, P)'
      BY <1>1, FetchedLess DEF Placed, NiqPush
    <3>3. Unfailing'
      BY <1>3, <3>1 DEF PlaceInv, Unfailing
    <3>. QED
      BY <1>1, <3>1, <3>2, <3>3, PlacedNext DEF Placed, NiqPush
  <2>2. CASE HasRoom(runningQueue, RunningCapacity)
    <3>1. PICK w : w = [id |-> c.id, status |-> RunningInQueue]
      OBVIOUS
    <3>2. w # None /\ w.id = c.id /\ WriteBusy(w)
      <4>1. w # None
        BY <1>2, <3>1, PipelineAssumption DEF LiveStatuses
      <4>. QED
        BY <3>1, <4>1, StatusKinds, PipelineAssumption DEF WriteBusy, LiveStatuses
    <3>3. /\ runningQueue' = Append(runningQueue, WithStatus(c, RunningInQueue))
          /\ niqWrite' = w /\ UNCHANGED <<pendingQueue, logQueue>>
      BY <1>5, <2>2, <3>1 DEF NiqToRunning, WriteDue, Pushed, Push
    <3>4. PICK R : Moved(P, R, c.id) /\ R[c.id] = "running"
      BY <1>1, <1>2, SomeMove DEF Places
    <3>5. P[c.id] = "row" /\ SoleFetched(niqBatch', R) /\ RowsIdle(live, w, R)
      <4>1. R[c.id] \in {"pending", "running"}
        BY <3>4
      <4>2. Moved(P, R, c.id) /\ w # None /\ w.id = c.id
        BY <3>2, <3>4
      <4>3. niqBatch' = niqBatch \ {c}
        BY DEF NiqPush
      <4>. QED
        BY <1>1, <1>2, <4>1, <4>2, <4>3, NiqMoves
    <3>6. Sole(runningQueue', "running", R)
      <4>1. WithStatus(c, RunningInQueue) \in TaskCopy /\ WithStatus(c, RunningInQueue).id = c.id
        BY <1>2, PushedStatus DEF TaskStatuses, LiveStatuses
      <4>2. runningQueue \in Seq(TaskCopy)
        BY LiveCopyIsTaskCopy DEF PipelineTypeOK
      <4>. QED
        BY <1>1, <3>3, <3>4, <3>5, <4>1, <4>2, SoleAppend DEF Placed
    <3>7. /\ Sole(pendBatch, "pendBatch", R) /\ Sole(pendingQueue, "pending", R)
          /\ Sole(runBatch, "runBatch", R) /\ SoleSubmitter(submitters, R)
          /\ SoleEntry(logQueue, R)
      BY <1>1, <1>2, <3>4, <3>5, Elsewhere DEF ClaimPlaces
    <3>. QED
      BY <1>3, <3>2, <3>3, <3>4, <3>5, <3>6, <3>7, PlacedNext DEF Moved, Unfailing, NiqPush
  <2>. QED
    BY <2>1, <2>2
<1>. QED
  BY <1>4, <1>5, NiqPushTo

LEMMA NiqUpdatePlace ==
    ASSUME PipelineTypeOK, PlaceInv, Faultless, NiqUpdate
    PROVE  PlaceInv'
<1>1. PICK P \in [Tasks -> Places] : Placed(P)
  BY DEF PlaceInv
<1>2. PICK w : w = niqWrite
  OBVIOUS
<1>3. w # None /\ w.id \in Tasks /\ w.status \in LiveStatuses \ IdleStatuses
  BY <1>2 DEF NiqUpdate, PipelineTypeOK, PlaceInv, Unfailing, WriteBusy
<1>4. live' = SetStatus(live, w.id, w.status)
  <2>1. w.status # None
    BY <1>2 DEF NiqUpdate, PlaceInv, Unfailing, WriteBusy
  <2>2. live' = AppliedWrite(live, w)
    BY <1>2, StatementRuns DEF NiqUpdate
  <2>. QED
    BY <2>1, <2>2 DEF AppliedWrite
<1>5. RowsIdle(live', None, P)
  <2>. DEFINE row == [live[w.id] EXCEPT !.status = w.status]
  <2>1. CASE live[w.id] = None
    <3>1. live' = live
      BY <1>4, <2>1 DEF SetStatus
    <3>. QED
      BY <1>1, <1>2, <2>1, <3>1 DEF Placed, RowsIdle
  <2>2. CASE live[w.id] # None
    <3>1. live[w.id] \in RowOver(LiveStatuses)
      BY <1>3, <2>2 DEF PipelineTypeOK, DbTypeOK
    <3>2. row \in RowOver(LiveStatuses) /\ row.status = w.status
      BY <1>3, <3>1 DEF RowOver
    <3>3. row # None
      BY <3>2, DbAssumption
    <3>4. live' = [live EXCEPT ![w.id] = row]
      BY <1>4, <2>2 DEF SetStatus
    <3>. HIDE DEF row
    <3>5. live'[w.id] = row /\ \A u \in Tasks : u # w.id => live'[u] = live[u]
      BY <1>3, <3>4 DEF PipelineTypeOK, DbTypeOK
    <3>6. row.status \notin IdleStatuses
      BY <1>3, <3>2
    <3>. QED
      BY <1>1, <1>2, <1>3, <2>2, <3>3, <3>5, <3>6 DEF Placed, RowsIdle
  <2>. QED
    BY <2>1, <2>2
<1>6. Unfailing' /\ niqWrite' = None
  BY DEF NiqUpdate, PlaceInv, Unfailing, WriteBusy, pendVars
<1>. QED
  BY <1>1, <1>5, <1>6, PlacedNext DEF Placed, NiqUpdate, channelVars, pendVars, runVars

-----------------------------------------------------------------------------
(* PendingQueueHandler and its goroutines.                                 *)

\* Tasks that leave queue or batch p leave the rest as it is.
LEMMA ElsewhereAll ==
    ASSUME PipelineTypeOK, NEW P, Placed(P), NEW R, NEW p,
           p \notin ClaimPlaces, p \notin {"row", "submitter"},
           \A u \in Tasks : R[u] = P[u] \/ (P[u] = p /\ R[u] # "away")
    PROVE  /\ p # "pending" => Sole(pendingQueue, "pending", R)
           /\ p # "pendBatch" => Sole(pendBatch, "pendBatch", R)
           /\ p # "running" => Sole(runningQueue, "running", R)
           /\ p # "runBatch" => Sole(runBatch, "runBatch", R)
           /\ SoleSubmitter(submitters, R) /\ SoleFetched(niqBatch, R)
           /\ SoleEntry(logQueue, R) /\ RowsIdle(live, niqWrite, R)
<1>1. ASSUME NEW q \in Seq(TaskCopy), NEW x, Sole(q, x, P), p # x PROVE Sole(q, x, R)
  <2>1. \A i \in 1 .. Len(q) : R[q[i].id] = x
    BY <1>1, CopiesOf DEF Sole
  <2>. QED
    BY <1>1, <2>1 DEF Sole
<1>2. /\ pendingQueue \in Seq(TaskCopy) /\ pendBatch \in Seq(TaskCopy)
      /\ runningQueue \in Seq(TaskCopy) /\ runBatch \in Seq(TaskCopy)
      /\ logQueue \in Seq(TaskCopy) /\ niqBatch \subseteq LiveCopy
  BY LiveCopyIsTaskCopy DEF PipelineTypeOK
<1>3. SoleSubmitter(submitters, R)
  <2>1. \A s \in 1 .. MaxSubmitters : Claims(submitters[s]) => submitters[s].copy.id \in Tasks
    BY DEF PipelineTypeOK, Claims, Submitter, LiveCopy
  <2>2. \A s \in 1 .. MaxSubmitters : Claims(submitters[s]) => R[submitters[s].copy.id] = "submitter"
    BY <2>1 DEF Placed, SoleSubmitter
  <2>. QED
    BY <2>2 DEF Placed, SoleSubmitter
<1>4. SoleFetched(niqBatch, R)
  <2>1. \A c \in niqBatch : R[c.id] = "row"
    BY <1>2 DEF Placed, SoleFetched, LiveCopy
  <2>. QED
    BY <2>1 DEF Placed, SoleFetched
<1>5. SoleEntry(logQueue, R)
  <2>1. \A i \in 1 .. Len(logQueue) : logQueue[i].id \in Tasks
    BY <1>2, CopiesOf
  <2>2. \A i \in 1 .. Len(logQueue) : P[logQueue[i].id] \in ClaimPlaces =>
            R[logQueue[i].id] = P[logQueue[i].id]
    BY <2>1
  <2>. QED
    BY <2>2 DEF Placed, SoleEntry, ClaimPlaces
<1>6. RowsIdle(live, niqWrite, R)
  BY DEF Placed, RowsIdle, ClaimPlaces
<1>7. /\ p # "pending" => Sole(pendingQueue, "pending", R)
      /\ p # "pendBatch" => Sole(pendBatch, "pendBatch", R)
      /\ p # "running" => Sole(runningQueue, "running", R)
      /\ p # "runBatch" => Sole(runBatch, "runBatch", R)
  BY <1>1, <1>2 DEF Placed
<1>. QED
  BY <1>3, <1>4, <1>5, <1>6, <1>7

\* A copy of a claimed task goes to the log channel, to settle it or to hand it back.
LEMMA EntryTakes ==
    ASSUME PipelineTypeOK, NEW P, Placed(P), NEW R, NEW t \in Tasks, Moved(P, R, t),
           P[t] \notin ClaimPlaces, NEW c \in LiveCopy, c.id = t, NEW s \in TaskStatuses,
           \/ s \in FinalStatuses /\ R[t] = "final"
           \/ s \in IdleStatuses /\ R[t] = "back",
           NEW q, q = Append(logQueue, WithStatus(c, s))
    PROVE  SoleEntry(q, R)
<1>. DEFINE d == WithStatus(c, s)
<1>1. /\ d \in TaskCopy /\ d.id = t
      /\ Settles(d) <=> s \in FinalStatuses
      /\ Returns(d) <=> s \in IdleStatuses
  BY PushedStatus
<1>. HIDE DEF d
<1>2. /\ SoleEntry(logQueue, R) /\ logQueue \in Seq(TaskCopy)
      /\ \A i \in 1 .. Len(logQueue) :
           logQueue[i].id = t => ~ Settles(logQueue[i]) /\ ~ Returns(logQueue[i])
  BY Elsewhere DEF PipelineTypeOK
<1>3. FinalStatuses \cap IdleStatuses = {}
  BY StatusKinds
<1>4. SoleEntry(Append(logQueue, d), R)
  BY <1>1, <1>2, <1>3, EntryAppend
<1>. QED
  BY <1>4 DEF d

LEMMA TakenIs ==
    ASSUME NEW q \in Seq(TaskCopy), NEW n \in Nat
    PROVE  \A i \in 1 .. Len(Taken(q, n)) : i \in 1 .. Len(q) /\ Taken(q, n)[i] = q[i]
<1>. DEFINE k == Least(n, Len(q))
<1>1. k \in 0 .. Len(q) /\ Len(q) \in Nat
  BY DEF Least
<1>2. \A i \in 1 .. Len(q) : q[i] \in TaskCopy
  BY ElementOfSeq
<1>. HIDE DEF k
<1>3. Len(Taken(q, n)) = k /\ \A i \in 1 .. k : Taken(q, n)[i] = q[i]
  BY <1>1, <1>2 DEF Taken, k
<1>. QED
  BY <1>1, <1>3

LEMMA PendFetchPlace ==
    ASSUME PipelineTypeOK, PlaceInv, PendFetch
    PROVE  PlaceInv'
<1>1. PICK P \in [Tasks -> Places] : Placed(P)
  BY DEF PlaceInv
<1>2. PICK n \in Nat : pendBatch' = Taken(pendingQueue, n) /\ pendingQueue' = Left(pendingQueue, n)
  BY FreeVmsType DEF PendFetch
<1>3. PICK R : R = [t \in Tasks |-> IF \E i \in 1 .. Len(Taken(pendingQueue, n)) :
                                          Taken(pendingQueue, n)[i].id = t
                                    THEN "pendBatch" ELSE P[t]]
  OBVIOUS
<1>4. pendingQueue \in Seq(TaskCopy)
  BY LiveCopyIsTaskCopy DEF PipelineTypeOK
<1>5. R \in [Tasks -> Places]
  BY <1>3 DEF Places
<1>6. Sole(pendBatch', "pendBatch", R) /\ Sole(pendingQueue', "pending", R)
  BY <1>1, <1>2, <1>3, <1>4, SoleMoves DEF Placed
<1>7. \A u \in Tasks : R[u] = P[u] \/ (P[u] = "pending" /\ R[u] # "away")
  <2>1. \A i \in 1 .. Len(Taken(pendingQueue, n)) :
            i \in 1 .. Len(pendingQueue) /\ Taken(pendingQueue, n)[i] = pendingQueue[i]
    BY <1>4, TakenIs
  <2>. QED
    BY <1>1, <1>3, <2>1 DEF Placed, Sole
<1>8. /\ Sole(runningQueue, "running", R) /\ Sole(runBatch, "runBatch", R)
      /\ SoleSubmitter(submitters, R) /\ SoleFetched(niqBatch, R)
      /\ SoleEntry(logQueue, R) /\ RowsIdle(live, niqWrite, R)
  <2>. PICK p : p = "pending"
    OBVIOUS
  <2>1. p \notin ClaimPlaces /\ p \notin {"row", "submitter"} /\ p # "running" /\ p # "runBatch"
    BY DEF ClaimPlaces
  <2>2. \A u \in Tasks : R[u] = P[u] \/ (P[u] = p /\ R[u] # "away")
    BY <1>7
  <2>. QED
    BY <1>1, <2>1, <2>2, ElsewhereAll
<1>9. Unfailing'
  BY DEF PendFetch, PlaceInv, Unfailing, niqVars
<1>. QED
  BY <1>5, <1>6, <1>8, <1>9, PlacedNext DEF PendFetch, dbVars, niqVars, runVars

\* The task at the head of a batch or queue has that place, and a row.
LEMMA HeadPlaced ==
    ASSUME PipelineTypeOK, NEW P, Placed(P), NEW q \in Seq(LiveCopy), q # <<>>, NEW p,
           p # "away", Sole(q, p, P)
    PROVE  /\ Head(q) \in LiveCopy /\ Head(q).id \in Tasks /\ P[Head(q).id] = p
           /\ live[Head(q).id] # None
<1>1. Head(q) \in LiveCopy /\ Head(q).id \in Tasks
  <2>1. Head(q) \in LiveCopy
    BY HeadTailProperties
  <2>. QED
    BY <2>1 DEF LiveCopy
<1>2. Len(q) \in Nat /\ Len(q) > 0 /\ Head(q) = q[1]
  BY EmptySeq
<1>3. P[Head(q).id] = p
  BY <1>2 DEF Sole
<1>. QED
  BY <1>1, <1>3, PlacedRow

LEMMA PendGiveUpPlace ==
    ASSUME PipelineTypeOK, PlaceInv, Faultless, NeverFlagged', PendGiveUp
    PROVE  PlaceInv'
<1>1. PICK P \in [Tasks -> Places] : Placed(P)
  BY DEF PlaceInv
<1>2. PICK c : c = Head(pendBatch)
  OBVIOUS
<1>3. c \in LiveCopy /\ c.id \in Tasks /\ P[c.id] = "pendBatch" /\ live[c.id] # None
  BY <1>1, <1>2, HeadPlaced DEF PipelineTypeOK, PendGiveUp, Placed
<1>4. logQueue' = Append(logQueue, WithStatus(c, Aborted)) /\ live' = live
  BY <1>2, <1>3, LogPushed DEF PendGiveUp
<1>5. PICK R : Moved(P, R, c.id) /\ R[c.id] = "final"
  BY <1>1, <1>3, SomeMove DEF Places
<1>6. SoleEntry(logQueue', R)
  BY <1>1, <1>3, <1>4, <1>5, EntryTakes DEF ClaimPlaces, TaskStatuses, FinalStatuses
<1>7. Sole(pendBatch', "pendBatch", R)
  <2>1. pendBatch \in Seq(TaskCopy)
    BY LiveCopyIsTaskCopy DEF PipelineTypeOK
  <2>. QED
    BY <1>1, <1>2, <1>5, <2>1, SoleTail DEF Placed, PendGiveUp
<1>8. /\ Sole(pendingQueue, "pending", R) /\ Sole(runningQueue, "running", R)
      /\ Sole(runBatch, "runBatch", R) /\ SoleSubmitter(submitters, R)
      /\ SoleFetched(niqBatch, R) /\ RowsIdle(live, niqWrite, R)
  BY <1>1, <1>3, <1>5, Elsewhere DEF ClaimPlaces
<1>9. Unfailing'
  BY DEF PendGiveUp, PlaceInv, Unfailing, niqVars
<1>. QED
  BY <1>4, <1>5, <1>6, <1>7, <1>8, <1>9, PlacedNext DEF PendGiveUp, niqVars, runVars, Moved

LEMMA PendSpawnPlace ==
    ASSUME PipelineTypeOK, PlaceInv, NEW s \in 1 .. MaxSubmitters, PendSpawn(s)
    PROVE  PlaceInv'
<1>1. PICK P \in [Tasks -> Places] : Placed(P)
  BY DEF PlaceInv
<1>2. PICK c : c = Head(pendBatch)
  OBVIOUS
<1>3. c \in LiveCopy /\ c.id \in Tasks /\ P[c.id] = "pendBatch"
  BY <1>1, <1>2, HeadPlaced DEF PipelineTypeOK, PendSpawn, Placed
<1>4. PICK g : g = [stage |-> "sending", copy |-> c, status |-> PendingInQueue]
  OBVIOUS
<1>5. submitters' = [submitters EXCEPT ![s] = g] /\ Becomes(submitters, submitters', s, g)
  BY <1>2, <1>4 DEF PendSpawn, PipelineTypeOK, Becomes
<1>6. PICK R : Moved(P, R, c.id) /\ R[c.id] = "submitter"
  BY <1>1, <1>3, SomeMove DEF Places
<1>7. SoleSubmitter(submitters', R)
  <2>1. SubmittersOf(submitters)
    BY DEF PipelineTypeOK, SubmittersOf, Submitter, LiveCopy
  <2>2. g.copy = c
    BY <1>4
  <2>. QED
    BY <1>1, <1>3, <1>5, <1>6, <2>1, <2>2, SubmitterTakes DEF Placed
<1>8. Sole(pendBatch', "pendBatch", R)
  <2>1. pendBatch \in Seq(TaskCopy)
    BY LiveCopyIsTaskCopy DEF PipelineTypeOK
  <2>. QED
    BY <1>1, <1>2, <1>6, <2>1, SoleTail DEF Placed, PendSpawn
<1>9. /\ Sole(pendingQueue, "pending", R) /\ Sole(runningQueue, "running", R)
      /\ Sole(runBatch, "runBatch", R) /\ SoleEntry(logQueue, R)
      /\ SoleFetched(niqBatch, R) /\ RowsIdle(live, niqWrite, R)
  BY <1>1, <1>3, <1>6, Elsewhere DEF ClaimPlaces
<1>10. Unfailing'
  <2>1. g.stage = "sending"
    BY <1>4
  <2>. QED
    BY <1>5, <2>1 DEF PendSpawn, PlaceInv, Unfailing, niqVars, LoggingSubmitters, Becomes
<1>. QED
  BY <1>6, <1>7, <1>8, <1>9, <1>10, PlacedNext
  DEF PendSpawn, dbVars, channelVars, niqVars, runVars, Moved

-----------------------------------------------------------------------------
(* The goroutines that submit.                                             *)

LEMMA ClaimingSubmitter ==
    ASSUME PipelineTypeOK, NEW P, Placed(P), NEW s \in 1 .. MaxSubmitters, Claims(submitters[s])
    PROVE  /\ submitters[s].copy \in LiveCopy /\ submitters[s].copy.id \in Tasks
           /\ P[submitters[s].copy.id] = "submitter" /\ live[submitters[s].copy.id] # None
           /\ SubmittersOf(submitters)
<1>1. submitters[s].copy \in LiveCopy
  BY SubmitterType DEF Claims
<1>2. P[submitters[s].copy.id] = "submitter"
  BY DEF Placed, SoleSubmitter
<1>3. submitters[s].copy.id \in Tasks
  BY <1>1 DEF LiveCopy
<1>4. SubmittersOf(submitters)
  BY DEF PipelineTypeOK, SubmittersOf, Submitter, LiveCopy
<1>. QED
  BY <1>1, <1>2, <1>3, <1>4, PlacedRow

LEMMA NoClaim == ~ Claims(None)
BY DEF Claims

LEMMA SubmitterGoneBecomes ==
    ASSUME PipelineTypeOK, NEW s \in 1 .. MaxSubmitters, submitters' = [submitters EXCEPT ![s] = None]
    PROVE  /\ Becomes(submitters, submitters', s, None)
           /\ LoggingSubmitters(submitters) => LoggingSubmitters(submitters')
BY DEF PipelineTypeOK, Becomes, LoggingSubmitters

\* A goroutine settles its task or hands it back through the log channel.
LEMMA SubmitterLogs ==
    ASSUME PipelineTypeOK, PlaceInv, Faultless, NeverFlagged', NEW s \in 1 .. MaxSubmitters,
           Claims(submitters[s]), submitters' = [submitters EXCEPT ![s] = None],
           NEW c \in LiveCopy, c.id = submitters[s].copy.id,
           NEW st \in FinalStatuses \cup IdleStatuses, ChangeStatusAndPushToLogQueue(c, st),
           UNCHANGED <<pendingQueue, runningQueue, pendBatch, runBatch, niqBatch, niqWrite>>
    PROVE  PlaceInv'
<1>1. PICK P \in [Tasks -> Places] : Placed(P)
  BY DEF PlaceInv
<1>2. /\ c.id \in Tasks /\ P[c.id] = "submitter" /\ live[c.id] # None
      /\ SubmittersOf(submitters)
  BY <1>1, ClaimingSubmitter
<1>3. logQueue' = Append(logQueue, WithStatus(c, st)) /\ live' = live
  BY <1>2, LogPushed
<1>4. PICK p : p = IF st \in FinalStatuses THEN "final" ELSE "back"
  OBVIOUS
<1>5. PICK R : Moved(P, R, c.id) /\ R[c.id] = p
  BY <1>1, <1>2, <1>4, SomeMove DEF Places
<1>6. SoleEntry(logQueue', R)
  <2>1. st \in TaskStatuses
    BY DEF TaskStatuses, FinalStatuses, LiveStatuses, IdleStatuses
  <2>2. P[c.id] \notin ClaimPlaces
    BY <1>2 DEF ClaimPlaces
  <2>. QED
    BY <1>1, <1>2, <1>3, <1>4, <1>5, <2>1, <2>2, EntryTakes
<1>7. SoleSubmitter(submitters', R)
  <2>1. Becomes(submitters, submitters', s, None) /\ ~ Claims(None)
    BY SubmitterGoneBecomes, NoClaim
  <2>. QED
    BY <1>1, <1>2, <1>5, <2>1, SubmitterLeaves DEF Placed
<1>8. /\ Sole(pendingQueue, "pending", R) /\ Sole(pendBatch, "pendBatch", R)
      /\ Sole(runningQueue, "running", R) /\ Sole(runBatch, "runBatch", R)
      /\ SoleFetched(niqBatch, R) /\ RowsIdle(live, niqWrite, R)
  BY <1>1, <1>2, <1>4, <1>5, Elsewhere
<1>9. Unfailing'
  BY SubmitterGoneBecomes DEF PlaceInv, Unfailing
<1>. QED
  BY <1>3, <1>5, <1>6, <1>7, <1>8, <1>9, PlacedNext DEF Moved

LEMMA SubmitAcceptedPlace ==
    ASSUME PipelineTypeOK, PlaceInv, NEW s \in 1 .. MaxSubmitters, SubmitAccepted(s)
    PROVE  PlaceInv'
<1>1. PICK P \in [Tasks -> Places] : Placed(P)
  BY DEF PlaceInv
<1>2. Claims(submitters[s])
  BY DEF SubmitAccepted, Sending, Claims
<1>3. PICK c : c = submitters[s].copy
  OBVIOUS
<1>4. /\ c \in LiveCopy /\ c.id \in Tasks /\ P[c.id] = "submitter"
      /\ SubmittersOf(submitters)
  BY <1>1, <1>2, <1>3, ClaimingSubmitter
<1>5. PICK c2 : c2 = [c EXCEPT !.row.sandboxId = NextSandboxId]
  OBVIOUS
<1>6. c2 \in LiveCopy /\ c2.id = c.id
  <2>1. NextSandboxId \in Nat
    BY DEF NextSandboxId, PipelineTypeOK
  <2>. QED
    BY <1>4, <1>5, <2>1 DEF LiveCopy, RowOver
<1>7. PICK g : g = [stage |-> "logging", copy |-> c2,
                    status |-> IF HasRoom(runningQueue, RunningCapacity)
                               THEN RunningInQueue ELSE RunningNotInQueue]
  OBVIOUS
<1>8. /\ g.stage = "logging" /\ g.copy = c2
      /\ g.status = IF HasRoom(runningQueue, RunningCapacity)
                    THEN RunningInQueue ELSE RunningNotInQueue
  BY <1>7
<1>9. Becomes(submitters, submitters', s, g)
  <2>1. submitters' = [submitters EXCEPT ![s] = g]
    BY <1>3, <1>5, <1>7 DEF SubmitAccepted
  <2>. QED
    BY <2>1 DEF PipelineTypeOK, Becomes
<1>10. Unfailing'
  BY <1>8, <1>9 DEF PlaceInv, Unfailing, LoggingSubmitters, Becomes, SubmitAccepted, niqVars
<1>11. CASE HasRoom(runningQueue, RunningCapacity)
  <2>1. runningQueue' = Append(runningQueue, c2)
    BY <1>3, <1>5, <1>11 DEF SubmitAccepted
  <2>2. PICK R : Moved(P, R, c.id) /\ R[c.id] = "running"
    BY <1>1, <1>4, SomeMove DEF Places
  <2>3. Sole(runningQueue', "running", R)
    <3>1. runningQueue \in Seq(TaskCopy) /\ c2 \in TaskCopy
      BY <1>6, LiveCopyIsTaskCopy DEF PipelineTypeOK
    <3>. QED
      BY <1>1, <1>4, <1>6, <2>1, <2>2, <3>1, SoleAppend DEF Placed
  <2>4. SoleSubmitter(submitters', R)
    <3>1. ~ Claims(g)
      BY <1>8, <1>11 DEF Claims, RunningInQueue, RunningNotInQueue
    <3>. QED
      BY <1>1, <1>2, <1>3, <1>4, <1>9, <2>2, <3>1, SubmitterLeaves DEF Placed
  <2>5. /\ Sole(pendingQueue, "pending", R) /\ Sole(pendBatch, "pendBatch", R)
        /\ Sole(runBatch, "runBatch", R) /\ SoleEntry(logQueue, R)
        /\ SoleFetched(niqBatch, R) /\ RowsIdle(live, niqWrite, R)
    BY <1>1, <1>4, <2>2, Elsewhere DEF ClaimPlaces
  <2>. QED
    BY <1>10, <2>2, <2>3, <2>4, <2>5, PlacedNext
    DEF Moved, SubmitAccepted, dbVars, niqVars, runVars
<1>12. CASE ~ HasRoom(runningQueue, RunningCapacity)
  <2>1. runningQueue' = runningQueue
    BY <1>12 DEF SubmitAccepted
  <2>2. SoleSubmitter(submitters', P)
    BY <1>1, <1>2, <1>3, <1>6, <1>8, <1>9, SubmitterChanges DEF Placed
  <2>. QED
    BY <1>1, <1>10, <2>1, <2>2, PlacedNext DEF Placed, SubmitAccepted, dbVars, niqVars, runVars
<1>. QED
  BY <1>11, <1>12

LEMMA SubmitLoggedPlace ==
    ASSUME PipelineTypeOK, PlaceInv, Faultless, NeverFlagged', NEW s \in 1 .. MaxSubmitters,
           SubmitLogged(s)
    PROVE  PlaceInv'
<1>1. PICK P \in [Tasks -> Places] : Placed(P)
  BY DEF PlaceInv
<1>2. /\ submitters[s] # None /\ submitters[s].stage = "logging"
      /\ submitters[s].status \in {RunningInQueue, RunningNotInQueue}
      /\ submitters[s].copy \in LiveCopy
  BY SubmitterType DEF SubmitLogged, PlaceInv, Unfailing, LoggingSubmitters
<1>3. CASE submitters[s].status = RunningNotInQueue
  <2>1. Claims(submitters[s]) /\ submitters[s].status \in FinalStatuses \cup IdleStatuses
    BY <1>2, <1>3 DEF Claims, IdleStatuses
  <2>. QED
    BY <1>2, <2>1, SubmitterLogs DEF SubmitLogged, niqVars, runVars
<1>4. CASE submitters[s].status = RunningInQueue
  <2>1. PICK d : d = WithStatus(submitters[s].copy, RunningInQueue)
    OBVIOUS
  <2>2. logQueue' \in {logQueue, Append(logQueue, d)} /\ live' = live
    BY <1>2, <1>4, <2>1, LogPushedOrNot DEF SubmitLogged
  <2>3. SoleEntry(logQueue', P)
    <3>1. d \in TaskCopy /\ ~ Settles(d) /\ ~ Returns(d)
      BY <1>2, <2>1, PushedStatus, StatusKinds DEF TaskStatuses, LiveStatuses
    <3>2. logQueue \in Seq(TaskCopy)
      BY DEF PipelineTypeOK
    <3>3. SoleEntry(Append(logQueue, d), P)
      BY <1>1, <3>1, <3>2, EntryAppend DEF Placed
    <3>. QED
      BY <1>1, <2>2, <3>3 DEF Placed
  <2>4. SoleSubmitter(submitters', P)
    <3>1. Becomes(submitters, submitters', s, None) /\ ~ Claims(None)
      BY SubmitterGoneBecomes, NoClaim DEF SubmitLogged
    <3>. QED
      BY <1>1, <3>1, SubmitterIdle DEF Placed
  <2>5. Unfailing'
    BY SubmitterGoneBecomes DEF SubmitLogged, PlaceInv, Unfailing, niqVars
  <2>. QED
    BY <1>1, <2>2, <2>3, <2>4, <2>5, PlacedNext DEF Placed, SubmitLogged, niqVars, runVars
<1>. QED
  BY <1>2, <1>3, <1>4

LEMMA SubmitFailedPlace ==
    ASSUME PipelineTypeOK, PlaceInv, Faultless, NeverFlagged', NEW s \in 1 .. MaxSubmitters,
           SubmitFailed(s)
    PROVE  PlaceInv'
<1>1. PICK P \in [Tasks -> Places] : Placed(P)
  BY DEF PlaceInv
<1>2. Claims(submitters[s])
  BY DEF SubmitFailed, Sending, Claims
<1>3. /\ submitters[s].copy \in LiveCopy /\ submitters[s].copy.id \in Tasks
      /\ P[submitters[s].copy.id] = "submitter" /\ SubmittersOf(submitters)
  BY <1>1, <1>2, ClaimingSubmitter
<1>4. PICK c : c = Retried(submitters[s].copy)
  OBVIOUS
<1>5. c \in LiveCopy /\ c.id = submitters[s].copy.id
  BY <1>3, <1>4, CountedType DEF Retried, LiveCopy
<1>6. PICK c2 : c2 = [c EXCEPT !.row.queueRetryCount = @ + 1]
  OBVIOUS
<1>7. c2 \in LiveCopy /\ c2.id = c.id
  BY <1>5, <1>6, CountedType DEF LiveCopy
<1>8. submitters' = [submitters EXCEPT ![s] = None]
  BY DEF SubmitFailed
<1>9. UNCHANGED <<runningQueue, pendBatch, runBatch, niqBatch, niqWrite>>
  BY DEF SubmitFailed, niqVars, runVars
<1>10. ASSUME ChangeStatusAndPushToLogQueue(c, Aborted), UNCHANGED pendingQueue PROVE PlaceInv'
  <2>1. Aborted \in FinalStatuses \cup IdleStatuses
    BY DEF FinalStatuses
  <2>. QED
    BY <1>2, <1>5, <1>8, <1>9, <1>10, <2>1, SubmitterLogs
<1>11. ASSUME pendingQueue' = Append(pendingQueue, c), UNCHANGED <<logQueue, live>> PROVE PlaceInv'
  <2>1. PICK R : Moved(P, R, c.id) /\ R[c.id] = "pending"
    BY <1>1, <1>3, <1>5, SomeMove DEF Places
  <2>2. Sole(pendingQueue', "pending", R)
    <3>1. pendingQueue \in Seq(TaskCopy) /\ c \in TaskCopy
      BY <1>5, LiveCopyIsTaskCopy DEF PipelineTypeOK
    <3>. QED
      BY <1>1, <1>3, <1>5, <1>11, <2>1, <3>1, SoleAppend DEF Placed
  <2>3. SoleSubmitter(submitters', R)
    <3>1. Becomes(submitters, submitters', s, None) /\ ~ Claims(None)
      BY <1>8, SubmitterGoneBecomes, NoClaim
    <3>. QED
      BY <1>1, <1>2, <1>3, <1>5, <2>1, <3>1, SubmitterLeaves DEF Placed
  <2>4. /\ Sole(runningQueue, "running", R) /\ Sole(pendBatch, "pendBatch", R)
        /\ Sole(runBatch, "runBatch", R) /\ SoleEntry(logQueue, R)
        /\ SoleFetched(niqBatch, R) /\ RowsIdle(live, niqWrite, R)
    BY <1>1, <1>3, <1>5, <2>1, Elsewhere DEF ClaimPlaces
  <2>5. Unfailing'
    BY <1>8, <1>9, SubmitterGoneBecomes DEF PlaceInv, Unfailing
  <2>. QED
    BY <1>9, <1>11, <2>1, <2>2, <2>3, <2>4, <2>5, PlacedNext DEF Moved
<1>12. ASSUME SubmitRetryThroughLog(c2), UNCHANGED pendingQueue PROVE PlaceInv'
  <2>1. CASE ChangeStatusAndPushToLogQueue(c2, Aborted)
    <3>1. Aborted \in FinalStatuses \cup IdleStatuses
      BY DEF FinalStatuses
    <3>. QED
      BY <1>2, <1>5, <1>7, <1>8, <1>9, <1>12, <2>1, <3>1, SubmitterLogs
  <2>2. CASE ChangeStatusAndPushToLogQueue(WithStatus(c2, PendingNotInQueue), PendingNotInQueue)
    <3>1. PICK d : d = WithStatus(c2, PendingNotInQueue)
      OBVIOUS
    <3>2. d \in LiveCopy /\ d.id = c.id
      <4>1. PendingNotInQueue \in LiveStatuses /\ PendingNotInQueue \in TaskStatuses
        BY DEF LiveStatuses, TaskStatuses
      <4>. QED
        BY <1>7, <3>1, <4>1, WithStatusType, PushedStatus DEF LiveCopy
    <3>3. PendingNotInQueue \in FinalStatuses \cup IdleStatuses
      BY DEF IdleStatuses
    <3>. QED
      BY <1>2, <1>5, <1>8, <1>9, <1>12, <2>2, <3>1, <3>2, <3>3, SubmitterLogs
  <2>. QED
    BY <1>12, <2>1, <2>2 DEF SubmitRetryThroughLog
<1>. QED
  BY <1>4, <1>6, <1>10, <1>11, <1>12 DEF SubmitFailed

-----------------------------------------------------------------------------
(* RunningQueueHandler.                                                    *)

LEMMA RunFetchPlace ==
    ASSUME PipelineTypeOK, PlaceInv, RunFetch
    PROVE  PlaceInv'
<1>1. PICK P \in [Tasks -> Places] : Placed(P)
  BY DEF PlaceInv
<1>2. PICK R : R = [t \in Tasks |-> IF \E i \in 1 .. Len(runningQueue) : runningQueue[i].id = t
                                    THEN "runBatch" ELSE P[t]]
  OBVIOUS
<1>3. R \in [Tasks -> Places]
  BY <1>2 DEF Places
<1>4. Sole(runBatch', "runBatch", R)
  <2>1. \A i \in 1 .. Len(runningQueue) : runningQueue[i].id \in Tasks
    <3>1. runningQueue \in Seq(TaskCopy)
      BY LiveCopyIsTaskCopy DEF PipelineTypeOK
    <3>. QED
      BY <3>1, CopiesOf
  <2>2. \A i \in 1 .. Len(runningQueue) : R[runningQueue[i].id] = "runBatch"
    BY <1>2, <2>1
  <2>3. runBatch' = runningQueue
    BY DEF RunFetch
  <2>. QED
    BY <1>1, <2>2, <2>3 DEF Placed, Sole
<1>5. Sole(runningQueue', "running", R)
  BY SoleEmpty DEF RunFetch
<1>6. /\ Sole(pendingQueue, "pending", R) /\ Sole(pendBatch, "pendBatch", R)
      /\ SoleSubmitter(submitters, R) /\ SoleFetched(niqBatch, R)
      /\ SoleEntry(logQueue, R) /\ RowsIdle(live, niqWrite, R)
  <2>. PICK p : p = "running"
    OBVIOUS
  <2>1. p \notin ClaimPlaces /\ p \notin {"row", "submitter"} /\ p # "pending" /\ p # "pendBatch"
    BY DEF ClaimPlaces
  <2>2. \A u \in Tasks : R[u] = P[u] \/ (P[u] = p /\ R[u] # "away")
    BY <1>1, <1>2 DEF Placed, Sole
  <2>. QED
    BY <1>1, <2>1, <2>2, ElsewhereAll
<1>7. Unfailing'
  BY DEF RunFetch, PlaceInv, Unfailing, niqVars, pendVars
<1>. QED
  BY <1>3, <1>4, <1>5, <1>6, <1>7, PlacedNext DEF RunFetch, dbVars, niqVars, pendVars

\* changeStatusAndPushToLogQueue when its statement runs.
Logged(st, c, s) == LogChange(st, c, s, TRUE)

Flagged(table, t) == table[t] # None /\ table[t].logQueueFailed

LEMMA LoggedType ==
    ASSUME NEW st \in LogStates, NEW c \in LiveCopy, NEW s \in TaskStatuses
    PROVE  Logged(st, c, s) \in LogStates
BY LogChangeType DEF Logged

LEMMA LoggedRoom ==
    ASSUME NEW st, st \in LogStates, NEW c, c \in LiveCopy, NEW s,
           HasRoom(st.queue, LogCapacity)
    PROVE  /\ Logged(st, c, s).queue = Append(st.queue, WithStatus(c, s))
           /\ Logged(st, c, s).table = st.table
BY DEF Logged, LogChange, Push, LogStates

LEMMA LoggedNoRoom ==
    ASSUME NEW st, st \in LogStates, NEW c, c \in LiveCopy, st.table[c.id] # None, NEW s,
           ~ HasRoom(st.queue, LogCapacity)
    PROVE  Logged(st, c, s).queue = st.queue /\ Flagged(Logged(st, c, s).table, c.id)
<1>. DEFINE row == [c.row EXCEPT !.logQueueFailed = TRUE]
            new == WriteRow(st.table, c.id, row)
<1>1. Logged(st, c, s).queue = st.queue /\ Logged(st, c, s).table = new
  BY DEF Logged, LogChange, LogStates
<1>2. row \in RowOver(LiveStatuses) /\ row.logQueueFailed /\ c.id \in Tasks
  BY DEF LiveCopy, RowOver
<1>. HIDE DEF row
<1>3. new[c.id] = [row EXCEPT !.hash = st.table[c.id].hash]
  BY <1>2 DEF WriteRow, LogStates, LiveTable
<1>4. st.table[c.id].hash \in Hashes \cup {NoHash}
  BY <1>2 DEF LogStates, LiveTable, RowOver
<1>. HIDE DEF new
<1>5. new[c.id] \in RowOver(LiveStatuses) /\ new[c.id].logQueueFailed
  BY <1>2, <1>3, <1>4 DEF RowOver
<1>6. new[c.id] # None
  BY <1>5, DbAssumption
<1>. QED
  BY <1>1, <1>5, <1>6 DEF Flagged

\* Two pushes in a row, to a channel that has room for both.
LEMMA TwoPushes ==
    ASSUME PipelineTypeOK, NeverFlagged', NEW c \in LiveCopy, live[c.id] # None,
           NEW st, st = LogState, NEW s2, s2 = st \/ s2 = Logged(st, c, Aborted),
           LogStateBecomes(Logged(s2, c, RunningNotInQueue))
    PROVE  /\ live' = live
           /\ \/ logQueue' = Append(logQueue, WithStatus(c, RunningNotInQueue))
              \/ logQueue' = Append(Append(logQueue, WithStatus(c, Aborted)),
                                    WithStatus(c, RunningNotInQueue))
<1>1. c.id \in Tasks
  BY DEF LiveCopy
<1>2. st \in LogStates /\ st.queue = logQueue /\ st.table = live
  BY LogStateType DEF LogState
<1>3. /\ logQueue' = Logged(s2, c, RunningNotInQueue).queue
      /\ live' = Logged(s2, c, RunningNotInQueue).table
  BY DEF LogStateBecomes
<1>4. ~ Flagged(live', c.id)
  BY <1>1 DEF NeverFlagged, Flagged
<1>5. s2 \in LogStates /\ s2.table[c.id] # None
  <2>1. CASE s2 = Logged(st, c, Aborted) /\ HasRoom(st.queue, LogCapacity)
    BY <1>2, <2>1, LoggedRoom, LoggedType DEF TaskStatuses, FinalStatuses
  <2>2. CASE s2 = Logged(st, c, Aborted) /\ ~ HasRoom(st.queue, LogCapacity)
    <3>1. st.table[c.id] # None
      BY <1>2
    <3>2. Flagged(s2.table, c.id)
      BY <1>2, <2>2, <3>1, LoggedNoRoom
    <3>. QED
      BY <1>2, <2>2, <3>2, LoggedType DEF TaskStatuses, FinalStatuses, Flagged
  <2>. QED
    BY <1>2, <2>1, <2>2
<1>6. HasRoom(s2.queue, LogCapacity)
  BY <1>3, <1>4, <1>5, LoggedNoRoom
<1>7. logQueue' = Append(s2.queue, WithStatus(c, RunningNotInQueue)) /\ live' = s2.table
  BY <1>3, <1>5, <1>6, LoggedRoom
<1>8. CASE s2 = Logged(st, c, Aborted)
  <2>1. HasRoom(st.queue, LogCapacity)
    <3>1. st.table[c.id] # None
      BY <1>2
    <3>2. ~ HasRoom(st.queue, LogCapacity) => s2.queue = st.queue
      BY <1>2, <1>8, <3>1, LoggedNoRoom
    <3>. QED
      BY <1>6, <3>2
  <2>2. s2.queue = Append(logQueue, WithStatus(c, Aborted)) /\ s2.table = live
    BY <1>2, <1>8, <2>1, LoggedRoom
  <2>. QED
    BY <1>7, <2>2
<1>. QED
  BY <1>2, <1>7, <1>8

LEMMA NotFoundPushed ==
    ASSUME PipelineTypeOK, NeverFlagged', NEW c \in LiveCopy, live[c.id] # None, NEW c2,
           c2 = [c EXCEPT !.row.runningRetryCount = @ + 1],
           LogStateBecomes(LogNotFound(LogState, c, TRUE))
    PROVE  /\ live' = live /\ c2 \in LiveCopy /\ c2.id = c.id
           /\ \/ logQueue' = Append(logQueue, WithStatus(c2, RunningNotInQueue))
              \/ logQueue' = Append(Append(logQueue, WithStatus(c2, Aborted)),
                                    WithStatus(c2, RunningNotInQueue))
<1>1. c2 \in LiveCopy /\ c2.id = c.id
  BY CountedType DEF LiveCopy
<1>2. PICK st : st = LogState
  OBVIOUS
<1>3. PICK s2 : s2 = IF c2.row.runningRetryCount >= RunningMaxRetries
                     THEN Logged(st, c2, Aborted) ELSE st
  OBVIOUS
<1>4. LogStateBecomes(Logged(s2, c2, RunningNotInQueue))
  BY <1>2, <1>3 DEF LogNotFound, Logged
<1>5. s2 = st \/ s2 = Logged(st, c2, Aborted)
  BY <1>3
<1>6. live[c2.id] # None
  BY <1>1
<1>. HIDE DEF LogState
<1>. QED
  BY <1>1, <1>2, <1>4, <1>5, <1>6, TwoPushes

\* The task at the head of the batch has moved to r.
LEMMA RunMoves ==
    ASSUME PipelineTypeOK, PlaceInv, RunCheck, NEW P \in [Tasks -> Places], Placed(P),
           NEW c, c = Head(runBatch), NEW R, Moved(P, R, c.id), R[c.id] # "away",
           Sole(runningQueue', "running", R), SoleEntry(logQueue', R), live' = live
    PROVE  PlaceInv'
<1>1. c \in LiveCopy /\ c.id \in Tasks /\ P[c.id] = "runBatch"
  BY HeadPlaced DEF PipelineTypeOK, RunCheck, Placed
<1>2. Sole(runBatch', "runBatch", R)
  <2>1. runBatch \in Seq(TaskCopy)
    BY LiveCopyIsTaskCopy DEF PipelineTypeOK
  <2>. QED
    BY <2>1, SoleTail DEF Placed, RunCheck
<1>3. /\ Sole(pendingQueue, "pending", R) /\ Sole(pendBatch, "pendBatch", R)
      /\ SoleSubmitter(submitters, R) /\ SoleFetched(niqBatch, R)
      /\ RowsIdle(live, niqWrite, R)
  BY <1>1, Elsewhere
<1>4. Unfailing'
  BY DEF RunCheck, PlaceInv, Unfailing, niqVars, pendVars
<1>. QED
  BY <1>2, <1>3, <1>4, PlacedNext DEF RunCheck, niqVars, pendVars, Moved

LEMMA RunCheckPlace ==
    ASSUME PipelineTypeOK, PlaceInv, Faultless, NeverFlagged', RunCheck
    PROVE  PlaceInv'
<1>1. PICK P \in [Tasks -> Places] : Placed(P)
  BY DEF PlaceInv
<1>2. PICK c : c = Head(runBatch)
  OBVIOUS
<1>3. c \in LiveCopy /\ c.id \in Tasks /\ P[c.id] = "runBatch" /\ live[c.id] # None
  BY <1>1, <1>2, HeadPlaced DEF PipelineTypeOK, RunCheck, Placed
<1>4. P[c.id] \notin ClaimPlaces /\ P[c.id] # "running"
  BY <1>3 DEF ClaimPlaces
<1>5. ASSUME NEW s \in FinalStatuses \cup IdleStatuses, ChangeStatusAndPushToLogQueue(c, s),
             UNCHANGED runningQueue
      PROVE  PlaceInv'
  <2>1. logQueue' = Append(logQueue, WithStatus(c, s)) /\ live' = live
    BY <1>3, <1>5, LogPushed
  <2>2. PICK p : p = IF s \in FinalStatuses THEN "final" ELSE "back"
    OBVIOUS
  <2>3. PICK R : Moved(P, R, c.id) /\ R[c.id] = p
    BY <1>1, <1>3, <2>2, SomeMove DEF Places
  <2>4. SoleEntry(logQueue', R)
    <3>1. s \in TaskStatuses
      BY DEF TaskStatuses, FinalStatuses, LiveStatuses, IdleStatuses
    <3>. QED
      BY <1>1, <1>3, <1>4, <2>1, <2>2, <2>3, <3>1, EntryTakes
  <2>5. Sole(runningQueue', "running", R)
    BY <1>1, <1>3, <1>4, <1>5, <2>3, Elsewhere
  <2>. QED
    BY <1>1, <1>2, <2>1, <2>2, <2>3, <2>4, <2>5, RunMoves
<1>6. ASSUME NEW ok \in BOOLEAN, Statement(ok), LogStateBecomes(LogNotFound(LogState, c, ok)),
             UNCHANGED runningQueue
      PROVE  PlaceInv'
  <2>1. ok = TRUE
    BY <1>6, StatementRuns
  <2>2. PICK c2 : c2 = [c EXCEPT !.row.runningRetryCount = @ + 1]
    OBVIOUS
  <2>3. PICK qa : qa = Append(logQueue, WithStatus(c2, Aborted))
    OBVIOUS
  <2>4. /\ live' = live /\ c2 \in LiveCopy /\ c2.id = c.id
        /\ \/ logQueue' = Append(logQueue, WithStatus(c2, RunningNotInQueue))
           \/ logQueue' = Append(qa, WithStatus(c2, RunningNotInQueue))
    <3>1. LogStateBecomes(LogNotFound(LogState, c, TRUE))
      BY <1>6, <2>1
    <3>. QED
      BY <1>3, <2>2, <2>3, <3>1, NotFoundPushed
  <2>5. /\ Aborted \in TaskStatuses /\ Aborted \in FinalStatuses
        /\ RunningNotInQueue \in TaskStatuses /\ RunningNotInQueue \in IdleStatuses
    BY DEF TaskStatuses, FinalStatuses, LiveStatuses, IdleStatuses
  <2>6. CASE logQueue' = Append(logQueue, WithStatus(c2, RunningNotInQueue))
    <3>1. PICK R : Moved(P, R, c.id) /\ R[c.id] = "back"
      BY <1>1, <1>3, SomeMove DEF Places
    <3>2. SoleEntry(logQueue', R)
      BY <1>1, <1>3, <1>4, <2>4, <2>5, <2>6, <3>1, EntryTakes
    <3>3. Sole(runningQueue', "running", R)
      BY <1>1, <1>3, <1>4, <1>6, <3>1, Elsewhere
    <3>. QED
      BY <1>1, <1>2, <2>4, <3>1, <3>2, <3>3, RunMoves
  <2>7. CASE logQueue' = Append(qa, WithStatus(c2, RunningNotInQueue))
    <3>1. PICK R : Moved(P, R, c.id) /\ R[c.id] = "final"
      BY <1>1, <1>3, SomeMove DEF Places
    <3>2. SoleEntry(qa, R)
      BY <1>1, <1>3, <1>4, <2>3, <2>4, <2>5, <3>1, EntryTakes
    <3>3. PICK d : d = WithStatus(c2, RunningNotInQueue)
      OBVIOUS
    <3>4. d \in TaskCopy /\ d.id = c.id /\ Returns(d) /\ ~ Settles(d)
      BY <2>4, <2>5, <3>3, PushedStatus, StatusKinds
    <3>5. qa \in Seq(TaskCopy) /\ \E i \in 1 .. Len(qa) : qa[i].id = c.id /\ Settles(qa[i])
      <4>1. PICK a : a = WithStatus(c2, Aborted)
        OBVIOUS
      <4>2. a \in TaskCopy /\ a.id = c.id /\ Settles(a)
        BY <2>4, <2>5, <4>1, PushedStatus
      <4>3. logQueue \in Seq(TaskCopy)
        BY DEF PipelineTypeOK
      <4>4. /\ qa \in Seq(TaskCopy) /\ Len(qa) = Len(logQueue) + 1 /\ qa[Len(logQueue) + 1] = a
            /\ Len(logQueue) \in Nat
        BY <2>3, <4>1, <4>2, <4>3, AppendProperties
      <4>. QED
        BY <4>2, <4>4
    <3>6. SoleEntry(Append(qa, d), R)
      BY <3>2, <3>4, <3>5, EntryAppend
    <3>7. Sole(runningQueue', "running", R)
      BY <1>1, <1>3, <1>4, <1>6, <3>1, Elsewhere
    <3>. QED
      BY <1>1, <1>2, <2>4, <2>7, <3>1, <3>3, <3>6, <3>7, RunMoves
  <2>. QED
    BY <2>4, <2>6, <2>7
<1>7. ASSUME runningQueue' = Append(runningQueue, c), UNCHANGED <<logQueue, live>> PROVE PlaceInv'
  <2>1. PICK R : Moved(P, R, c.id) /\ R[c.id] = "running"
    BY <1>1, <1>3, SomeMove DEF Places
  <2>2. SoleEntry(logQueue', R)
    BY <1>1, <1>3, <1>4, <1>7, <2>1, Elsewhere
  <2>3. Sole(runningQueue', "running", R)
    <3>1. runningQueue \in Seq(TaskCopy) /\ c \in TaskCopy
      BY <1>3, LiveCopyIsTaskCopy DEF PipelineTypeOK
    <3>. QED
      BY <1>1, <1>4, <1>7, <2>1, <3>1, SoleAppend DEF Placed
  <2>. QED
    BY <1>1, <1>2, <1>7, <2>1, <2>2, <2>3, RunMoves
<1>8. {Aborted, Reported, RunningNotInQueue} \subseteq FinalStatuses \cup IdleStatuses
  BY DEF FinalStatuses, IdleStatuses
<1>. QED
  BY <1>2, <1>5, <1>6, <1>7, <1>8 DEF RunCheck

-----------------------------------------------------------------------------
(* LogQueueHandler.                                                        *)

\* updateStatusChangeDirectlyThroughDb gives a row back to NotInQueueHandler only
\* when the entry was the task's place, and otherwise stores a busy status.
LEMMA LogStatusPlace ==
    ASSUME PipelineTypeOK, PlaceInv, Faultless, LogStatus
    PROVE  PlaceInv'
<1>1. PICK P \in [Tasks -> Places] : Placed(P)
  BY DEF PlaceInv
<1>2. PICK c : c = Head(logQueue)
  OBVIOUS
<1>3. PICK t : t = c.id
  OBVIOUS
<1>4. c \in TaskCopy /\ logQueue \in Seq(TaskCopy) /\ logQueue # <<>>
  BY <1>2, HeadOfLog DEF LogStatus, PipelineTypeOK
<1>5. t \in Tasks /\ c.row \in RowOver(LiveStatuses) /\ ~ Settles(c)
  BY <1>2, <1>3, <1>4 DEF TaskCopy, RowOver, TaskStatuses, LogStatus, Settles
<1>6. live' = WriteRow(live, t, c.row)
  BY <1>2, <1>3, StatementRuns DEF LogStatus
<1>7. /\ \A u \in Tasks : u # t => live'[u] = live[u]
      /\ live'[t] = None <=> live[t] = None
      /\ live'[t] # None => live'[t].status = c.row.status
  <2>1. CASE live[t] = None
    BY <1>6, <2>1 DEF WriteRow
  <2>2. CASE live[t] # None
    <3>1. PICK row : row = [c.row EXCEPT !.hash = live[t].hash]
      OBVIOUS
    <3>2. live[t].hash \in Hashes \cup {NoHash}
      BY <1>5, <2>2 DEF PipelineTypeOK, DbTypeOK, RowOver
    <3>3. row \in RowOver(LiveStatuses) /\ row.status = c.row.status
      BY <1>5, <3>1, <3>2 DEF RowOver
    <3>4. row # None
      BY <3>3, DbAssumption
    <3>5. live' = [live EXCEPT ![t] = row]
      BY <1>6, <2>2, <3>1 DEF WriteRow
    <3>6. live'[t] = row /\ \A u \in Tasks : u # t => live'[u] = live[u]
      BY <1>5, <3>5 DEF PipelineTypeOK, DbTypeOK
    <3>. QED
      BY <2>2, <3>3, <3>4, <3>6
  <2>. QED
    BY <2>1, <2>2
<1>8. Returns(c) <=> c.row.status \in IdleStatuses
  BY DEF Returns
<1>9. Returns(c) => P[t] \in {"away", "back"}
  <2>1. Len(logQueue) \in Nat /\ Len(logQueue) > 0 /\ c = logQueue[1]
    BY <1>2, <1>4, EmptySeq
  <2>2. 1 \in 1 .. Len(logQueue) /\ \A j \in 1 .. 1 - 1 : FALSE
    BY <2>1
  <2>3. SoleEntry(logQueue, P)
    BY <1>1 DEF Placed
  <2>. QED
    BY <1>3, <2>1, <2>2, <2>3 DEF SoleEntry
<1>10. PICK R : /\ Moved(P, R, t)
                /\ R[t] = IF Returns(c) /\ P[t] = "back" THEN "row" ELSE P[t]
  <2>1. (IF Returns(c) /\ P[t] = "back" THEN "row" ELSE P[t]) \in Places
    BY <1>1, <1>5 DEF Places
  <2>. QED
    BY <1>1, <1>5, <2>1, SomeMove
<1>11. RowsIdle(live', niqWrite, R)
  <2>1. RowsIdle(live, niqWrite, P)
    BY <1>1 DEF Placed
  <2>2. R[t] = "away" <=> P[t] = "away"
    BY <1>10
  <2>3. live'[t] # None /\ live'[t].status \in IdleStatuses => R[t] = "row"
    BY <1>1, <1>5, <1>7, <1>8, <1>9, <1>10, PlacedRow
  <2>. QED
    BY <1>5, <1>7, <1>10, <2>1, <2>2, <2>3, RowsMove
<1>12. SoleEntry(logQueue', R)
  <2>1. \A i \in 1 .. Len(logQueue) : logQueue[i].id # t => R[logQueue[i].id] = P[logQueue[i].id]
    BY <1>4, <1>10, CopiesOf DEF Moved
  <2>2. SoleEntry(Tail(logQueue), R)
    BY <1>1, <1>2, <1>3, <1>4, <1>5, <1>10, <2>1, EntryTail DEF Placed
  <2>. QED
    BY <2>2 DEF LogStatus
<1>13. /\ Sole(pendingQueue, "pending", R) /\ Sole(pendBatch, "pendBatch", R)
       /\ Sole(runningQueue, "running", R) /\ Sole(runBatch, "runBatch", R)
       /\ SoleSubmitter(submitters, R) /\ SoleFetched(niqBatch, R)
  <2>1. CASE R[t] = P[t]
    <3>1. \A u \in Tasks : R[u] = P[u]
      BY <1>10, <2>1 DEF Moved
    <3>2. R = P
      BY <1>1, <1>10, <3>1 DEF Moved
    <3>. QED
      BY <1>1, <3>2 DEF Placed
  <2>2. CASE P[t] = "back"
    BY <1>1, <1>5, <1>10, <2>2, Elsewhere
  <2>. QED
    BY <1>10, <2>1, <2>2
<1>14. Unfailing'
  BY DEF LogStatus, PlaceInv, Unfailing, niqVars, pendVars
<1>. QED
  BY <1>10, <1>11, <1>12, <1>13, <1>14, PlacedNext
  DEF LogStatus, niqVars, pendVars, runVars, Moved

\* A task is settled once, and the duplicates promoted for it have only their rows.
LEMMA LogCommitPlace ==
    ASSUME ServedInv, PlaceInv, Faultless, LogCommit
    PROVE  PlaceInv'
<1>. PipelineTypeOK
  BY DEF ServedInv, OnePlaceInv
<1>1. PICK P \in [Tasks -> Places] : Placed(P)
  BY DEF PlaceInv
<1>2. PICK c : c = Head(logQueue)
  OBVIOUS
<1>3. PICK t : t = c.id
  OBVIOUS
<1>4. /\ c \in TaskCopy /\ logQueue \in Seq(TaskCopy) /\ logQueue # <<>> /\ t \in Tasks
      /\ Settles(c)
  BY <1>2, <1>3, HeadOfLog DEF LogCommit, PipelineTypeOK, TaskCopy, ServedInv, ReadCurrent, Settles
<1>5. P[t] = "final"
  <2>1. Len(logQueue) \in Nat /\ Len(logQueue) > 0 /\ c = logQueue[1]
    BY <1>2, <1>4, EmptySeq
  <2>2. 1 \in 1 .. Len(logQueue)
    BY <2>1
  <2>. QED
    BY <1>1, <1>3, <1>4, <2>1, <2>2 DEF Placed, SoleEntry
<1>6. PICK D \in {{}, logRead.dups} : live' = LiveAfterFinish(t, D)
  BY <1>2, <1>3, StatementRuns DEF LogCommit, Finish, Abort
<1>7. \A d \in D : d \in dup /\ d \in Tasks /\ d \notin KnownIds /\ live[d] = None /\ d # t
  <2>1. D \subseteq dup /\ dup \subseteq Tasks
    BY <1>6 DEF LogCommit, ServedInv, OnePlaceInv, CopiesKnown, PipelineTypeOK, DbTypeOK
  <2>2. \A d \in D : live[d] = None
    BY <2>1 DEF ServedInv, OnePlaceInv, OnePlace
  <2>3. live[t] # None
    BY <1>1, <1>4, <1>5, PlacedRow
  <2>. QED
    BY <2>1, <2>2, <2>3 DEF KnownIds
<1>8. PICK R : R = [u \in Tasks |-> IF u \in D THEN "row" ELSE IF u = t THEN "away" ELSE P[u]]
  OBVIOUS
<1>9. R \in [Tasks -> Places]
  BY <1>8 DEF Places
<1>10. \A u \in Tasks : R[u] = P[u] \/ P[u] \in {"final", "away"}
  BY <1>1, <1>5, <1>7, <1>8, PlacedRow
<1>11. RowsIdle(live', niqWrite, R)
  <2>1. PromotedRow # None
    BY PromotedRowType, DbAssumption
  <2>2. \A u \in Tasks : live'[u] = IF u \in D THEN PromotedRow ELSE IF u = t THEN None ELSE live[u]
    BY <1>6 DEF LiveAfterFinish
  <2>3. \A u \in Tasks : R[u] = IF u \in D THEN "row" ELSE IF u = t THEN "away" ELSE P[u]
    BY <1>8
  <2>4. RowsIdle(live, niqWrite, P)
    BY <1>1 DEF Placed
  <2>. QED
    BY <2>1, <2>2, <2>3, <2>4 DEF RowsIdle
<1>12. SoleEntry(logQueue', R)
  <2>1. \A i \in 1 .. Len(logQueue) : logQueue[i].id \in KnownIds
    <3>1. logQueue \in Seq(KnownCopy)
      BY DEF ServedInv, OnePlaceInv, CopiesKnown
    <3>2. \A i \in 1 .. Len(logQueue) : logQueue[i] \in KnownCopy
      BY <3>1, ElementOfSeq
    <3>. QED
      BY <3>2 DEF KnownCopy
  <2>2. \A i \in 1 .. Len(logQueue) : logQueue[i].id # t => R[logQueue[i].id] = P[logQueue[i].id]
    BY <1>4, <1>7, <1>8, <2>1, CopiesOf
  <2>3. R[t] = "away"
    BY <1>4, <1>7, <1>8
  <2>4. SoleEntry(Tail(logQueue), R)
    BY <1>1, <1>2, <1>3, <1>4, <2>2, <2>3, EntryTail DEF Placed
  <2>. QED
    BY <2>4 DEF LogCommit
<1>13. ASSUME NEW q \in Seq(TaskCopy), NEW x, Sole(q, x, P), x \notin {"final", "away"}
       PROVE  Sole(q, x, R)
  <2>1. \A i \in 1 .. Len(q) : R[q[i].id] = x
    BY <1>10, <1>13, CopiesOf DEF Sole
  <2>. QED
    BY <1>13, <2>1 DEF Sole
<1>14. /\ Sole(pendingQueue, "pending", R) /\ Sole(pendBatch, "pendBatch", R)
       /\ Sole(runningQueue, "running", R) /\ Sole(runBatch, "runBatch", R)
  <2>1. /\ pendingQueue \in Seq(TaskCopy) /\ pendBatch \in Seq(TaskCopy)
        /\ runningQueue \in Seq(TaskCopy) /\ runBatch \in Seq(TaskCopy)
    BY LiveCopyIsTaskCopy DEF PipelineTypeOK
  <2>. QED
    BY <1>1, <1>13, <2>1 DEF Placed
<1>15. SoleSubmitter(submitters, R)
  <2>1. \A s \in 1 .. MaxSubmitters : Claims(submitters[s]) => submitters[s].copy.id \in Tasks
    BY DEF PipelineTypeOK, Claims, Submitter, LiveCopy
  <2>2. \A s \in 1 .. MaxSubmitters : Claims(submitters[s]) => R[submitters[s].copy.id] = "submitter"
    BY <1>1, <1>10, <2>1 DEF Placed, SoleSubmitter
  <2>. QED
    BY <1>1, <2>2 DEF Placed, SoleSubmitter
<1>16. SoleFetched(niqBatch, R)
  <2>1. \A d \in niqBatch : d.id \in Tasks
    BY DEF PipelineTypeOK, LiveCopy
  <2>2. \A d \in niqBatch : R[d.id] = "row"
    BY <1>1, <1>10, <2>1 DEF Placed, SoleFetched
  <2>. QED
    BY <1>1, <2>2 DEF Placed, SoleFetched
<1>17. Unfailing'
  BY DEF LogCommit, PlaceInv, Unfailing, niqVars, pendVars
<1>. QED
  BY <1>9, <1>11, <1>12, <1>14, <1>15, <1>16, <1>17, PlacedNext
  DEF LogCommit, niqVars, pendVars, runVars

-----------------------------------------------------------------------------
(* The restart and the rest.                                               *)

\* The rows are all that is left, and ResetQueueDb makes each of them a place.
LEMMA RestartPlace ==
    ASSUME PipelineTypeOK, NEW rebooted \in BOOLEAN, Restart(rebooted)
    PROVE  PlaceInv'
<1>1. PICK R : R = [t \in Tasks |-> IF live'[t] = None THEN "away" ELSE "row"]
  OBVIOUS
<1>2. R \in [Tasks -> Places]
  BY <1>1 DEF Places
<1>3. \A t \in Tasks : R[t] = "away" <=> live'[t] = None
  BY <1>1
<1>4. RowsIdle(live, niqWrite, R)'
  BY <1>1, <1>3 DEF RowsIdle
<1>5. SoleSubmitter(submitters, R)' /\ Unfailing'
  BY NoClaim DEF Restart, SoleSubmitter, Unfailing, WriteBusy, LoggingSubmitters
<1>6. SoleFetched(niqBatch, R)'
  BY DEF Restart, SoleFetched
<1>7. SoleEntry(logQueue, R)'
  <2>1. Len(<<>>) = 0
    OBVIOUS
  <2>. QED
    BY <2>1 DEF Restart, SoleEntry
<1>8. /\ Sole(pendingQueue, "pending", R)' /\ Sole(pendBatch, "pendBatch", R)'
      /\ Sole(runningQueue, "running", R)' /\ Sole(runBatch, "runBatch", R)'
  BY SoleEmpty DEF Restart
<1>. QED
  BY <1>2, <1>4, <1>5, <1>6, <1>7, <1>8, PlacedNext

LEMMA SamePlaces ==
    ASSUME PlaceInv, UNCHANGED <<live, channelVars, niqVars, pendVars, runBatch>>
    PROVE  PlaceInv'
BY DEF PlaceInv, Placed, Unfailing, channelVars, niqVars, pendVars

LEMMA InitPlace == PipelineInit => PlaceInv
<1>. SUFFICES ASSUME PipelineInit PROVE PlaceInv
  OBVIOUS
<1>1. PICK R : R = [t \in Tasks |-> IF live[t] = None THEN "away" ELSE "row"]
  OBVIOUS
<1>2. R \in [Tasks -> Places]
  BY <1>1 DEF Places
<1>3. RowsIdle(live, niqWrite, R)
  BY <1>1 DEF RowsIdle
<1>4. SoleSubmitter(submitters, R) /\ Unfailing
  BY NoClaim DEF PipelineInit, EmptyMemory, SoleSubmitter, Unfailing, WriteBusy, LoggingSubmitters
<1>5. SoleFetched(niqBatch, R)
  BY DEF PipelineInit, EmptyMemory, SoleFetched
<1>6. SoleEntry(logQueue, R)
  <2>1. Len(<<>>) = 0
    OBVIOUS
  <2>. QED
    BY <2>1 DEF PipelineInit, EmptyMemory, SoleEntry
<1>7. /\ Sole(pendingQueue, "pending", R) /\ Sole(pendBatch, "pendBatch", R)
      /\ Sole(runningQueue, "running", R) /\ Sole(runBatch, "runBatch", R)
  BY SoleEmpty DEF PipelineInit, EmptyMemory
<1>. QED
  BY <1>2, <1>3, <1>4, <1>5, <1>6, <1>7 DEF PlaceInv, Placed

LEMMA NextPlace ==
    ASSUME ServedInv, PlaceInv, Undisturbed, NeverFlagged', Faultless,
           [PipelineNext]_pipelineVars
    PROVE  PlaceInv'
<1>. PipelineTypeOK
  BY DEF ServedInv, OnePlaceInv
<1>1. CASE NiqNext
  BY <1>1, NiqFetchPlace, NiqPushPlace, NiqUpdatePlace DEF NiqNext, Undisturbed
<1>2. CASE PendNext
  BY <1>2, PendFetchPlace, PendGiveUpPlace, PendSpawnPlace DEF PendNext
<1>3. CASE RunNext
  <2>1. CASE RunList
    BY <2>1, SamePlaces DEF RunList, dbVars
  <2>. QED
    BY <1>3, <2>1, RunFetchPlace, RunCheckPlace DEF RunNext
<1>4. CASE LogNext
  <2>1. CASE LogPrepare
    BY <2>1, SamePlaces DEF LogPrepare, dbVars, runVars
  <2>. QED
    BY <1>4, <2>1, LogCommitPlace, LogStatusPlace DEF LogNext
<1>5. CASE DeleteNext
  BY <1>5, SamePlaces DEF DeleteNext, DeleteLocalTask, DeleteSandboxData, dbVars, runVars
<1>6. CASE \E s \in 1 .. MaxSubmitters : SubmitNext(s)
  BY <1>6, SubmitAcceptedPlace, SubmitFailedPlace, SubmitLoggedPlace DEF SubmitNext
<1>7. CASE \E i \in 1 .. MaxSandboxTasks : SandboxNext(i)
  BY <1>7, SamePlaces DEF SandboxNext, SandboxSettles, dbVars, runVars
<1>8. CASE \E rebooted \in BOOLEAN : Restart(rebooted)
  BY <1>8, RestartPlace
<1>9. CASE UNCHANGED pipelineVars
  BY <1>9, SamePlaces DEF pipelineVars, dbVars, runVars
<1>. QED
  BY <1>1, <1>2, <1>3, <1>4, <1>5, <1>6, <1>7, <1>8, <1>9 DEF PipelineNext

-----------------------------------------------------------------------------
(* What one claim means for the copies, the answers and the finished tasks.*)

LEMMA SoleCount ==
    ASSUME NEW q \in Seq(TaskCopy), NEW p, NEW P, Sole(q, p, P), NEW t
    PROVE  /\ CopiesIn(q, t) \in {0, 1}
           /\ CopiesIn(q, t) # 0 => P[t] = p
<1>1. PICK S : S = {i \in DOMAIN q : q[i].id = t}
  OBVIOUS
<1>2. CopiesIn(q, t) = Cardinality(S)
  BY <1>1 DEF CopiesIn
<1>3. DOMAIN q = 1 .. Len(q)
  OBVIOUS
<1>4. CASE S = {}
  BY <1>2, <1>4, FS_EmptySet
<1>5. CASE S # {}
  <2>1. PICK i \in S : TRUE
    BY <1>5
  <2>2. S = {i} /\ P[t] = p
    BY <1>1, <1>3, <2>1 DEF Sole
  <2>. QED
    BY <1>2, <2>2, FS_Singleton
<1>. QED
  BY <1>4, <1>5

LEMMA SendingCount ==
    ASSUME PipelineTypeOK, NEW P, SoleSubmitter(submitters, P), NEW t, NEW n,
           n = Cardinality({s \in 1 .. MaxSubmitters : Sending(s) /\ submitters[s].copy.id = t})
    PROVE  n \in {0, 1} /\ (n # 0 => P[t] = "submitter")
<1>1. PICK S : S = {s \in 1 .. MaxSubmitters : Sending(s) /\ submitters[s].copy.id = t}
  OBVIOUS
<1>2. \A s \in S : Claims(submitters[s]) /\ submitters[s].copy.id = t
  BY <1>1 DEF Sending, Claims
<1>3. CASE S = {}
  BY <1>1, <1>3, FS_EmptySet
<1>4. CASE S # {}
  <2>1. PICK s \in S : TRUE
    BY <1>4
  <2>2. S = {s} /\ P[t] = "submitter"
    BY <1>1, <1>2, <2>1 DEF SoleSubmitter
  <2>. QED
    BY <1>1, <2>2, FS_Singleton
<1>. QED
  BY <1>3, <1>4

LEMMA PlacedOnce == PipelineTypeOK /\ PlaceInv => OneWorkingCopy
<1>. SUFFICES ASSUME PipelineTypeOK, PlaceInv, NEW t \in Tasks
              PROVE  CopiesIn(pendingQueue, t) + CopiesIn(pendBatch, t)
                     + Cardinality({s \in 1 .. MaxSubmitters :
                                       Sending(s) /\ submitters[s].copy.id = t})
                     + CopiesIn(runningQueue, t) + CopiesIn(runBatch, t) <= 1
  BY DEF OneWorkingCopy
<1>1. PICK P \in [Tasks -> Places] : Placed(P)
  BY DEF PlaceInv
<1>2. /\ pendingQueue \in Seq(TaskCopy) /\ pendBatch \in Seq(TaskCopy)
      /\ runningQueue \in Seq(TaskCopy) /\ runBatch \in Seq(TaskCopy)
  BY LiveCopyIsTaskCopy DEF PipelineTypeOK
<1>3. /\ CopiesIn(pendingQueue, t) \in {0, 1}
      /\ CopiesIn(pendingQueue, t) # 0 => P[t] = "pending"
  BY <1>1, <1>2, SoleCount DEF Placed
<1>4. /\ CopiesIn(pendBatch, t) \in {0, 1}
      /\ CopiesIn(pendBatch, t) # 0 => P[t] = "pendBatch"
  BY <1>1, <1>2, SoleCount DEF Placed
<1>5. /\ CopiesIn(runningQueue, t) \in {0, 1}
      /\ CopiesIn(runningQueue, t) # 0 => P[t] = "running"
  BY <1>1, <1>2, SoleCount DEF Placed
<1>6. /\ CopiesIn(runBatch, t) \in {0, 1}
      /\ CopiesIn(runBatch, t) # 0 => P[t] = "runBatch"
  BY <1>1, <1>2, SoleCount DEF Placed
<1>7. PICK n : n = Cardinality({s \in 1 .. MaxSubmitters :
                                   Sending(s) /\ submitters[s].copy.id = t})
  OBVIOUS
<1>8. n \in {0, 1} /\ (n # 0 => P[t] = "submitter")
  BY <1>1, <1>7, SendingCount DEF Placed
<1>. QED
  BY <1>3, <1>4, <1>5, <1>6, <1>7, <1>8

\* What a transaction of processLogQueueTasks finds: the task is still live, and
\* the other files it moves are still duplicates.
LEMMA CommitFinds ==
    ASSUME ServedInv, PlaceInv, LogCommit
    PROVE  /\ Head(logQueue).id \in Tasks /\ live[Head(logQueue).id] # None
           /\ logRead.dups \subseteq dup
<1>. PipelineTypeOK
  BY DEF ServedInv, OnePlaceInv
<1>1. PICK P \in [Tasks -> Places] : Placed(P)
  BY DEF PlaceInv
<1>2. PICK c : c = Head(logQueue)
  OBVIOUS
<1>3. /\ c \in TaskCopy /\ logQueue \in Seq(TaskCopy) /\ logQueue # <<>>
      /\ c.id \in Tasks /\ Settles(c)
  BY <1>2, HeadOfLog DEF LogCommit, PipelineTypeOK, TaskCopy, ServedInv, ReadCurrent, Settles
<1>4. Len(logQueue) \in Nat /\ Len(logQueue) > 0 /\ c = logQueue[1]
  BY <1>2, <1>3, EmptySeq
<1>5. 1 \in 1 .. Len(logQueue)
  BY <1>4
<1>6. P[c.id] = "final"
  BY <1>1, <1>3, <1>4, <1>5 DEF Placed, SoleEntry
<1>7. live[c.id] # None
  BY <1>1, <1>3, <1>6, PlacedRow
<1>. QED
  BY <1>2, <1>3, <1>7 DEF LogCommit, ServedInv, OnePlaceInv, CopiesKnown

\* Every other step leaves the files and what is finished alone.
LEMMA VerdictStep ==
    ASSUME ServedInv, PlaceInv, [PipelineNext]_pipelineVars, NEW t \in Tasks, Settled(t)
    PROVE  fod'[t] = fod[t]
<1>1. CASE ~ LogCommit
  BY <1>1, FilesStay DEF ServedInv
<1>2. CASE LogCommit
  <2>1. t # Head(logQueue).id /\ t \notin logRead.dups
    BY <1>2, CommitFinds DEF ServedInv, OnePlaceInv, OnePlace
  <2>. QED
    BY <1>2, <2>1 DEF LogCommit, Finish, Abort, UpdateFod
<1>. QED
  BY <1>1, <1>2

LEMMA FinishedStep ==
    ASSUME ServedInv, PlaceInv, FinishedOnce, [PipelineNext]_pipelineVars
    PROVE  FinishedOnce'
<1>1. CASE ~ LogCommit
  BY <1>1, FilesStay DEF FinishedOnce
<1>2. CASE LogCommit
  <2>. SUFFICES ASSUME NEW t \in Tasks PROVE finished'[t] <= 1
    BY DEF FinishedOnce
  <2>1. PICK f : f = Head(logQueue).id
    OBVIOUS
  <2>2. f \in Tasks /\ live[f] # None /\ logRead.dups \subseteq dup
    BY <1>2, <2>1, CommitFinds
  <2>3. finished[t] \in Nat /\ finished[t] <= 1
    BY DEF ServedInv, OnePlaceInv, PipelineTypeOK, DbTypeOK, FinishedOnce
  <2>4. (t = f => finished[t] = 0 /\ t \notin dup) /\ (t \in dup => finished[t] = 0)
    BY <2>2, <2>3 DEF ServedInv, OnePlaceInv, OnePlace
  <2>5. \A D : D \subseteq dup => FinishedAfter(f, D)[t] <= 1
    BY <2>3, <2>4 DEF FinishedAfter
  <2>6. CASE finished' = finished
    BY <2>3, <2>6
  <2>7. CASE \E D \in {{}, logRead.dups} : finished' = FinishedAfter(f, D)
    BY <2>2, <2>5, <2>7
  <2>. QED
    BY <1>2, <2>1, <2>6, <2>7 DEF LogCommit, Finish, Abort
<1>. QED
  BY <1>1, <1>2

ClaimInv == ServedInv /\ PlaceInv

LEMMA InitClaim == PipelineInit => ClaimInv
BY InitServed, InitPlace DEF ClaimInv

LEMMA NextClaim ==
    ASSUME Faultless
    PROVE  ClaimInv /\ Undisturbed /\ Undisturbed' /\ [PipelineNext]_pipelineVars => ClaimInv'
BY NextServed, NextPlace DEF ClaimInv, Faultless, Undisturbed

\* Every task on its way to the sandbox, or back from it, is in one copy: one of the
\* queues, batches and goroutines of the handlers has it, and no two of them at once.
\* NotInQueueHandler and the log handler are what could fork it.
THEOREM WorkingCopyIsOne ==
    ASSUME Faultless
    PROVE  PipelineSpec /\ []Undisturbed => []OneWorkingCopy
<1>1. PipelineInit => ClaimInv
  BY InitClaim
<1>2. ClaimInv /\ Undisturbed /\ Undisturbed' /\ [PipelineNext]_pipelineVars => ClaimInv'
  BY NextClaim
<1>3. ClaimInv => OneWorkingCopy
  BY PlacedOnce DEF ClaimInv, ServedInv, OnePlaceInv
<1>. QED
  BY <1>1, <1>2, <1>3, PTL DEF PipelineSpec

\* processFinishedTasks and its siblings insert a task into the table of finished
\* ones at most once, restarts included: the table has no key that would refuse it.
THEOREM FinishedIsOnce ==
    ASSUME Faultless
    PROVE  PipelineSpec /\ []Undisturbed => []FinishedOnce
<1>1. PipelineInit => ClaimInv /\ FinishedOnce
  BY InitClaim DEF PipelineInit, FinishedOnce
<1>2. ClaimInv /\ Undisturbed /\ Undisturbed' /\ [PipelineNext]_pipelineVars => ClaimInv'
  BY NextClaim
<1>3. ClaimInv /\ FinishedOnce /\ [PipelineNext]_pipelineVars => FinishedOnce'
  BY FinishedStep DEF ClaimInv
<1>. QED
  BY <1>1, <1>2, <1>3, PTL DEF PipelineSpec

\* Once a file has its answer its row is not written again: a second log entry for the
\* same task would run the transactions of processLogQueueTasks over a settled file.
THEOREM VerdictsStand ==
    ASSUME Faultless
    PROVE  PipelineSpec /\ []Undisturbed => VerdictStands
<1>1. PipelineInit => ClaimInv
  BY InitClaim
<1>2. ClaimInv /\ Undisturbed /\ Undisturbed' /\ [PipelineNext]_pipelineVars => ClaimInv'
  BY NextClaim
<1>3. ClaimInv /\ [PipelineNext]_pipelineVars =>
        [\A t \in Tasks : Settled(t) => fod'[t] = fod[t]]_pipelineVars
  BY VerdictStep DEF ClaimInv
<1>. QED
  BY <1>1, <1>2, <1>3, PTL DEF PipelineSpec, VerdictStands

-----------------------------------------------------------------------------
(* The digests of files, and the refinement.                               *)

\* A row keeps the digest of its file, or none when it was promoted.
OwnDigest ==
    \A t \in Tasks : live[t] # None => live[t].hash \in {fod[t].hash, NoHash}

Accepted == \A t \in Tasks : fod[t] # None

Digest == [t \in Tasks |-> fod[t].hash]

LEMMA DigestStays ==
    ASSUME PipelineTypeOK, Accepted, [PipelineNext]_pipelineVars
    PROVE  Accepted' /\ Digest' = Digest /\ \A t \in Tasks : fod'[t].hash = fod[t].hash
<1>1. CASE UNCHANGED fod
  BY <1>1 DEF Accepted, Digest
<1>2. CASE \E T, score : fod' = UpdateFod(fod, T, score)
  <2>1. PICK T, score : fod' = UpdateFod(fod, T, score)
    BY <1>2
  <2>2. \A t \in Tasks : fod[t] \in FodRow
    BY DEF Accepted, PipelineTypeOK, DbTypeOK
  <2>3. \A t \in Tasks : fod'[t] \in FodRow /\ fod'[t].hash = fod[t].hash
    <3>. SUFFICES ASSUME NEW t \in Tasks PROVE fod'[t] \in FodRow /\ fod'[t].hash = fod[t].hash
      OBVIOUS
    <3>1. Rating(score) \in Ratings /\ Verdict(score) \in Verdicts
      BY DEF Rating, Verdict, Ratings, Verdicts
    <3>. QED
      BY <2>1, <2>2, <3>1 DEF UpdateFod, FodRow
  <2>. QED
    BY <2>3, DbAssumption DEF Accepted, Digest
<1>3. LogCommit \/ UNCHANGED fod
  BY FilesStay
<1>. QED
  BY <1>1, <1>2, <1>3 DEF LogCommit, Finish, Abort

LEMMA OwnDigestStays ==
    ASSUME ServedInv, ServedInv', Accepted, OwnDigest, [PipelineNext]_pipelineVars
    PROVE  OwnDigest'
<1>1. \A t \in Tasks : live'[t] # None =>
          (live[t] # None /\ live'[t].hash = live[t].hash) \/ live'[t] = PromotedRow
  BY RowsStep DEF ServedInv
<1>2. \A t \in Tasks : fod'[t].hash = fod[t].hash
  BY DigestStays DEF ServedInv, OnePlaceInv
<1>3. PromotedRow.hash = NoHash
  BY DEF PromotedRow, NewLiveRow
<1>. QED
  BY <1>1, <1>2, <1>3 DEF OwnDigest

LifecycleInv == ClaimInv /\ Accepted /\ OwnDigest

LEMMA InitLifecycleInv == PipelineInit => LifecycleInv
<1>. SUFFICES ASSUME PipelineInit PROVE LifecycleInv
  OBVIOUS
<1>1. ClaimInv
  BY InitClaim
<1>2. PICK h \in [Tasks -> Hashes] :
        /\ fod = [t \in Tasks |-> [hash |-> h[t], rating |-> "none", verdict |-> "none"]]
        /\ live = [t \in Tasks |-> IF FirstOf(h, t) THEN NewLiveRow(h[t]) ELSE None]
  BY DEF PipelineInit
<1>3. \A t \in Tasks : fod[t] \in FodRow
  BY <1>2 DEF FodRow, Ratings, Verdicts
<1>4. OwnDigest
  BY <1>2 DEF OwnDigest, NewLiveRow
<1>. QED
  BY <1>1, <1>3, <1>4, DbAssumption DEF LifecycleInv, Accepted

LEMMA NextLifecycleInv ==
    ASSUME Faultless
    PROVE  LifecycleInv /\ Undisturbed /\ Undisturbed' /\ [PipelineNext]_pipelineVars
             => LifecycleInv'
<1>. SUFFICES ASSUME LifecycleInv, Undisturbed, Undisturbed', [PipelineNext]_pipelineVars
              PROVE  LifecycleInv'
  OBVIOUS
<1>1. ClaimInv'
  BY NextClaim DEF LifecycleInv
<1>2. Accepted'
  BY DigestStays DEF LifecycleInv, ClaimInv, ServedInv, OnePlaceInv
<1>3. OwnDigest'
  BY <1>1, OwnDigestStays DEF LifecycleInv, ClaimInv
<1>. QED
  BY <1>1, <1>2, <1>3 DEF LifecycleInv

\* Every digest is analysed through the first file that has it.
LEMMA InitLifecycle == PipelineInit => Lifecycle!LifecycleInit
<1>. SUFFICES ASSUME PipelineInit PROVE Lifecycle!LifecycleInit
  OBVIOUS
<1>1. PICK h \in [Tasks -> Hashes] :
        /\ fod = [t \in Tasks |-> [hash |-> h[t], rating |-> "none", verdict |-> "none"]]
        /\ live = [t \in Tasks |-> IF FirstOf(h, t) THEN NewLiveRow(h[t]) ELSE None]
        /\ dup = {t \in Tasks : ~FirstOf(h, t)}
  BY DEF PipelineInit
<1>2. \A t \in Tasks : fod[t].hash = h[t] /\ fod[t].verdict = "none"
  BY <1>1
<1>3. \A t \in Tasks : PhaseOf(t) = IF FirstOf(h, t) THEN "live" ELSE "waiting"
  <2>1. \A t \in Tasks : NewLiveRow(h[t]) # None
    <3>1. \A t \in Tasks : NewLiveRow(h[t]) \in RowOver(LiveStatuses)
      BY <1>1 DEF NewLiveRow, RowOver, LiveStatuses
    <3>. QED
      BY <3>1, DbAssumption
  <2>. QED
    BY <1>1, <2>1 DEF PhaseOf
<1>4. ASSUME NEW f \in Tasks
      PROVE  \E d \in Tasks : Lifecycle!Live(fod[f].hash) = {d}
  <2>1. PICK D : D = {t \in Tasks : h[t] = h[f]}
    OBVIOUS
  <2>2. D \subseteq Nat /\ D # {} /\ D \subseteq Tasks
    BY <2>1 DEF Tasks
  <2>3. PICK d \in D : LowestOf(D) = {d}
    BY <2>2, LowestExists
  <2>4. \A t \in Tasks : t \in LowestOf(D) <=> h[t] = h[f] /\ FirstOf(h, t)
    BY <2>1 DEF LowestOf, FirstOf
  <2>5. Lifecycle!Live(fod[f].hash) = {d}
    <3>1. Lifecycle!Live(fod[f].hash) = {t \in Tasks : PhaseOf(t) = "live" /\ fod[t].hash = fod[f].hash}
      BY DEF Lifecycle!Live
    <3>. QED
      BY <1>2, <1>3, <2>2, <2>3, <2>4, <3>1
  <2>. QED
    BY <2>2, <2>5
<1>5. [t \in Tasks |-> fod[t].hash] \in [Tasks -> Hashes]
  BY <1>1, <1>2
<1>6. [t \in Tasks |-> PhaseOf(t)] \in [Tasks -> {"waiting", "live"}]
  BY <1>3
<1>7. [t \in Tasks |-> fod[t].verdict] = [t \in Tasks |-> "none"]
  BY <1>2
<1>8. \A f \in Tasks : \E g \in Tasks :
          Lifecycle!Live([t \in Tasks |-> fod[t].hash][f]) = {g}
  BY <1>4
<1>. QED
  BY <1>5, <1>6, <1>7, <1>8 DEF Lifecycle!LifecycleInit

\* The duplicates read with a log entry are duplicates of its own file.
LEMMA ReadOwnDuplicates ==
    ASSUME LifecycleInv, LogCommit, NEW f, f = Head(logQueue).id
    PROVE  /\ f \in Tasks /\ f \notin dup /\ live[f] # None /\ fod[f] # None
           /\ \A d \in logRead.dups : /\ d \in Tasks /\ d \in dup /\ live[d] = None /\ fod[d] # None
                                      /\ fod[d].hash = fod[f].hash
<1>1. f \in Tasks /\ live[f] # None /\ logRead.dups \subseteq dup
  BY CommitFinds DEF LifecycleInv, ClaimInv
<1>2. dup \subseteq Tasks /\ \A d \in dup : live[d] = None
  BY DEF LifecycleInv, ClaimInv, ServedInv, OnePlaceInv, OnePlace, PipelineTypeOK, DbTypeOK
<1>3. Head(logQueue).row.hash \in {fod[f].hash, NoHash}
  <2>1. Head(logQueue) \in HashCopy
    BY HeadTailProperties DEF LifecycleInv, ClaimInv, ServedInv, Holds, LogCommit
  <2>. QED
    BY <1>1, <2>1 DEF HashCopy, SameDigest, LifecycleInv, OwnDigest
<1>4. logRead.dups \subseteq DuplicatesOf(Head(logQueue).row.hash)
  BY DEF LogCommit, LifecycleInv, ClaimInv, ServedInv, ReadCurrent, DuplicatesToSettle, LowestOf
<1>5. \A d \in logRead.dups : fod[d].hash = Head(logQueue).row.hash /\ fod[d] \in FodRow
  BY <1>1, <1>2, <1>4 DEF DuplicatesOf, LifecycleInv, Accepted, ClaimInv, ServedInv, OnePlaceInv,
                          PipelineTypeOK, DbTypeOK
<1>6. \A d \in logRead.dups : fod[d].hash # NoHash
  BY <1>5, DbAssumption DEF FodRow
<1>. QED
  BY <1>1, <1>2, <1>3, <1>5, <1>6 DEF LifecycleInv, Accepted

LEMMA VerdictAfter ==
    ASSUME PipelineTypeOK, Accepted, NEW T, NEW score, fod' = UpdateFod(fod, T, score),
           NEW t \in Tasks
    PROVE  fod'[t].verdict = IF t \in T THEN Verdict(score) ELSE fod[t].verdict
<1>1. fod[t] \in FodRow /\ fod[t] # None
  BY DEF PipelineTypeOK, DbTypeOK, Accepted
<1>. QED
  BY <1>1 DEF UpdateFod, FodRow

\* The phases and verdicts a transaction leaves.
LEMMA FinishConcludes ==
    ASSUME LifecycleInv, LogCommit, [PipelineNext]_pipelineVars, NEW f, f = Head(logQueue).id,
           NEW D, D = logRead.dups, NEW score \in Scores, Finish(f, D, score)
    PROVE  Lifecycle!Conclude(f, D, Verdict(score))
<1>. PipelineTypeOK /\ Accepted
  BY DEF LifecycleInv, ClaimInv, ServedInv, OnePlaceInv
<1>1. /\ f \in Tasks /\ f \notin dup /\ live[f] # None
      /\ \A d \in D : d \in Tasks /\ d \in dup /\ live[d] = None /\ fod[d].hash = fod[f].hash
  BY ReadOwnDuplicates
<1>2. [t \in Tasks |-> PhaseOf(t)][f] = "live"
  BY <1>1 DEF PhaseOf
<1>3. D \subseteq Lifecycle!Waiting([t \in Tasks |-> fod[t].hash][f])
  BY <1>1 DEF Lifecycle!Waiting, PhaseOf
<1>4. [t \in Tasks |-> PhaseOf(t)]' =
        [g \in Tasks |-> IF g = f \/ g \in D THEN "done" ELSE [t \in Tasks |-> PhaseOf(t)][g]]
  BY <1>1 DEF PhaseOf, Finish, LiveAfterFinish
<1>5. [t \in Tasks |-> fod[t].verdict]' =
        [g \in Tasks |-> IF g = f \/ g \in D THEN Verdict(score)
                         ELSE [t \in Tasks |-> fod[t].verdict][g]]
  <2>1. \A g \in Tasks : fod'[g].verdict =
            IF g = f \/ g \in D THEN Verdict(score) ELSE fod[g].verdict
    BY VerdictAfter DEF Finish
  <2>. QED
    BY <2>1
<1>6. [t \in Tasks |-> fod[t].hash]' = [t \in Tasks |-> fod[t].hash]
  BY DigestStays
<1>. QED
  BY <1>2, <1>3, <1>4, <1>5, <1>6 DEF Lifecycle!Conclude

LEMMA AbortGivesUp ==
    ASSUME LifecycleInv, LogCommit, [PipelineNext]_pipelineVars, NEW f, f = Head(logQueue).id,
           NEW D, D = logRead.dups, Head(logQueue).row.status = Aborted, Abort(f, D)
    PROVE  Lifecycle!GiveUp(f, D)
<1>. PipelineTypeOK /\ Accepted
  BY DEF LifecycleInv, ClaimInv, ServedInv, OnePlaceInv
<1>1. /\ f \in Tasks /\ f \notin dup /\ live[f] # None
      /\ \A d \in D : d \in Tasks /\ d \in dup /\ live[d] = None /\ fod[d].hash = fod[f].hash
  BY ReadOwnDuplicates
<1>2. [t \in Tasks |-> PhaseOf(t)][f] = "live"
  BY <1>1 DEF PhaseOf
<1>3. D \subseteq Lifecycle!Waiting([t \in Tasks |-> fod[t].hash][f])
  BY <1>1 DEF Lifecycle!Waiting, PhaseOf
<1>4. \A g, k \in D : g = k
  <2>1. \A g, k \in D : g <= k
    BY DEF LogCommit, LifecycleInv, ClaimInv, ServedInv, ReadCurrent, DuplicatesToSettle, LowestOf
  <2>. QED
    BY <1>1, <2>1 DEF Tasks
<1>5. [t \in Tasks |-> PhaseOf(t)]' =
        [g \in Tasks |-> IF g = f THEN "done"
                         ELSE IF g \in D THEN "live" ELSE [t \in Tasks |-> PhaseOf(t)][g]]
  <2>1. PromotedRow # None
    BY PromotedRowType, DbAssumption
  <2>. QED
    BY <1>1, <2>1 DEF PhaseOf, Abort, LiveAfterFinish
<1>6. [t \in Tasks |-> fod[t].verdict]' = [[t \in Tasks |-> fod[t].verdict] EXCEPT ![f] = "allow"]
  <2>1. \A g \in Tasks : fod'[g].verdict = IF g \in {f} THEN Verdict(0) ELSE fod[g].verdict
    BY VerdictAfter DEF Abort
  <2>. QED
    BY <1>1, <2>1 DEF Verdict
<1>7. [t \in Tasks |-> fod[t].hash]' = [t \in Tasks |-> fod[t].hash]
  BY DigestStays
<1>. QED
  BY <1>2, <1>3, <1>4, <1>5, <1>6, <1>7 DEF Lifecycle!GiveUp

\* Only a transaction of LogQueueHandler is a step of the lifecycle.
LEMMA StepLifecycle ==
    ASSUME Faultless, LifecycleInv, LifecycleInv', [PipelineNext]_pipelineVars
    PROVE  [Lifecycle!LifecycleNext]_(Lifecycle!lifecycleVars)
<1>1. CASE LogCommit
  <2>1. PICK f : f = Head(logQueue).id
    OBVIOUS
  <2>2. PICK D : D = logRead.dups
    OBVIOUS
  <2>0. PICK score : score = logRead.score
    OBVIOUS
  <2>3. /\ f \in Tasks /\ D \in SUBSET Tasks /\ score \in Scores
    <3>1. f \in Tasks /\ D \subseteq dup
      BY <1>1, <2>1, <2>2, CommitFinds DEF LifecycleInv, ClaimInv
    <3>. QED
      BY <1>1, <2>0, <3>1 DEF LogCommit, LogRead, LifecycleInv, ClaimInv, ServedInv, OnePlaceInv,
                        PipelineTypeOK, DbTypeOK
  <2>4. \/ Head(logQueue).row.status = Aborted /\ Abort(f, D)
        \/ Finish(f, D, score)
    BY <1>1, <2>0, <2>1, <2>2, StatementRuns DEF LogCommit
  <2>5. CASE Head(logQueue).row.status = Aborted /\ Abort(f, D)
    <3>1. Lifecycle!GiveUp(f, D)
      BY <1>1, <2>1, <2>2, <2>5, AbortGivesUp
    <3>. QED
      BY <2>3, <3>1 DEF Lifecycle!LifecycleNext
  <2>6. CASE Finish(f, D, score)
    <3>1. Lifecycle!Conclude(f, D, Verdict(score))
      BY <1>1, <2>1, <2>2, <2>3, <2>6, FinishConcludes
    <3>2. Verdict(score) \in {"allow", "block"}
      BY DEF Verdict
    <3>. QED
      BY <2>3, <3>1, <3>2 DEF Lifecycle!LifecycleNext
  <2>. QED
    BY <2>4, <2>5, <2>6
<1>2. CASE ~ LogCommit
  <2>1. UNCHANGED <<fod, dup>> /\ SameRows(live')
    BY <1>2, FilesStay, RowsStep DEF LifecycleInv, ClaimInv, ServedInv
  <2>2. \A t \in Tasks : PhaseOf(t)' = PhaseOf(t)
    BY <2>1 DEF PhaseOf, SameRows
  <2>. QED
    BY <2>1, <2>2 DEF Lifecycle!lifecycleVars
<1>. QED
  BY <1>1, <1>2

\* The pipeline implements TaskLifecycle: each transaction of LogQueueHandler is one
\* Conclude or GiveUp of a live file and files that wait for its digest, and every
\* other step of the handlers, the goroutines, the sandbox and a restart is a stutter.
THEOREM PipelineImplementsLifecycle ==
    ASSUME Faultless
    PROVE  PipelineSpec /\ []Undisturbed => RefinesLifecycle
<1>1. PipelineInit => LifecycleInv /\ Lifecycle!LifecycleInit
  BY InitLifecycleInv, InitLifecycle
<1>2. LifecycleInv /\ Undisturbed /\ Undisturbed' /\ [PipelineNext]_pipelineVars => LifecycleInv'
  BY NextLifecycleInv
<1>3. LifecycleInv /\ LifecycleInv' /\ [PipelineNext]_pipelineVars
        => [Lifecycle!LifecycleNext]_(Lifecycle!lifecycleVars)
  BY StepLifecycle
<1>. QED
  BY <1>1, <1>2, <1>3, PTL DEF PipelineSpec, RefinesLifecycle, Lifecycle!LifecycleSpec

-----------------------------------------------------------------------------
(* Sent once.                                                              *)

Unsent == {t \in Tasks : \A i \in 1 .. Len(sandbox) : sandbox[i].task # t}

FreshCopy(U) == {c \in TaskCopy : c.id \in U}
BackCopy(U)  == {c \in TaskCopy : c.row.status = PendingNotInQueue => c.id \in U}

RowsFresh(table, w, U) ==
    \A t \in Tasks : table[t] # None /\ table[t].status = PendingNotInQueue =>
        t \in U \/ (w # None /\ w.id = t)

SubmittersFresh(S, U) ==
    \A s \in 1 .. MaxSubmitters : S[s] # None /\ S[s].stage = "sending" => S[s].copy.id \in U

\* Whatever may still be sent to the sandbox is one of U.
Fresh(U) ==
    /\ pendingQueue \in Seq(FreshCopy(U)) /\ pendBatch \in Seq(FreshCopy(U))
    /\ SubmittersFresh(submitters, U)
    /\ niqBatch \subseteq BackCopy(U)
    /\ logQueue \in Seq(BackCopy(U))
    /\ RowsFresh(live, niqWrite, U)

LEMMA PushedBack ==
    ASSUME NEW U, NEW c \in LiveCopy, NEW s \in TaskStatuses,
           s = PendingNotInQueue => c.id \in U
    PROVE  WithStatus(c, s) \in BackCopy(U)
BY PushedStatus DEF BackCopy

LEMMA LoggedFresh ==
    ASSUME PipelineTypeOK, Faultless, NeverFlagged', NEW U, Fresh(U), NEW c \in LiveCopy,
           NEW s \in TaskStatuses, s = PendingNotInQueue => c.id \in U,
           ChangeStatusAndPushToLogQueue(c, s)
    PROVE  logQueue' \in Seq(BackCopy(U)) /\ live' = live
<1>1. logQueue' \in {logQueue, Append(logQueue, WithStatus(c, s))} /\ live' = live
  BY LogPushedOrNot
<1>2. Append(logQueue, WithStatus(c, s)) \in Seq(BackCopy(U))
  BY PushedBack, AppendProperties DEF Fresh
<1>. QED
  BY <1>1, <1>2 DEF Fresh

LEMMA NiqFetchFresh ==
    ASSUME PipelineTypeOK, NEW U, Fresh(U), NiqFetch
    PROVE  Fresh(U)'
<1>1. ASSUME NEW t \in Tasks, live[t] # None PROVE CopyOf(t) \in BackCopy(U)
  <2>1. CopyOf(t) \in LiveCopy
    BY <1>1 DEF PipelineTypeOK, DbTypeOK, LiveCopy, CopyOf
  <2>2. CopyOf(t) \in TaskCopy
    BY <2>1, LiveCopyIsTaskCopy
  <2>. QED
    BY <1>1, <2>2 DEF BackCopy, CopyOf, Fresh, RowsFresh, NiqFetch
<1>2. niqBatch' \subseteq BackCopy(U)
  BY <1>1 DEF NiqFetch, NotInQueue
<1>. QED
  BY <1>2 DEF Fresh, NiqFetch, dbVars, channelVars, pendVars

LEMMA NiqPushFresh ==
    ASSUME PipelineTypeOK, PlaceInv, Undisturbed, Faultless, NEW U, Fresh(U),
           NEW c \in niqBatch, NiqPush(c)
    PROVE  Fresh(U)'
<1>1. c \in LiveCopy /\ c \in BackCopy(U) /\ niqWrite = None
  BY DEF PipelineTypeOK, Fresh, NiqPush
<1>2. UNCHANGED <<logQueue, live, submitters, pendBatch>> /\ niqBatch' \subseteq BackCopy(U)
  BY NiqPushTo DEF NiqPush, NiqToPending, NiqToRunning, dbVars, pendVars, Fresh
<1>3. pendingQueue' \in Seq(FreshCopy(U))
  <2>1. CASE c.row.status = PendingNotInQueue /\ NiqToPending(c)
    <3>1. PendingInQueue \in TaskStatuses
      BY DEF TaskStatuses, LiveStatuses
    <3>2. WithStatus(c, PendingInQueue) \in FreshCopy(U)
      BY <1>1, <2>1, <3>1, PushedStatus DEF FreshCopy, BackCopy
    <3>3. Append(pendingQueue, WithStatus(c, PendingInQueue)) \in Seq(FreshCopy(U))
      BY <3>2, AppendProperties DEF Fresh
    <3>. QED
      BY <2>1, <3>3 DEF NiqToPending, Pushed, Push, Fresh
  <2>2. CASE NiqToRunning(c)
    BY <2>2 DEF NiqToRunning, Fresh
  <2>. QED
    BY <2>1, <2>2, NiqPushTo
<1>4. RowsFresh(live', niqWrite', U)
  BY <1>1, <1>2 DEF Fresh, RowsFresh
<1>. QED
  BY <1>2, <1>3, <1>4 DEF Fresh

LEMMA NiqUpdateFresh ==
    ASSUME PipelineTypeOK, PlaceInv, Faultless, NEW U, Fresh(U), NiqUpdate
    PROVE  Fresh(U)'
<1>1. PICK w : w = niqWrite
  OBVIOUS
<1>2. /\ w # None /\ w.id \in Tasks /\ w.status \in LiveStatuses /\ w.status # None
      /\ w.status # PendingNotInQueue
  BY <1>1 DEF NiqUpdate, PipelineTypeOK, PlaceInv, Unfailing, WriteBusy, IdleStatuses
<1>3. live' = SetStatus(live, w.id, w.status)
  BY <1>1, <1>2, StatementRuns DEF NiqUpdate, AppliedWrite
<1>4. live \in [Tasks -> RowOver(LiveStatuses) \cup {None}]
  BY DEF PipelineTypeOK, DbTypeOK
<1>5. \A t \in Tasks : t # w.id => live'[t] = live[t]
  BY <1>3, <1>4 DEF SetStatus
<1>6. live'[w.id] # None => live'[w.id].status = w.status
  BY <1>2, <1>3, <1>4 DEF SetStatus, RowOver
<1>7. RowsFresh(live', None, U)
  BY <1>1, <1>2, <1>5, <1>6 DEF RowsFresh, Fresh
<1>. QED
  BY <1>7 DEF NiqUpdate, Fresh, channelVars, pendVars

LEMMA PendFetchFresh ==
    ASSUME PipelineTypeOK, NEW U, Fresh(U), PendFetch
    PROVE  Fresh(U)'
<1>1. PICK ok \in ListOutcomes :
        /\ NotReported(ok) < MaxFreeVms
        /\ pendBatch' = Taken(pendingQueue, MaxFreeVms - NotReported(ok))
        /\ pendingQueue' = Left(pendingQueue, MaxFreeVms - NotReported(ok))
  BY DEF PendFetch
<1>2. MaxFreeVms - NotReported(ok) \in Nat
  BY <1>1, FreeVmsType
<1>3. pendBatch' \in Seq(FreshCopy(U)) /\ pendingQueue' \in Seq(FreshCopy(U))
  BY <1>1, <1>2, TakenLeftType DEF Fresh
<1>. QED
  BY <1>3 DEF PendFetch, Fresh, dbVars, niqVars

LEMMA PendGiveUpFresh ==
    ASSUME PipelineTypeOK, Faultless, NeverFlagged', NEW U, Fresh(U), PendGiveUp
    PROVE  Fresh(U)'
<1>1. /\ Head(pendBatch) \in LiveCopy /\ Head(pendBatch) \in FreshCopy(U)
      /\ Tail(pendBatch) \in Seq(FreshCopy(U))
  BY HeadTailProperties DEF Fresh, PipelineTypeOK, PendGiveUp
<1>2. Aborted \in TaskStatuses
  BY DEF TaskStatuses, FinalStatuses
<1>3. logQueue' \in Seq(BackCopy(U)) /\ live' = live
  BY <1>1, <1>2, LoggedFresh DEF PendGiveUp, FreshCopy
<1>. QED
  BY <1>1, <1>3 DEF PendGiveUp, Fresh, niqVars

LEMMA PendSpawnFresh ==
    ASSUME PipelineTypeOK, NEW U, Fresh(U), NEW s \in 1 .. MaxSubmitters, PendSpawn(s)
    PROVE  Fresh(U)'
<1>1. Head(pendBatch) \in FreshCopy(U) /\ Tail(pendBatch) \in Seq(FreshCopy(U))
  BY HeadTailProperties DEF Fresh, PendSpawn
<1>2. SubmittersFresh(submitters', U)
  BY <1>1 DEF PendSpawn, Fresh, SubmittersFresh, FreshCopy, PipelineTypeOK
<1>. QED
  BY <1>1, <1>2 DEF PendSpawn, Fresh, dbVars, channelVars, niqVars

LEMMA SubmitterGoneFresh ==
    ASSUME PipelineTypeOK, NEW U, Fresh(U), NEW s \in 1 .. MaxSubmitters,
           submitters' = [submitters EXCEPT ![s] = None]
    PROVE  SubmittersFresh(submitters', U)
BY DEF PipelineTypeOK, Fresh, SubmittersFresh

LEMMA SubmitLoggedFresh ==
    ASSUME PipelineTypeOK, PlaceInv, Faultless, NeverFlagged', NEW U, Fresh(U),
           NEW s \in 1 .. MaxSubmitters, SubmitLogged(s)
    PROVE  Fresh(U)'
<1>1. /\ submitters[s].copy \in LiveCopy
      /\ submitters[s].status \in {RunningInQueue, RunningNotInQueue}
  BY SubmitterType DEF SubmitLogged, PlaceInv, Unfailing, LoggingSubmitters
<1>2. submitters[s].status \in TaskStatuses /\ submitters[s].status # PendingNotInQueue
  BY <1>1 DEF TaskStatuses, LiveStatuses, PendingNotInQueue, RunningInQueue, RunningNotInQueue
<1>3. logQueue' \in Seq(BackCopy(U)) /\ live' = live
  BY <1>1, <1>2, LoggedFresh DEF SubmitLogged
<1>4. SubmittersFresh(submitters', U)
  BY SubmitterGoneFresh DEF SubmitLogged
<1>. QED
  BY <1>3, <1>4 DEF SubmitLogged, Fresh, niqVars

LEMMA SubmitFailedFresh ==
    ASSUME PipelineTypeOK, Faultless, NeverFlagged', NEW U, Fresh(U),
           NEW s \in 1 .. MaxSubmitters, SubmitFailed(s)
    PROVE  Fresh(U)'
<1>. DEFINE c  == Retried(submitters[s].copy)
            c2 == [c EXCEPT !.row.queueRetryCount = @ + 1]
            Kept == /\ pendingQueue' \in Seq(FreshCopy(U))
                    /\ logQueue' \in Seq(BackCopy(U)) /\ live' = live
<1>1. submitters[s].copy \in LiveCopy /\ submitters[s].copy.id \in U
  BY SubmitterType DEF SubmitFailed, Sending, Fresh, SubmittersFresh
<1>2. c \in LiveCopy /\ c.id \in U
  BY <1>1, CountedType DEF Retried, LiveCopy
<1>3. c2 \in LiveCopy /\ c2.id \in U
  BY <1>2, CountedType DEF LiveCopy
<1>4. PendingNotInQueue \in LiveStatuses /\ PendingNotInQueue \in TaskStatuses
      /\ Aborted \in TaskStatuses
  BY DEF LiveStatuses, TaskStatuses, FinalStatuses
<1>5. Kept
  <2>. HIDE DEF c, c2
  <2>1. CASE ChangeStatusAndPushToLogQueue(c, Aborted) /\ UNCHANGED pendingQueue
    BY <1>2, <1>4, <2>1, LoggedFresh DEF Fresh
  <2>2. CASE /\ pendingQueue' = Append(pendingQueue, c)
             /\ UNCHANGED <<logQueue, live, faults>>
    <3>1. c \in FreshCopy(U)
      BY <1>2, LiveCopyIsTaskCopy DEF FreshCopy
    <3>. QED
      BY <2>2, <3>1, AppendProperties DEF Fresh
  <2>3. CASE SubmitRetryThroughLog(c2) /\ UNCHANGED pendingQueue
    <3>1. WithStatus(c2, PendingNotInQueue) \in LiveCopy /\ WithStatus(c2, PendingNotInQueue).id \in U
      BY <1>3, <1>4, WithStatusType DEF LiveCopy, WithStatus
    <3>. QED
      BY <1>3, <1>4, <2>3, <3>1, LoggedFresh DEF SubmitRetryThroughLog, Fresh
  <2>. USE DEF c, c2
  <2>. QED
    BY <2>1, <2>2, <2>3 DEF SubmitFailed
<1>6. SubmittersFresh(submitters', U)
  BY SubmitterGoneFresh DEF SubmitFailed
<1>. QED
  BY <1>5, <1>6 DEF SubmitFailed, Fresh, niqVars

LEMMA SeqOf ==
    ASSUME NEW S, NEW q \in Seq(S), NEW T, \A i \in 1 .. Len(q) : q[i] \in T
    PROVE  q \in Seq(T)
<1>1. Len(q) \in Nat /\ q \in [1 .. Len(q) -> S]
  BY LenProperties
<1>2. q \in [1 .. Len(q) -> T]
  BY <1>1
<1>. QED
  BY <1>1, <1>2, SeqDef

LEMMA SoleFresh ==
    ASSUME NEW U, NEW q \in Seq(FreshCopy(U)), NEW p, NEW P, Sole(q, p, P), NEW t, P[t] # p,
           NEW V, V = U \ {t}
    PROVE  q \in Seq(FreshCopy(V))
<1>1. \A i \in 1 .. Len(q) : q[i] \in FreshCopy(U)
  BY ElementOfSeq
<1>2. \A i \in 1 .. Len(q) : q[i] \in FreshCopy(V)
  BY <1>1 DEF Sole, FreshCopy
<1>. QED
  BY <1>2, SeqOf

\* Once a task has been handed over, nothing that carries it will be sent again: it
\* was the goroutine's alone.
LEMMA SubmitAcceptedFresh ==
    ASSUME PipelineTypeOK, PlaceInv, NEW U, Fresh(U), NEW s \in 1 .. MaxSubmitters,
           SubmitAccepted(s), NEW t, t = submitters[s].copy.id, NEW V, V = U \ {t}
    PROVE  Fresh(V)' /\ t \in U
<1>1. PICK P \in [Tasks -> Places] : Placed(P)
  BY DEF PlaceInv
<1>2. Claims(submitters[s])
  BY DEF SubmitAccepted, Sending, Claims
<1>3. t \in Tasks /\ P[t] = "submitter"
  BY <1>1, <1>2, ClaimingSubmitter
<1>4. pendingQueue \in Seq(FreshCopy(V)) /\ pendBatch \in Seq(FreshCopy(V))
  BY <1>1, <1>3, SoleFresh DEF Fresh, Placed
<1>5. niqBatch \subseteq BackCopy(V)
  BY <1>1, <1>3 DEF Fresh, Placed, SoleFetched, BackCopy
<1>6. logQueue \in Seq(BackCopy(V))
  <2>1. logQueue \in Seq(BackCopy(U))
    BY DEF Fresh
  <2>2. \A i \in 1 .. Len(logQueue) : logQueue[i] \in BackCopy(U)
    BY <2>1, ElementOfSeq
  <2>3. \A i \in 1 .. Len(logQueue) : logQueue[i].id = t => ~ Returns(logQueue[i])
    <3>1. Moved(P, P, t) /\ P[t] \notin ClaimPlaces
      BY <1>1, <1>3 DEF Moved, ClaimPlaces
    <3>. QED
      BY <1>1, <1>3, <3>1, Elsewhere
  <2>4. \A i \in 1 .. Len(logQueue) : logQueue[i] \in BackCopy(V)
    BY <2>2, <2>3 DEF BackCopy, Returns, IdleStatuses
  <2>. QED
    BY <2>1, <2>4, SeqOf
<1>7. RowsFresh(live, niqWrite, V)
  BY <1>1, <1>3 DEF Fresh, Placed, RowsIdle, RowsFresh, IdleStatuses
<1>8. SubmittersFresh(submitters', V)
  <2>1. submitters'[s].stage = "logging" /\ \A r \in 1 .. MaxSubmitters : r # s =>
            submitters'[r] = submitters[r]
    BY DEF SubmitAccepted, PipelineTypeOK
  <2>2. ASSUME NEW r \in 1 .. MaxSubmitters, r # s, submitters[r] # None,
               submitters[r].stage = "sending"
        PROVE  submitters[r].copy.id \in V
    <3>1. Claims(submitters[r])
      BY <2>2 DEF Claims
    <3>2. submitters[r].copy.id # t
      BY <1>1, <1>2, <2>2, <3>1 DEF Placed, SoleSubmitter
    <3>. QED
      BY <2>2, <3>2 DEF Fresh, SubmittersFresh
  <2>. QED
    BY <2>1, <2>2 DEF SubmittersFresh
<1>9. t \in U
  BY DEF SubmitAccepted, Sending, Fresh, SubmittersFresh
<1>. QED
  BY <1>4, <1>5, <1>6, <1>7, <1>8, <1>9 DEF SubmitAccepted, Fresh, dbVars, niqVars

LEMMA RunCheckFresh ==
    ASSUME PipelineTypeOK, PlaceInv, Faultless, NeverFlagged', NEW U, Fresh(U), RunCheck
    PROVE  Fresh(U)'
<1>1. PICK P \in [Tasks -> Places] : Placed(P)
  BY DEF PlaceInv
<1>2. PICK c : c = Head(runBatch)
  OBVIOUS
<1>3. c \in LiveCopy /\ live[c.id] # None
  BY <1>1, <1>2, HeadPlaced DEF Placed, RunCheck, PipelineTypeOK
<1>4. /\ {Aborted, Reported, RunningNotInQueue} \subseteq TaskStatuses
      /\ PendingNotInQueue \notin {Aborted, Reported, RunningNotInQueue}
  BY DEF TaskStatuses, FinalStatuses, LiveStatuses, PendingNotInQueue, RunningNotInQueue, Aborted,
         Reported
<1>. DEFINE Kept == logQueue' \in Seq(BackCopy(U)) /\ live' = live
<1>5. ASSUME NEW s \in {Aborted, Reported, RunningNotInQueue}, ChangeStatusAndPushToLogQueue(c, s)
      PROVE  Kept
  BY <1>3, <1>4, <1>5, LoggedFresh
<1>6. ASSUME NEW ok \in BOOLEAN, Statement(ok), LogStateBecomes(LogNotFound(LogState, c, ok))
      PROVE  Kept
  <2>1. ok = TRUE
    BY <1>6, StatementRuns
  <2>2. PICK c2 : c2 = [c EXCEPT !.row.runningRetryCount = @ + 1]
    OBVIOUS
  <2>3. LogStateBecomes(LogNotFound(LogState, c, TRUE))
    BY <1>6, <2>1
  <2>4. /\ live' = live /\ c2 \in LiveCopy
        /\ \/ logQueue' = Append(logQueue, WithStatus(c2, RunningNotInQueue))
           \/ logQueue' = Append(Append(logQueue, WithStatus(c2, Aborted)),
                                 WithStatus(c2, RunningNotInQueue))
    BY <1>3, <2>2, <2>3, NotFoundPushed
  <2>5. WithStatus(c2, RunningNotInQueue) \in BackCopy(U) /\ WithStatus(c2, Aborted) \in BackCopy(U)
    BY <1>4, <2>4, PushedBack
  <2>6. ASSUME NEW q \in Seq(BackCopy(U)), NEW d \in BackCopy(U)
        PROVE  Append(q, d) \in Seq(BackCopy(U))
    BY <2>6, AppendProperties
  <2>7. logQueue \in Seq(BackCopy(U))
    BY DEF Fresh
  <2>. HIDE DEF Kept
  <2>8. logQueue' \in Seq(BackCopy(U))
    BY <2>4, <2>5, <2>6, <2>7
  <2>. QED
    BY <2>4, <2>8 DEF Kept
<1>7. ASSUME UNCHANGED <<logQueue, live>> PROVE Kept
  BY <1>7 DEF Fresh
<1>8. Kept
  BY <1>2, <1>5, <1>6, <1>7 DEF RunCheck
<1>. QED
  BY <1>8 DEF RunCheck, Fresh, niqVars, pendVars

LEMMA LogStatusFresh ==
    ASSUME PipelineTypeOK, Faultless, NEW U, Fresh(U), LogStatus
    PROVE  Fresh(U)'
<1>1. PICK c : c = Head(logQueue)
  OBVIOUS
<1>2. /\ c \in TaskCopy /\ c \in BackCopy(U) /\ c.row.status \notin FinalStatuses
      /\ Tail(logQueue) \in Seq(BackCopy(U))
  BY <1>1, HeadTailProperties DEF LogStatus, Fresh, BackCopy
<1>3. live' = WriteRow(live, c.id, c.row)
  BY <1>1, StatementRuns DEF LogStatus
<1>4. c.id \in Tasks /\ c.row \in RowOver(TaskStatuses)
  BY <1>2 DEF TaskCopy
<1>5. live \in [Tasks -> RowOver(LiveStatuses) \cup {None}]
  BY DEF PipelineTypeOK, DbTypeOK
<1>6. \A t \in Tasks : t # c.id => live'[t] = live[t]
  BY <1>3, <1>5 DEF WriteRow
<1>7. live'[c.id] # None => live'[c.id].status = c.row.status
  BY <1>3, <1>4, <1>5 DEF WriteRow, RowOver
<1>8. RowsFresh(live', niqWrite, U)
  BY <1>2, <1>6, <1>7 DEF RowsFresh, Fresh, BackCopy
<1>. QED
  BY <1>1, <1>2, <1>8 DEF LogStatus, Fresh, niqVars, pendVars

\* A duplicate that is promoted has never been sent.
LEMMA LogCommitFresh ==
    ASSUME PipelineTypeOK, Faultless, NEW U, Fresh(U), LogCommit, logRead.dups \subseteq U
    PROVE  Fresh(U)'
<1>1. Tail(logQueue) \in Seq(BackCopy(U))
  BY HeadTailProperties DEF LogCommit, Fresh
<1>2. PICK D \in {{}, logRead.dups} : live' = LiveAfterFinish(Head(logQueue).id, D)
  BY StatementRuns DEF LogCommit, Finish, Abort
<1>3. RowsFresh(live', niqWrite, U)
  BY <1>2 DEF RowsFresh, Fresh, LiveAfterFinish
<1>. QED
  BY <1>1, <1>3 DEF LogCommit, Fresh, niqVars, pendVars

\* The sandbox has at most one task of a file, and none of a file that waits as a
\* duplicate.
SentApart ==
    /\ \A i \in 1 .. Len(sandbox) : sandbox[i].task \in KnownIds
    /\ \A i, j \in 1 .. Len(sandbox) : sandbox[i].task = sandbox[j].task => i = j

SentInv == Fresh(Unsent) /\ SentApart

\* Nothing is sent but by a goroutine that gets an answer.
Answered == FaultKinds = {} /\ "lost" \notin SubmitOutcomes

LEMMA SentIsOnce ==
    ASSUME PipelineTypeOK, SentApart
    PROVE  SentOnce
<1>. SUFFICES ASSUME NEW t \in Tasks
              PROVE  Cardinality({i \in DOMAIN sandbox : sandbox[i].task = t}) <= 1
  BY DEF SentOnce
<1>1. PICK S : S = {i \in DOMAIN sandbox : sandbox[i].task = t}
  OBVIOUS
<1>2. DOMAIN sandbox = 1 .. Len(sandbox)
  BY DEF PipelineTypeOK
<1>3. CASE S = {}
  BY <1>1, <1>3, FS_EmptySet
<1>4. CASE S # {}
  <2>1. PICK i \in S : TRUE
    BY <1>4
  <2>2. S = {i}
    BY <1>1, <1>2, <2>1 DEF SentApart
  <2>. QED
    BY <1>1, <2>2, FS_Singleton
<1>. QED
  BY <1>3, <1>4

\* The other steps send nothing.
LEMMA NothingSent ==
    ASSUME PipelineTypeOK, PipelineTypeOK', Answered, [PipelineNext]_pipelineVars,
           \A s \in 1 .. MaxSubmitters : ~ SubmitAccepted(s)
    PROVE  /\ Len(sandbox') = Len(sandbox)
           /\ \A i \in 1 .. Len(sandbox) : sandbox'[i].task = sandbox[i].task
<1>1. sandbox \in Seq([task : Tasks, state : SandboxStates]) /\ DOMAIN sandbox = 1 .. Len(sandbox)
  BY DEF PipelineTypeOK
<1>2. \A i \in 1 .. Len(sandbox) : sandbox[i] \in [task : Tasks, state : SandboxStates]
  BY <1>1, ElementOfSeq
<1>3. ASSUME NEW i \in DOMAIN sandbox, NEW e, sandbox' = [sandbox EXCEPT ![i].state = e]
      PROVE  /\ Len(sandbox') = Len(sandbox)
             /\ \A j \in 1 .. Len(sandbox) : sandbox'[j].task = sandbox[j].task
  <2>1. DOMAIN sandbox' = DOMAIN sandbox
    BY <1>3
  <2>2. Len(sandbox') \in Nat /\ DOMAIN sandbox' = 1 .. Len(sandbox') /\ Len(sandbox) \in Nat
    BY DEF PipelineTypeOK
  <2>3. Len(sandbox') = Len(sandbox)
    BY <1>1, <2>1, <2>2
  <2>. QED
    BY <1>1, <1>2, <1>3, <2>3
<1>4. CASE UNCHANGED sandbox
  BY <1>4
<1>5. CASE DeleteNext
  <2>1. CASE UNCHANGED sandbox
    BY <2>1, <1>4
  <2>2. CASE \E i \in DOMAIN sandbox : sandbox' = [sandbox EXCEPT ![i].state = "gone"]
    BY <2>2, <1>3
  <2>. QED
    BY <1>5, <2>1, <2>2 DEF DeleteNext, DeleteLocalTask, DeleteSandboxData
<1>6. CASE \E i \in 1 .. MaxSandboxTasks : SandboxNext(i)
  BY <1>3, <1>6 DEF SandboxNext, SandboxSettles
<1>7. CASE \E s \in 1 .. MaxSubmitters : SubmitNext(s)
  BY <1>4, <1>7 DEF SubmitNext, SubmitFailed, SubmitLogged, Answered
<1>8. CASE NiqNext \/ PendNext \/ RunNext \/ LogNext \/ \E rebooted \in BOOLEAN : Restart(rebooted)
  BY <1>4, <1>8 DEF NiqNext, NiqFetch, NiqPush, NiqUpdate, PendNext, PendFetch, PendGiveUp,
                    PendSpawn, RunNext, RunList, RunFetch, RunCheck, LogNext, LogPrepare,
                    LogCommit, LogStatus, Restart
<1>9. CASE UNCHANGED pipelineVars
  BY <1>4, <1>9 DEF pipelineVars
<1>. QED
  BY <1>5, <1>6, <1>7, <1>8, <1>9 DEF PipelineNext

LEMMA FreshStep ==
    ASSUME ServedInv, PlaceInv, Undisturbed, NeverFlagged', Faultless, Answered,
           [PipelineNext]_pipelineVars, \A s \in 1 .. MaxSubmitters : ~ SubmitAccepted(s),
           NEW U, Fresh(U), dup \subseteq U
    PROVE  Fresh(U)'
<1>. PipelineTypeOK
  BY DEF ServedInv, OnePlaceInv
<1>1. CASE NiqNext
  BY <1>1, NiqFetchFresh, NiqPushFresh, NiqUpdateFresh DEF NiqNext
<1>2. CASE PendNext
  BY <1>2, PendFetchFresh, PendGiveUpFresh, PendSpawnFresh DEF PendNext
<1>3. CASE RunNext
  <2>1. CASE RunList \/ RunFetch
    BY <2>1 DEF RunList, RunFetch, Fresh, dbVars, channelVars, niqVars, pendVars
  <2>. QED
    BY <1>3, <2>1, RunCheckFresh DEF RunNext
<1>4. CASE LogNext
  <2>1. CASE LogPrepare
    BY <2>1 DEF LogPrepare, Fresh, dbVars, channelVars, niqVars, pendVars
  <2>2. CASE LogCommit
    <3>1. logRead.dups \subseteq U
      BY <2>2 DEF LogCommit, ServedInv, OnePlaceInv, CopiesKnown
    <3>. QED
      BY <2>2, <3>1, LogCommitFresh
  <2>. QED
    BY <1>4, <2>1, <2>2, LogStatusFresh DEF LogNext
<1>5. CASE DeleteNext
  BY <1>5 DEF DeleteNext, DeleteLocalTask, DeleteSandboxData, Fresh, dbVars, channelVars, niqVars,
              pendVars
<1>6. CASE \E s \in 1 .. MaxSubmitters : SubmitNext(s)
  BY <1>6, SubmitFailedFresh, SubmitLoggedFresh DEF SubmitNext
<1>7. CASE \E i \in 1 .. MaxSandboxTasks : SandboxNext(i)
  BY <1>7 DEF SandboxNext, SandboxSettles, Fresh, dbVars, channelVars, niqVars, pendVars
<1>8. ~ \E rebooted \in BOOLEAN : Restart(rebooted)
  BY DEF Answered, Restart
<1>9. CASE UNCHANGED pipelineVars
  BY <1>9 DEF pipelineVars, Fresh, dbVars, channelVars, niqVars, pendVars
<1>. QED
  BY <1>1, <1>2, <1>3, <1>4, <1>5, <1>6, <1>7, <1>8, <1>9 DEF PipelineNext

LEMMA SentStep ==
    ASSUME ServedInv, ServedInv', PlaceInv, SentInv, Undisturbed, NeverFlagged', Faultless,
           Answered, [PipelineNext]_pipelineVars
    PROVE  SentInv'
<1>. PipelineTypeOK /\ PipelineTypeOK'
  BY DEF ServedInv, OnePlaceInv
<1>1. KnownIds \subseteq KnownIds'
  BY KnownIdsGrow DEF ServedInv
<1>2. CASE \A s \in 1 .. MaxSubmitters : ~ SubmitAccepted(s)
  <2>1. /\ Len(sandbox') = Len(sandbox)
        /\ \A i \in 1 .. Len(sandbox) : sandbox'[i].task = sandbox[i].task
    BY <1>2, NothingSent
  <2>2. Unsent' = Unsent
    BY <2>1 DEF Unsent
  <2>3. SentApart'
    BY <1>1, <2>1 DEF SentInv, SentApart
  <2>4. PICK U : U = Unsent
    OBVIOUS
  <2>5. Fresh(U) /\ dup \subseteq U
    BY <2>4 DEF SentInv, SentApart, Unsent, KnownIds, PipelineTypeOK, DbTypeOK
  <2>6. Fresh(U)'
    BY <1>2, <2>5, FreshStep
  <2>7. Fresh(Unsent)'
    BY <2>2, <2>4, <2>6
  <2>. QED
    BY <2>3, <2>7 DEF SentInv
<1>3. CASE \E s \in 1 .. MaxSubmitters : SubmitAccepted(s)
  <2>1. PICK s \in 1 .. MaxSubmitters : SubmitAccepted(s)
    BY <1>3
  <2>2. PICK t : t = submitters[s].copy.id
    OBVIOUS
  <2>3. PICK U : U = Unsent
    OBVIOUS
  <2>4. PICK V : V = U \ {t}
    OBVIOUS
  <2>5. Fresh(V)' /\ t \in U
    BY <2>1, <2>2, <2>3, <2>4, SubmitAcceptedFresh DEF SentInv
  <2>6. t \in KnownIds
    BY <2>1, <2>2 DEF SubmitAccepted, Sending, ServedInv, OnePlaceInv, CopiesKnown, KnownCopy
  <2>7. PICK k : k = NewSandboxTask(t)
    OBVIOUS
  <2>8. k.task = t /\ k \in [task : Tasks, state : SandboxStates]
    BY <2>6, <2>7 DEF NewSandboxTask, SandboxStates, KnownIds
  <2>9. sandbox' = Append(sandbox, k)
    BY <2>1, <2>2, <2>7 DEF SubmitAccepted
  <2>10. /\ Len(sandbox) \in Nat /\ Len(sandbox') = Len(sandbox) + 1
         /\ sandbox'[Len(sandbox) + 1] = k
         /\ \A i \in 1 .. Len(sandbox) : sandbox'[i] = sandbox[i]
    BY <2>8, <2>9, AppendProperties DEF PipelineTypeOK
  <2>11. \A i \in 1 .. Len(sandbox) : sandbox[i].task # t
    BY <2>3, <2>5 DEF Unsent
  <2>12. SentApart'
    BY <1>1, <2>6, <2>8, <2>10, <2>11 DEF SentInv, SentApart
  <2>13. Unsent' = V
    BY <2>3, <2>4, <2>8, <2>10 DEF Unsent
  <2>. QED
    BY <2>5, <2>12, <2>13 DEF SentInv
<1>. QED
  BY <1>2, <1>3

LEMMA InitSent == PipelineInit => SentInv
<1>. SUFFICES ASSUME PipelineInit PROVE SentInv
  OBVIOUS
<1>1. sandbox = <<>> /\ Len(<<>>) = 0
  BY DEF PipelineInit
<1>2. Unsent = Tasks /\ SentApart
  BY <1>1 DEF Unsent, SentApart
<1>3. Fresh(Tasks)
  BY DEF Fresh, PipelineInit, EmptyMemory, SubmittersFresh, RowsFresh
<1>. QED
  BY <1>2, <1>3 DEF SentInv

\* CreateTask hands a file to the sandbox at most once, when every request is answered
\* and nothing restarts: retries are for refused requests alone.
THEOREM SandboxGetsOnce ==
    ASSUME Faultless, Answered
    PROVE  PipelineSpec /\ []Undisturbed => []SentOnce
<1>1. PipelineInit => ClaimInv /\ SentInv
  BY InitClaim, InitSent
<1>2. ClaimInv /\ Undisturbed /\ Undisturbed' /\ [PipelineNext]_pipelineVars => ClaimInv'
  BY NextClaim
<1>3. ClaimInv /\ ClaimInv' /\ SentInv /\ Undisturbed /\ Undisturbed' /\ [PipelineNext]_pipelineVars
        => SentInv'
  BY SentStep DEF ClaimInv, Undisturbed
<1>4. ClaimInv /\ SentInv => SentOnce
  BY SentIsOnce DEF SentInv, ClaimInv, ServedInv, OnePlaceInv
<1>. QED
  BY <1>1, <1>2, <1>3, <1>4, PTL DEF PipelineSpec
=============================================================================
