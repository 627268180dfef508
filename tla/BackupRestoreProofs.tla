------------------------ MODULE BackupRestoreProofs ------------------------
(***************************************************************************)
(* Theorems about BackupRestore, for any number of operations and any      *)
(* rows and uploads: what a restore or an erase takes out of config.yaml   *)
(* is in the copy it made before, and one that nobody disturbed has done   *)
(* what it answers.                                                        *)
(***************************************************************************)
EXTENDS BackupRestore, TLAPS

IsOperation(o) ==
    o = [kind |-> o.kind, stage |-> o.stage, upload |-> o.upload, rows |-> o.rows,
         times |-> o.times, had |-> o.had, copied |-> o.copied, raced |-> o.raced]

IsWriter(w) == /\ w = [request |-> w.request, rows |-> w.rows, step |-> w.step]
               /\ w.request \in Requests

Active(r) == operations[r].stage \notin {"new", "done", "failed"}

\* Only restores and erases get to the copy, and only an operation that saves
\* has passed a change on or holds WriteMu.
OperationInv ==
    /\ operations = [r \in Requests |-> operations[r]]
    /\ change = [r \in Requests |-> change[r]]
    /\ \A r \in Requests :
          /\ operations[r] = New \/ (IsOperation(operations[r]) /\ operations[r].stage # "new")
          /\ operations[r].stage \in {"fetchTime", "clearCopy", "copy"} =>
                operations[r].kind \in {"Restore", "Erase"}
          /\ change[r] # None => operations[r].stage = "saving"
          /\ resetting = r => operations[r].stage # "new"
    /\ writer # Unlocked => /\ IsWriter(writer)
                            /\ operations[writer.request].stage = "saving"

\* Who is about to make a copy has disturbed all the others.
CopyInv ==
    \A r, s \in Requests : r # s /\ At(s, "copy") /\ Active(r) => operations[r].raced

\* The stages between the copy and the truncation or removal that rests on it.
Covered == ~ Torn /\ Accounts(config) \subseteq oldConfig
Copied(r) == /\ operations[r].stage \in {"merge", "truncate", "remove"}
             /\ operations[r].copied /\ ~ operations[r].raced

CoveredInv == \A r \in Requests : Copied(r) => Covered

\* The copy is not overwritten before the next operation has said so.
RiskInv == risk.copied => /\ \A s \in Requests : ~ At(s, "copy")
                          /\ risk.rows \subseteq oldConfig

BackupInv == OperationInv /\ CopyInv /\ CoveredInv /\ RiskInv

-----------------------------------------------------------------------------
(* What a step of an operation does to the others, and when the invariant  *)
(* survives it.                                                            *)

Loud(r) == \A s \in Requests \ {r} : Active(s) => operations'[s].raced
Calm == UNCHANGED <<config, oldConfig>> /\ (Torn' => Torn)

Moves(r) ==
    /\ Active(r)
    /\ operations' = [s \in Requests |-> operations'[s]]
    /\ IsOperation(operations'[r]) /\ operations'[r].stage # "new"
    /\ operations'[r].kind = operations[r].kind
    /\ operations[r].raced => operations'[r].raced
    /\ \A s \in Requests \ {r} : \/ operations'[s] = operations[s]
                                 \/ operations'[s] = [operations[s] EXCEPT !.raced = TRUE]

KeepsOperations(r) ==
    /\ operations'[r].stage \in {"fetchTime", "clearCopy", "copy"} =>
          operations[r].kind \in {"Restore", "Erase"}
    /\ change' = [change EXCEPT ![r] = change'[r]]
    /\ change'[r] # None => operations'[r].stage = "saving"
    /\ resetting' \in {resetting, r}
    /\ writer' # Unlocked => IsWriter(writer')
    /\ \/ writer' = Unlocked
       \/ writer'.request = r /\ operations'[r].stage = "saving"
       \/ writer # Unlocked /\ writer.request # r /\ writer'.request = writer.request

KeepsCopies(r) ==
    /\ operations'[r].stage = "copy" => Loud(r)
    /\ Loud(r) \/ Calm \/ Torn \/ Covered'
    /\ Copied(r)' => (Copied(r) /\ Calm) \/ Covered'
    /\ risk'.copied => \/ /\ risk' = risk /\ oldConfig' = oldConfig
                          /\ operations'[r].stage # "copy"
                       \/ /\ risk'.rows \subseteq oldConfig'
                          /\ \A s \in Requests \ {r} : ~ At(s, "copy")
                          /\ operations'[r].stage # "copy"

LEMMA NewIsNew == [New EXCEPT !.raced = TRUE] = New
BY DEF New

\* The other operations of a step keep their kind and stage.
LEMMA OthersStay ==
    ASSUME OperationInv, NEW r \in Requests, Moves(r), NEW s \in Requests \ {r}
    PROVE  /\ operations'[s] = New \/ (IsOperation(operations'[s]) /\ operations'[s].stage # "new")
           /\ operations'[s].stage = operations[s].stage
           /\ operations[s].stage # "new" =>
                 /\ operations'[s].kind = operations[s].kind
                 /\ operations'[s].copied <=> operations[s].copied
                 /\ operations[s].raced => operations'[s].raced
<1>1. CASE operations'[s] = operations[s]
  BY <1>1 DEF OperationInv
<1>2. CASE operations'[s] = [operations[s] EXCEPT !.raced = TRUE]
  <2>1. CASE operations[s] = New
    BY <1>2, <2>1, NewIsNew DEF New
  <2>2. CASE IsOperation(operations[s]) /\ operations[s].stage # "new"
    BY <1>2, <2>2 DEF IsOperation
  <2>. QED
    BY <2>1, <2>2 DEF OperationInv
<1>. QED
  BY <1>1, <1>2 DEF Moves

LEMMA MovesKeepOperations ==
    ASSUME OperationInv, NEW r \in Requests, Moves(r), KeepsOperations(r)
    PROVE  OperationInv'
<1>1. operations' = [s \in Requests |-> operations'[s]] /\ change' = [s \in Requests |-> change'[s]]
  BY DEF Moves, KeepsOperations, OperationInv
<1>2. ASSUME NEW s \in Requests
      PROVE  /\ operations'[s] = New \/ (IsOperation(operations'[s]) /\ operations'[s].stage # "new")
             /\ operations'[s].stage \in {"fetchTime", "clearCopy", "copy"} =>
                   operations'[s].kind \in {"Restore", "Erase"}
             /\ change'[s] # None => operations'[s].stage = "saving"
             /\ resetting' = s => operations'[s].stage # "new"
  <2>1. CASE s = r
    BY <2>1 DEF Moves, KeepsOperations
  <2>2. CASE s # r
    <3>1. change'[s] = change[s]
      BY <2>2 DEF KeepsOperations, OperationInv
    <3>2. resetting' = s => operations[s].stage # "new"
      BY <2>2 DEF KeepsOperations, OperationInv
    <3>. QED
      BY <2>2, <3>1, <3>2, OthersStay DEF OperationInv, New
  <2>. QED
    BY <2>1, <2>2
<1>3. writer' # Unlocked => /\ IsWriter(writer')
                            /\ operations'[writer'.request].stage = "saving"
  BY OthersStay DEF KeepsOperations, OperationInv, IsWriter
<1>. QED
  BY <1>1, <1>2, <1>3 DEF OperationInv

LEMMA MovesKeepCopies ==
    ASSUME BackupInv, NEW r \in Requests, Moves(r), KeepsCopies(r)
    PROVE  CopyInv' /\ CoveredInv' /\ RiskInv'
<1>. USE DEF BackupInv
<1>1. \A s \in Requests \ {r} :
        /\ operations'[s].stage = operations[s].stage
        /\ operations[s].stage # "new" => /\ operations'[s].copied <=> operations[s].copied
                                          /\ operations[s].raced => operations'[s].raced
  BY OthersStay
<1>2. CopyInv'
  <2>1. SUFFICES ASSUME NEW q \in Requests, NEW s \in Requests, q # s,
                        operations'[s].stage = "copy",
                        operations'[q].stage \notin {"new", "done", "failed"}
                 PROVE  operations'[q].raced
    BY DEF CopyInv, At, Active
  <2>2. CASE s = r
    BY <1>1, <2>1, <2>2 DEF KeepsCopies, Loud, Active
  <2>3. CASE s # r /\ q = r
    BY <1>1, <2>1, <2>3 DEF CopyInv, Moves, At
  <2>4. CASE s # r /\ q # r
    BY <1>1, <2>1, <2>4 DEF CopyInv, At, Active
  <2>. QED
    BY <2>2, <2>3, <2>4
<1>3. CoveredInv'
  <2>1. SUFFICES ASSUME NEW q \in Requests, Copied(q)'
                 PROVE  Covered'
    BY DEF CoveredInv
  <2>2. Calm /\ Covered => Covered'
    BY DEF Calm, Covered
  <2>3. CASE q = r
    BY <2>1, <2>2, <2>3 DEF KeepsCopies, CoveredInv
  <2>4. CASE q # r
    <3>1. Copied(q) /\ ~ Loud(r)
      BY <1>1, <2>1, <2>4 DEF Copied, Loud, Active
    <3>2. Covered
      BY <3>1 DEF CoveredInv
    <3>. QED
      BY <2>2, <3>1, <3>2 DEF KeepsCopies, Covered
  <2>. QED
    BY <2>3, <2>4
<1>4. RiskInv'
  BY <1>1 DEF RiskInv, KeepsCopies, At
<1>. QED
  BY <1>2, <1>3, <1>4

LEMMA Keeping ==
    ASSUME BackupInv, NEW r \in Requests, Moves(r), KeepsOperations(r), KeepsCopies(r)
    PROVE  BackupInv'
BY MovesKeepOperations, MovesKeepCopies DEF BackupInv

LEMMA StepMoves ==
    ASSUME OperationInv, NEW r \in Requests, Active(r), NEW stage, stage # "new", Step(r, stage)
    PROVE  /\ Moves(r)
           /\ operations'[r].stage = stage
           /\ operations'[r].copied <=> operations[r].copied
           /\ operations'[r].raced <=> operations[r].raced
<1>1. IsOperation(operations[r])
  BY DEF OperationInv, Active, New
<1>. QED
  BY <1>1 DEF OperationInv, Step, Moves, IsOperation

LEMMA DisturbedMoves ==
    ASSUME OperationInv, NEW r \in Requests, Active(r), NEW stage, stage # "new",
           Disturbed(r, stage)
    PROVE  Moves(r) /\ operations'[r].stage = stage /\ operations'[r].raced
<1>1. IsOperation(operations[r])
  BY DEF OperationInv, Active, New
<1>. QED
  BY <1>1 DEF OperationInv, Disturbed, Moves, IsOperation

LEMMA WriteMoves ==
    ASSUME OperationInv, NEW r \in Requests, Active(r), NEW stage, stage # "new", Write(r, stage)
    PROVE  /\ Moves(r) /\ Loud(r)
           /\ operations'[r].stage = stage
           /\ operations'[r].copied <=> operations[r].copied
           /\ operations'[r].raced <=> operations[r].raced
<1>1. IsOperation(operations[r])
  BY DEF OperationInv, Active, New
<1>2. /\ operations'[r] = [operations[r] EXCEPT !.stage = stage]
      /\ \A s \in Requests \ {r} :
            operations'[s] = IF InFlight(s) THEN [operations[s] EXCEPT !.raced = TRUE]
                                            ELSE operations[s]
      /\ operations' = [s \in Requests |-> operations'[s]]
  BY DEF Write
<1>3. Loud(r)
  <2>1. SUFFICES ASSUME NEW s \in Requests \ {r}, Active(s)
                 PROVE  operations'[s].raced
    BY DEF Loud
  <2>2. operations'[s] = [operations[s] EXCEPT !.raced = TRUE] /\ IsOperation(operations[s])
    BY <1>2, <2>1 DEF InFlight, Active, OperationInv, New
  <2>. QED
    BY <2>2 DEF IsOperation
<1>. QED
  BY <1>1, <1>2, <1>3 DEF Moves, IsOperation

\* An operation that holds WriteMu or has asked for it is in no other stage.
LEMMA NotSaving ==
    ASSUME OperationInv, NEW r \in Requests, operations[r].stage # "saving"
    PROVE  change[r] = None /\ (writer # Unlocked => writer.request # r)
BY DEF OperationInv

-----------------------------------------------------------------------------
(* One lemma per group of operations.                                      *)

LEMMA BeginKeeps ==
    ASSUME BackupInv, NEW r \in Requests, Begin(r)
    PROVE  BackupInv'
<1>. USE DEF BackupInv
<1>0. PICK kind \in Kinds, upload \in Uploads \cup downloads :
        /\ operations' = [operations EXCEPT ![r] =
                [kind |-> kind, stage |-> FirstStage[kind], upload |-> upload,
                 rows |-> {}, times |-> {}, had |-> Accounts(StoredRows), copied |-> FALSE,
                 raced |-> \/ Torn \/ Corrupt \in config
                           \/ \E s \in Rewrites : InFlight(s)]]
        /\ IF kind = "Save" THEN Ask(r, {[section |-> "auth", key |-> r]})
                            ELSE UNCHANGED change
  BY DEF Begin
<1>1. /\ operations[r].stage = "new"
      /\ UNCHANGED <<config, license, writer, oldConfig, resetting, risk>>
  BY DEF Begin, At
<1>2. change[r] = None /\ (writer # Unlocked => writer.request # r)
  BY <1>1, NotSaving
<1>3. \A s \in Requests \ {r} : operations'[s] = operations[s] /\ change'[s] = change[s]
  BY <1>0 DEF OperationInv, Ask
<1>. DEFINE raced == Torn \/ Corrupt \in config \/ \E s \in Rewrites : InFlight(s)
            new == [kind |-> kind, stage |-> FirstStage[kind], upload |-> upload,
                    rows |-> {}, times |-> {}, had |-> Accounts(StoredRows), copied |-> FALSE,
                    raced |-> raced]
<1>4. operations'[r] = new
  <2>. HIDE DEF new
  <2>1. operations' = [operations EXCEPT ![r] = new]
    BY <1>0 DEF new
  <2>. QED
    BY <2>1 DEF OperationInv
<1>5. /\ IsOperation(operations'[r]) /\ operations'[r].kind = kind
      /\ operations'[r].stage = FirstStage[kind] /\ ~ operations'[r].copied
      /\ raced => operations'[r].raced
  <2>1. new.raced = raced
    OBVIOUS
  <2>2. IsOperation(new) /\ new.kind = kind /\ new.stage = FirstStage[kind] /\ new.copied = FALSE
    BY DEF IsOperation
  <2>. HIDE DEF new
  <2>3. raced => operations'[r].raced
    BY <1>4, <2>1
  <2>. QED
    BY <1>4, <2>2, <2>3
<1>6. /\ FirstStage[kind] \notin {"new", "copy", "merge", "truncate", "remove"}
      /\ FirstStage[kind] \in {"fetchTime", "clearCopy"} => kind \in {"Restore", "Erase"}
      /\ kind = "Save" => FirstStage[kind] = "saving"
  <2>1. kind \in {"Save", "Read", "Backup", "Restore", "Erase"}
    BY DEF Kinds
  <2>. QED
    BY <2>1 DEF FirstStage
<1>7. change'[r] # None => kind = "Save"
  BY <1>0, <1>2
<1>8. OperationInv'
  <2>1. /\ operations' = [s \in Requests |-> operations'[s]]
        /\ change' = [s \in Requests |-> change'[s]]
    BY <1>0 DEF OperationInv, Ask
  <2>2. writer' # Unlocked => /\ IsWriter(writer')
                              /\ operations'[writer'.request].stage = "saving"
    BY <1>1, <1>2, <1>3 DEF OperationInv, IsWriter
  <2>. QED
    BY <1>1, <1>3, <1>5, <1>6, <1>7, <2>1, <2>2 DEF OperationInv
<1>9. CopyInv'
  <2>1. SUFFICES ASSUME NEW q \in Requests, NEW s \in Requests, q # s,
                        operations'[s].stage = "copy",
                        operations'[q].stage \notin {"new", "done", "failed"}
                 PROVE  operations'[q].raced
    BY DEF CopyInv, At, Active
  <2>2. s # r /\ operations[s].stage = "copy"
    BY <1>3, <1>5, <1>6, <2>1
  <2>3. s \in Rewrites /\ InFlight(s)
    BY <2>2 DEF Rewrites, InFlight, At, OperationInv
  <2>4. CASE q = r
    BY <1>5, <2>3, <2>4
  <2>5. CASE q # r
    BY <1>3, <2>1, <2>2, <2>5 DEF CopyInv, At, Active
  <2>. QED
    BY <2>4, <2>5
<1>10. CoveredInv'
  BY <1>1, <1>3, <1>5 DEF CoveredInv, Copied, Covered, Torn
<1>11. RiskInv'
  BY <1>1, <1>3, <1>5, <1>6 DEF RiskInv, At
<1>. QED
  BY <1>8, <1>9, <1>10, <1>11

LEMMA LockKeeps ==
    ASSUME BackupInv, NEW r \in Requests, Lock(r)
    PROVE  BackupInv'
<1>1. /\ change[r] # None /\ UNCHANGED <<config, change, oldConfig, operations, resetting, risk>>
      /\ writer' = [request |-> r, rows |-> Applied(config, change[r]),
                    step |-> IF change[r].license = None THEN "computed" ELSE "licensing"]
  BY DEF Lock, LockAndRead
<1>2. IsWriter(writer') /\ writer'.request = r /\ writer'.step \in {"computed", "licensing"}
  BY <1>1 DEF IsWriter
<1>3. ~ Torn'
  BY <1>2 DEF Torn
<1>4. OperationInv'
  BY <1>1, <1>2 DEF BackupInv, OperationInv
<1>. QED
  BY <1>1, <1>3, <1>4 DEF BackupInv, CopyInv, CoveredInv, RiskInv, Copied, Covered, At, Active

LEMMA TruncateKeeps ==
    ASSUME BackupInv, Truncate
    PROVE  BackupInv'
<1>. DEFINE r == writer.request
<1>. USE DEF BackupInv
<1>1. /\ writer.step = "computed" /\ UNCHANGED <<change, oldConfig, resetting, risk>>
      /\ writer' = [writer EXCEPT !.step = "torn"] /\ Write(r, "saving")
  BY DEF Truncate, TruncateConfig
<1>2. /\ writer # Unlocked /\ IsWriter(writer) /\ r \in Requests
      /\ operations[r].stage = "saving"
  BY <1>1 DEF OperationInv, Unlocked, IsWriter
<1>3. /\ Moves(r) /\ Loud(r) /\ operations'[r].stage = "saving"
  BY <1>1, <1>2, WriteMoves DEF Active
<1>4. KeepsOperations(r)
  <2>1. IsWriter(writer') /\ writer'.request = r
    BY <1>1, <1>2 DEF IsWriter
  <2>. QED
    BY <1>1, <1>2, <1>3, <2>1 DEF KeepsOperations, OperationInv
<1>5. KeepsCopies(r)
  BY <1>1, <1>2, <1>3 DEF KeepsCopies, Copied
<1>. QED
  BY <1>2, <1>3, <1>4, <1>5, Keeping

\* The step of an operation that neither asks for a save nor makes one.
LEMMA NoSaveKeeps ==
    ASSUME OperationInv, NEW r \in Requests, Moves(r), operations[r].stage # "saving",
           UNCHANGED <<writer, change>>, resetting' \in {resetting, r},
           operations'[r].stage \in {"fetchTime", "clearCopy", "copy"} =>
              operations[r].kind \in {"Restore", "Erase"}
    PROVE  KeepsOperations(r)
BY NotSaving DEF KeepsOperations, OperationInv

\* The step of an operation that asks for a save.
LEMMA AskKeeps ==
    ASSUME OperationInv, NEW r \in Requests, Moves(r), operations[r].stage # "saving",
           operations'[r].stage = "saving", NEW rows, Ask(r, rows), UNCHANGED <<writer, resetting>>
    PROVE  KeepsOperations(r)
<1>1. change' = [change EXCEPT ![r] = change'[r]]
  BY DEF Ask, OperationInv
<1>. QED
  BY <1>1, NotSaving DEF KeepsOperations, OperationInv

\* The step of an operation that writes no file with accounts in it.
LEMMA CalmKeeps ==
    ASSUME NEW r \in Requests, Moves(r), UNCHANGED <<risk, config, oldConfig>>,
           writer' \in {writer, Unlocked},
           operations'[r].stage \notin {"copy", "merge", "remove"},
           Copied(r)' => Copied(r)
    PROVE  KeepsCopies(r)
BY DEF KeepsCopies, Calm, Torn, Unlocked

\* The step of an operation that writes a file and tells the others so.
LEMMA LoudKeeps ==
    ASSUME NEW r \in Requests, Loud(r), UNCHANGED <<risk, oldConfig>>,
           operations'[r].stage \notin {"copy", "merge", "truncate", "remove"}
    PROVE  KeepsCopies(r)
BY DEF KeepsCopies, Copied

LEMMA SaveKeeps ==
    ASSUME BackupInv, NEW r \in Requests, Saved(r) \/ SaveFails(r)
    PROVE  BackupInv'
<1>. USE DEF BackupInv
<1>1. operations[r].stage = "saving"
  BY DEF Saved, SaveFails, WriteConfig, StopWriter, LockTimeout, OperationInv, Torn, Unlocked
<1>2. /\ UNCHANGED <<oldConfig, resetting, risk>> /\ change' = [change EXCEPT ![r] = None]
      /\ \E stage \in {"snapshot", "done", "failed"} : Step(r, stage)
  BY DEF Saved, SaveFails, WriteConfig, StopWriter, LockTimeout
<1>3. /\ Moves(r) /\ operations'[r].stage \in {"snapshot", "done", "failed"}
  BY <1>1, <1>2, StepMoves DEF Active
<1>4. \/ Torn /\ writer' = Unlocked
      \/ UNCHANGED <<writer, config>> /\ (writer # Unlocked => writer.request # r)
  BY DEF Saved, SaveFails, WriteConfig, StopWriter, LockTimeout
<1>5. KeepsOperations(r)
  BY <1>2, <1>3, <1>4 DEF KeepsOperations, OperationInv
<1>6. KeepsCopies(r)
  BY <1>2, <1>3, <1>4 DEF KeepsCopies, Calm, Copied, Torn
<1>. QED
  BY <1>3, <1>5, <1>6, Keeping

LEMMA ReadKeeps ==
    ASSUME BackupInv, NEW r \in Requests,
           Read(r) \/ Create(r) \/ Stat(r) \/ Snapshot(r) \/ FetchBackupTime(r)
    PROVE  BackupInv'
<1>. USE DEF BackupInv
<1>1. CASE Read(r)
  <2>1. /\ operations[r].stage = "read" /\ UNCHANGED <<writer, change, config, oldConfig, resetting, risk>>
        /\ \E stage \in {"create", "done"} : Step(r, stage)
    BY <1>1 DEF Read, At
  <2>2. Moves(r) /\ operations'[r].stage \in {"create", "done"}
    BY <2>1, StepMoves DEF Active
  <2>. QED
    BY <2>1, <2>2, NoSaveKeeps, CalmKeeps, Keeping DEF Copied
<1>2. CASE Create(r)
  <2>1. /\ operations[r].stage = "create" /\ UNCHANGED <<writer, change, oldConfig, resetting, risk>>
        /\ Write(r, "done")
    BY <1>2 DEF Create, At
  <2>2. Moves(r) /\ Loud(r) /\ operations'[r].stage = "done"
    BY <2>1, WriteMoves DEF Active
  <2>. QED
    BY <2>1, <2>2, NoSaveKeeps, LoudKeeps, Keeping
<1>3. CASE Stat(r)
  <2>1. /\ operations[r].stage = "stat" /\ UNCHANGED <<writer, config, oldConfig, resetting, risk>>
        /\ \/ Step(r, "failed") /\ UNCHANGED change
           \/ Step(r, "saving") /\ Ask(r, {Time("backupTime", r)})
    BY <1>3 DEF Stat, At
  <2>2. Moves(r) /\ operations'[r].stage \in {"saving", "failed"}
    BY <2>1, StepMoves DEF Active
  <2>3. KeepsOperations(r)
    BY <2>1, <2>2, StepMoves, NoSaveKeeps, AskKeeps DEF Active
  <2>. QED
    BY <2>1, <2>2, <2>3, CalmKeeps, Keeping DEF Copied
<1>4. CASE Snapshot(r)
  <2>1. /\ operations[r].stage = "snapshot" /\ Step(r, "done")
        /\ UNCHANGED <<writer, change, config, oldConfig, resetting, risk>>
    BY <1>4 DEF Snapshot, At
  <2>2. Moves(r) /\ operations'[r].stage = "done"
    BY <2>1, StepMoves DEF Active
  <2>. QED
    BY <2>1, <2>2, NoSaveKeeps, CalmKeeps, Keeping DEF Copied
<1>5. CASE FetchBackupTime(r)
  <2>1. /\ operations[r].stage = "fetchTime" /\ UNCHANGED <<writer, change, config, oldConfig, resetting, risk>>
        /\ \E times, stage : /\ stage \in {"failed", "clearCopy"}
                             /\ operations' = [operations EXCEPT ![r].times = times, ![r].stage = stage]
    BY <1>5 DEF FetchBackupTime, At
  <2>2. PICK times, stage : /\ stage \in {"failed", "clearCopy"}
                            /\ operations' = [operations EXCEPT ![r].times = times, ![r].stage = stage]
    BY <2>1
  <2>3. IsOperation(operations[r]) /\ operations[r].kind \in {"Restore", "Erase"}
    BY <2>1 DEF OperationInv, New
  <2>4. Moves(r) /\ operations'[r].stage = stage
    BY <2>1, <2>2, <2>3 DEF Moves, Active, OperationInv, IsOperation
  <2>. QED
    BY <2>1, <2>2, <2>3, <2>4, NoSaveKeeps, CalmKeeps, Keeping DEF Copied
<1>. QED
  BY <1>1, <1>2, <1>3, <1>4, <1>5

LEMMA CopyKeeps ==
    ASSUME BackupInv, NEW r \in Requests, ClearCopy(r) \/ Copy(r) \/ Merge(r)
    PROVE  BackupInv'
<1>. USE DEF BackupInv
<1>1. CASE ClearCopy(r)
  <2>1. /\ operations[r].stage = "clearCopy" /\ UNCHANGED <<writer, change, config, resetting>>
        /\ risk' = [risk EXCEPT !.copied = FALSE] /\ Write(r, "copy")
    BY <1>1 DEF ClearCopy, At
  <2>2. Moves(r) /\ Loud(r) /\ operations'[r].stage = "copy"
    BY <2>1, WriteMoves DEF Active
  <2>3. KeepsOperations(r)
    BY <2>1, <2>2, NoSaveKeeps DEF OperationInv
  <2>4. ~ risk'.copied
    BY <2>1
  <2>5. KeepsCopies(r)
    BY <2>2, <2>4 DEF KeepsCopies, Copied
  <2>. QED
    BY <2>2, <2>3, <2>5, Keeping
<1>2. CASE Copy(r)
  <2>. DEFINE next == IF operations[r].kind = "Restore" THEN "merge" ELSE "remove"
  <2>1. /\ operations[r].stage = "copy" /\ UNCHANGED <<writer, change, config, resetting, risk>>
        /\ \/ /\ writer = Unlocked /\ oldConfig' = config
              /\ operations' = [operations EXCEPT ![r].stage = next, ![r].copied = TRUE]
           \/ Disturbed(r, next) /\ UNCHANGED oldConfig
    BY <1>2 DEF Copy, At
  <2>2. next \in {"merge", "remove"}
    OBVIOUS
  <2>. HIDE DEF next
  <2>3. Active(r) /\ IsOperation(operations[r])
    BY <2>1 DEF Active, OperationInv, New
  <2>4. ~ risk'.copied
    BY <2>1 DEF RiskInv, At
  <2>5. CASE Disturbed(r, next) /\ UNCHANGED oldConfig
    <3>1. Moves(r) /\ operations'[r].stage = next /\ operations'[r].raced
      BY <2>2, <2>3, <2>5, DisturbedMoves
    <3>. QED
      BY <2>1, <2>2, <2>4, <2>5, <3>1, NoSaveKeeps, Keeping
      DEF KeepsCopies, Calm, Copied, Torn
  <2>6. CASE /\ writer = Unlocked /\ oldConfig' = config
             /\ operations' = [operations EXCEPT ![r].stage = next, ![r].copied = TRUE]
    <3>1. Moves(r) /\ operations'[r].stage = next
      BY <2>2, <2>3, <2>6 DEF Moves, OperationInv, IsOperation
    <3>2. Covered'
      BY <2>1, <2>6 DEF Covered, Torn, Unlocked, Accounts, Section
    <3>. QED
      BY <2>1, <2>2, <2>4, <3>1, <3>2, NoSaveKeeps, Keeping DEF KeepsCopies
  <2>. QED
    BY <2>1, <2>5, <2>6
<1>3. CASE Merge(r)
  <2>. DEFINE rows == Merged(config, operations[r].upload.config)
  <2>1. /\ operations[r].stage = "merge"
        /\ UNCHANGED <<writer, change, config, oldConfig, resetting, risk>>
        /\ \/ operations' = [operations EXCEPT ![r].stage = "truncate", ![r].rows = rows]
           \/ Disturbed(r, "truncate")
    BY <1>3 DEF Merge, At
  <2>2. Active(r) /\ IsOperation(operations[r])
    BY <2>1 DEF Active, OperationInv, New
  <2>3. CASE Disturbed(r, "truncate")
    BY <2>1, <2>2, <2>3, DisturbedMoves, NoSaveKeeps, CalmKeeps, Keeping DEF Copied
  <2>4. CASE operations' = [operations EXCEPT ![r].stage = "truncate", ![r].rows = rows]
    <3>. HIDE DEF rows
    <3>1. /\ Moves(r) /\ operations'[r].stage = "truncate"
          /\ operations'[r].copied <=> operations[r].copied
          /\ operations'[r].raced <=> operations[r].raced
      BY <2>2, <2>4 DEF Moves, OperationInv, IsOperation
    <3>. QED
      BY <2>1, <3>1, NoSaveKeeps, CalmKeeps, Keeping DEF Copied
  <2>. QED
    BY <2>1, <2>3, <2>4
<1>. QED
  BY <1>1, <1>2, <1>3

\* What is taken out of a config.yaml that is covered stays covered, for nobody
\* else is about to make a copy.
LEMMA AtRiskKeeps ==
    ASSUME BackupInv, NEW r \in Requests, operations[r].stage \in {"truncate", "remove"},
           AtRisk(r), Loud(r), UNCHANGED oldConfig,
           operations'[r].stage \notin {"copy", "merge", "truncate", "remove"}
    PROVE  KeepsCopies(r)
<1>1. /\ risk'.rows = Accounts(StoredRows)
      /\ risk'.copied => operations[r].copied /\ ~ operations[r].raced
  BY DEF AtRisk
<1>2. ASSUME risk'.copied
      PROVE  risk'.rows \subseteq oldConfig' /\ \A s \in Requests \ {r} : ~ At(s, "copy")
  <2>1. Copied(r) /\ Active(r)
    BY <1>1, <1>2 DEF Copied, Active
  <2>2. Covered
    BY <2>1 DEF BackupInv, CoveredInv
  <2>3. risk'.rows \subseteq oldConfig'
    BY <1>1, <2>2 DEF Covered, StoredRows
  <2>. QED
    BY <2>1, <2>3 DEF BackupInv, CopyInv, Copied
<1>. QED
  BY <1>2 DEF KeepsCopies, Copied

LEMMA RestoreKeeps ==
    ASSUME BackupInv, NEW r \in Requests,
           CreateConfig(r) \/ CreateInterfaces(r) \/ WriteData(r) \/ WriteInterfaces(r) \/ SetLinks(r)
    PROVE  BackupInv'
<1>. USE DEF BackupInv
<1>1. CASE CreateConfig(r)
  <2>1. /\ operations[r].stage = "truncate" /\ UNCHANGED <<writer, change, oldConfig, resetting>>
        /\ AtRisk(r) /\ Write(r, "truncateInterfaces")
    BY <1>1 DEF CreateConfig, At
  <2>2. Moves(r) /\ Loud(r) /\ operations'[r].stage = "truncateInterfaces"
    BY <2>1, WriteMoves DEF Active
  <2>. QED
    BY <2>1, <2>2, NoSaveKeeps, AtRiskKeeps, Keeping
<1>2. CASE CreateInterfaces(r)
  <2>1. /\ operations[r].stage = "truncateInterfaces"
        /\ UNCHANGED <<writer, change, config, oldConfig, resetting, risk>>
        /\ Step(r, "failed") \/ Write(r, "write")
    BY <1>2 DEF CreateInterfaces, At
  <2>2. Moves(r) /\ operations'[r].stage \in {"failed", "write"}
    BY <2>1, StepMoves, WriteMoves DEF Active
  <2>. QED
    BY <2>1, <2>2, NoSaveKeeps, CalmKeeps, Keeping DEF Copied
<1>3. CASE WriteData(r)
  <2>1. /\ operations[r].stage = "write" /\ UNCHANGED <<writer, change, oldConfig, risk>>
        /\ resetting' \in {resetting, r}
        /\ \/ Step(r, "failed") /\ UNCHANGED config
           \/ Write(r, "done") \/ Write(r, "writeInterfaces")
    BY <1>3 DEF WriteData, At
  <2>2. CASE Step(r, "failed") /\ UNCHANGED config
    <3>1. Moves(r) /\ operations'[r].stage = "failed"
      BY <2>1, <2>2, StepMoves DEF Active
    <3>. QED
      BY <2>1, <2>2, <3>1, NoSaveKeeps, CalmKeeps, Keeping DEF Copied
  <2>3. CASE Write(r, "done") \/ Write(r, "writeInterfaces")
    <3>1. Moves(r) /\ Loud(r) /\ operations'[r].stage \in {"done", "writeInterfaces"}
      BY <2>1, <2>3, WriteMoves DEF Active
    <3>. QED
      BY <2>1, <3>1, NoSaveKeeps, LoudKeeps, Keeping
  <2>. QED
    BY <2>1, <2>2, <2>3
<1>4. CASE WriteInterfaces(r)
  <2>1. /\ operations[r].stage = "writeInterfaces" /\ Write(r, "setLinks")
        /\ UNCHANGED <<writer, change, config, oldConfig, resetting, risk>>
    BY <1>4 DEF WriteInterfaces, At
  <2>2. Moves(r) /\ Loud(r) /\ operations'[r].stage = "setLinks"
    BY <2>1, WriteMoves DEF Active
  <2>. QED
    BY <2>1, <2>2, NoSaveKeeps, LoudKeeps, Keeping
<1>5. CASE SetLinks(r)
  <2>1. /\ operations[r].stage = "setLinks" /\ UNCHANGED <<writer, config, oldConfig, resetting, risk>>
        /\ \/ Step(r, "failed") /\ UNCHANGED change
           \/ /\ Step(r, "saving")
              /\ Ask(r, {Time("restoreTime", r)} \cup operations[r].times)
    BY <1>5 DEF SetLinks, At
  <2>2. Moves(r) /\ operations'[r].stage \in {"failed", "saving"}
    BY <2>1, StepMoves DEF Active
  <2>3. KeepsOperations(r)
    BY <2>1, <2>2, StepMoves, NoSaveKeeps, AskKeeps DEF Active
  <2>. QED
    BY <2>1, <2>2, <2>3, CalmKeeps, Keeping DEF Copied
<1>. QED
  BY <1>1, <1>2, <1>3, <1>4, <1>5

LEMMA EraseKeeps ==
    ASSUME BackupInv, NEW r \in Requests, RemoveConfig(r) \/ RemoveTasks(r) \/ OpenConfig(r)
    PROVE  BackupInv'
<1>. USE DEF BackupInv
<1>1. CASE RemoveConfig(r)
  <2>1. /\ operations[r].stage = "remove" /\ UNCHANGED <<writer, change, oldConfig, resetting>>
        /\ \/ Step(r, "failed") /\ UNCHANGED <<config, risk>>
           \/ AtRisk(r) /\ Write(r, "removeTasks")
    BY <1>1 DEF RemoveConfig, At
  <2>2. CASE Step(r, "failed") /\ UNCHANGED <<config, risk>>
    <3>1. Moves(r) /\ operations'[r].stage = "failed"
      BY <2>1, <2>2, StepMoves DEF Active
    <3>. QED
      BY <2>1, <2>2, <3>1, NoSaveKeeps, CalmKeeps, Keeping DEF Copied
  <2>3. CASE AtRisk(r) /\ Write(r, "removeTasks")
    <3>1. Moves(r) /\ Loud(r) /\ operations'[r].stage = "removeTasks"
      BY <2>1, <2>3, WriteMoves DEF Active
    <3>. QED
      BY <2>1, <2>3, <3>1, NoSaveKeeps, AtRiskKeeps, Keeping
  <2>. QED
    BY <2>1, <2>2, <2>3
<1>2. CASE RemoveTasks(r)
  <2>1. /\ operations[r].stage = "removeTasks"
        /\ Step(r, "failed") \/ Step(r, "open")
        /\ UNCHANGED <<writer, change, config, oldConfig, resetting, risk>>
    BY <1>2 DEF RemoveTasks, At
  <2>2. Moves(r) /\ operations'[r].stage \in {"failed", "open"}
    BY <2>1, StepMoves DEF Active
  <2>. QED
    BY <2>1, <2>2, NoSaveKeeps, CalmKeeps, Keeping DEF Copied
<1>3. CASE OpenConfig(r)
  <2>1. /\ operations[r].stage = "open" /\ Write(r, "write")
        /\ UNCHANGED <<writer, change, config, oldConfig, resetting, risk>>
    BY <1>3 DEF OpenConfig, At
  <2>2. Moves(r) /\ Loud(r) /\ operations'[r].stage = "write"
    BY <2>1, WriteMoves DEF Active
  <2>. QED
    BY <2>1, <2>2, NoSaveKeeps, LoudKeeps, Keeping
<1>. QED
  BY <1>1, <1>2, <1>3

LEMMA StopKeeps ==
    ASSUME BackupInv, EveryRequestEnds
    PROVE  BackupInv'
<1>1. /\ writer' = Unlocked /\ change' = [r \in Requests |-> None]
      /\ UNCHANGED <<config, oldConfig, risk>> /\ resetting' = None
      /\ operations' = [r \in Requests |-> IF InFlight(r) /\ operations[r].stage # "done"
                                         THEN [operations[r] EXCEPT !.stage = "failed"]
                                         ELSE operations[r]]
  BY DEF EveryRequestEnds, StopStore
<1>2. \A r \in Requests :
        /\ operations'[r] = New \/ (IsOperation(operations'[r]) /\ operations'[r].stage # "new")
        /\ operations'[r].stage \in {"new", "done", "failed"}
  <2>1. TAKE r \in Requests
  <2>2. operations[r] = New \/ (IsOperation(operations[r]) /\ operations[r].stage # "new")
    BY DEF BackupInv, OperationInv
  <2>3. CASE operations'[r] = operations[r] /\ operations[r].stage \in {"new", "done", "failed"}
    BY <2>2, <2>3
  <2>4. CASE operations'[r] = [operations[r] EXCEPT !.stage = "failed"] /\ IsOperation(operations[r])
    BY <2>4 DEF IsOperation
  <2>5. CASE operations[r] = New
    <3>1. operations[r].stage = "new"
      BY <2>5 DEF New
    <3>. QED
      BY <1>1, <2>2, <3>1 DEF BackupInv, OperationInv, InFlight
  <2>. QED
    BY <1>1, <2>2, <2>3, <2>4, <2>5 DEF InFlight
<1>. QED
  BY <1>1, <1>2, BackupAssumption
  DEF BackupInv, OperationInv, CopyInv, CoveredInv, RiskInv, Copied, At, Active

-----------------------------------------------------------------------------
LEMMA InitBackupInv == BackupInit => BackupInv
BY BackupAssumption DEF BackupInit, StoreInit, BackupInv, OperationInv, CopyInv, CoveredInv,
                        RiskInv, Copied, At, Active, New, Unlocked

LEMMA BackupStep == BackupInv /\ [BackupNext]_backupVars => BackupInv'
<1>. SUFFICES ASSUME BackupInv, [BackupNext]_backupVars PROVE BackupInv'
  OBVIOUS
<1>1. CASE \E r \in Requests : Begin(r) \/ Lock(r) \/ Saved(r) \/ SaveFails(r)
  BY <1>1, BeginKeeps, LockKeeps, SaveKeeps
<1>2. CASE \E r \in Requests :
        Read(r) \/ Create(r) \/ Stat(r) \/ Snapshot(r) \/ FetchBackupTime(r)
  BY <1>2, ReadKeeps
<1>3. CASE \E r \in Requests : ClearCopy(r) \/ Copy(r) \/ Merge(r)
  BY <1>3, CopyKeeps
<1>4. CASE \E r \in Requests :
        CreateConfig(r) \/ CreateInterfaces(r) \/ WriteData(r) \/ WriteInterfaces(r) \/ SetLinks(r)
  BY <1>4, RestoreKeeps
<1>5. CASE \E r \in Requests : RemoveConfig(r) \/ RemoveTasks(r) \/ OpenConfig(r)
  BY <1>5, EraseKeeps
<1>6. CASE Truncate \/ ResetAndReboot \/ PowerCut \/ Crash
  BY <1>6, TruncateKeeps, StopKeeps DEF ResetAndReboot, PowerCut, Crash, Reboot
<1>7. CASE UNCHANGED backupVars
  BY <1>7 DEF backupVars, BackupInv, OperationInv, CopyInv, CoveredInv, RiskInv, Copied,
              Covered, At, Active, Torn
<1>. QED
  BY <1>1, <1>2, <1>3, <1>4, <1>5, <1>6, <1>7 DEF BackupNext

(* However many operations run at once, and wherever one of them fails or   *)
(* is cut off: accounts that a restore or an erase took out of config.yaml  *)
(* after an undisturbed copy are in old_config.yaml until the next copy is  *)
(* announced by the truncation of that file.                                *)
THEOREM CopyHoldsTheLoss == BackupSpec => []LossLeavesCopy
<1>1. BackupInv => LossLeavesCopy
  BY DEF BackupInv, RiskInv, LossLeavesCopy
<1>. QED
  BY <1>1, InitBackupInv, BackupStep, PTL DEF BackupSpec

-----------------------------------------------------------------------------
(* What an operation that nobody disturbed finds at each of its stages.    *)

\* The kind of an operation, by its stage, and the single values in its hands.
KindFits(op) ==
    /\ op.stage \in {"fetchTime", "merge", "truncate", "truncateInterfaces", "writeInterfaces",
                     "setLinks"} => op.kind = "Restore"
    /\ op.stage \in {"remove", "removeTasks", "open"} => op.kind = "Erase"
    /\ op.stage \in {"clearCopy", "copy", "write"} => op.kind \in {"Restore", "Erase"}
    /\ op.stage = "stat" => op.kind = "Backup"
    /\ SingleValued(op.upload.config) /\ SingleValued(op.rows)
    /\ \A x \in op.times : x.section = "backupTime"

KindInv == \A r \in Requests :
    /\ ~ At(r, "new") => KindFits(operations[r])
    /\ resetting = r => At(r, "done") /\ operations[r].kind = "Erase"

SingleInv ==
    /\ SingleValued(config) /\ \A d \in downloads : SingleValued(d.config)
    /\ writer # Unlocked => SingleValued(writer.rows)
    /\ \A r \in Requests : change[r] # None => SingleValued(change[r].rows)

Undisturbed(r) == InFlight(r) /\ ~ operations[r].raced

\* A restore or an erase, and one that has changed nothing yet.
Rewriting(r) == InFlight(r) /\ operations[r].kind \in {"Restore", "Erase"}
Early(r) == operations[r].stage \in {"fetchTime", "clearCopy"}

Alone(r) ==
    /\ Torn => writer.request = r
    /\ Rewriting(r) => \A s \in Requests \ {r} : Rewriting(s) => Early(s)

\* The accounts and devices that a restore is to leave, and the time it adds.
Joined(rows, op) ==
    /\ Accounts(rows) = op.had \cup Without(Accounts(op.upload.config), op.had)
    /\ Section(rows, {"device"}) = Section(op.upload.config, {"device"})
Stamped(rows, op, r) ==
    Joined(rows, op) /\ Section(rows, {"restoreTime"}) = {Time("restoreTime", r)}

\* A restore that waits for its last save.
SavingRestore(r, op) ==
    /\ change[r] = [rows |-> {Time("restoreTime", r)} \cup op.times, gone |-> {}, license |-> None]
    /\ interfaceFile = op.upload.interfaces
    /\ op.upload.interfaces # Empty => links = op.upload.interfaces
    /\ IF Torn THEN config = {} /\ Stamped(writer.rows, op, r)
       ELSE /\ Joined(config, op)
            /\ writer # Unlocked /\ writer.request = r =>
                  writer.rows = Applied(config, change[r]) /\ writer.step = "computed"

Phase(r) == LET op == operations[r] IN
    /\ op.kind = "Restore" /\ op.stage \in {"fetchTime", "clearCopy", "copy", "merge"} =>
          Accounts(config) = op.had
    /\ op.kind = "Restore" /\ op.stage \in {"truncate", "truncateInterfaces", "write"} =>
          Joined(op.rows, op)
    /\ op.stage \in {"truncateInterfaces", "write", "removeTasks", "open"} => config = {}
    /\ op.stage \in {"truncateInterfaces", "write", "writeInterfaces", "setLinks"} => ~ removed
    /\ op.stage \in {"writeInterfaces", "setLinks"} => Joined(config, op)
    /\ op.stage = "setLinks" => interfaceFile = op.upload.interfaces
    /\ op.kind = "Restore" /\ op.stage = "saving" => ~ removed /\ SavingRestore(r, op)
    /\ resetting = r => config = Factory

QuietInv == \A r \in Requests : Undisturbed(r) => Alone(r) /\ Phase(r)

RewriteInv == KindInv /\ SingleInv /\ QuietInv

-----------------------------------------------------------------------------
(* What a step of an operation does to what the others rest on.            *)

SameData(p, o) == /\ p.kind = o.kind /\ p.upload = o.upload /\ p.rows = o.rows
                  /\ p.times = o.times /\ p.had = o.had

Aside(s) == \A q \in Requests \ {s} : \/ operations'[q] = operations[q]
                                      \/ operations'[q] = [operations[q] EXCEPT !.raced = TRUE]

\* A step that the others are told of, or that leaves what they rest on alone,
\* or the write of a file that they know to be torn.
Noisy(s) == \A q \in Requests \ {s} : InFlight(q) => operations'[q].raced
Still(s) ==
    /\ UNCHANGED <<config, interfaceFile, resetting>> /\ (removed' => removed)
    /\ links' = links \/ At(s, "setLinks")
    /\ writer' = writer \/ (writer = Unlocked /\ writer'.request = s /\ ~ Torn')
    /\ \A q \in Requests \ {s} : change'[q] = change[q]
    /\ Early(s) /\ Active(s)' => Early(s)'
Harmless(s) == Noisy(s) \/ Still(s) \/ (Torn /\ writer.request = s)

Goes(s) ==
    /\ Active(s) /\ Aside(s) /\ resetting' \in {resetting, s}
    /\ operations'[s].stage # "new" /\ operations'[s].kind = operations[s].kind
    /\ operations[s].raced => operations'[s].raced
    /\ KindFits(operations'[s])
    /\ resetting' = s => operations'[s].stage = "done" /\ operations'[s].kind = "Erase"

Finds(s) == Undisturbed(s) /\ Alone(s) /\ Phase(s) /\ ~ operations'[s].raced
Leaves(s) == Phase(s)' /\ (Torn' => writer'.request = s)

LEMMA OthersAreSame ==
    ASSUME OperationInv, NEW s \in Requests, Aside(s), NEW r \in Requests \ {s}
    PROVE  /\ operations'[r].stage = operations[r].stage
           /\ operations[r].stage # "new" =>
                 /\ SameData(operations'[r], operations[r])
                 /\ operations[r].raced => operations'[r].raced
                 /\ operations'[r].raced \/ operations'[r] = operations[r]
<1>1. CASE operations'[r] = operations[r]
  BY <1>1 DEF SameData
<1>2. CASE operations'[r] = [operations[r] EXCEPT !.raced = TRUE]
  <2>1. CASE operations[r] = New
    BY <1>2, <2>1, NewIsNew DEF New
  <2>2. CASE IsOperation(operations[r]) /\ operations[r].stage # "new"
    BY <1>2, <2>2 DEF IsOperation, SameData
  <2>. QED
    BY <2>1, <2>2 DEF OperationInv
<1>. QED
  BY <1>1, <1>2 DEF Aside

LEMMA KindCarries ==
    ASSUME BackupInv, KindInv, NEW s \in Requests, Goes(s)
    PROVE  KindInv'
<1>1. SUFFICES ASSUME NEW r \in Requests
               PROVE  /\ operations'[r].stage # "new" => KindFits(operations'[r])
                      /\ resetting' = r => operations'[r].stage = "done" /\ operations'[r].kind = "Erase"
  BY DEF KindInv, At
<1>2. CASE r = s
  BY <1>2 DEF Goes
<1>3. CASE r # s
  <2>1. /\ operations'[r].stage = operations[r].stage
        /\ operations[r].stage # "new" => SameData(operations'[r], operations[r])
    BY <1>3, OthersAreSame DEF Goes, BackupInv
  <2>2. resetting' = r => resetting = r
    BY <1>3 DEF Goes
  <2>. QED
    BY <2>1, <2>2 DEF KindInv, KindFits, SameData, At
<1>. QED
  BY <1>2, <1>3

LEMMA OthersCarry ==
    ASSUME BackupInv, KindInv, QuietInv, NEW s \in Requests, Goes(s), Harmless(s),
           NEW r \in Requests \ {s}, Undisturbed(r)'
    PROVE  Alone(r)' /\ Phase(r)'
<1>1. /\ operations'[r].stage = operations[r].stage
      /\ operations[r].stage # "new" =>
            /\ SameData(operations'[r], operations[r])
            /\ operations'[r].raced \/ operations'[r] = operations[r]
  BY OthersAreSame DEF Goes, BackupInv
<1>2. resetting' = r <=> resetting = r /\ resetting' = resetting
  BY DEF Goes
<1>3. InFlight(r) /\ operations[r].stage # "new" /\ ~ operations'[r].raced
  BY <1>1, <1>2 DEF Undisturbed, InFlight, KindInv, At
<1>4. operations'[r] = operations[r] /\ Undisturbed(r)
  BY <1>1, <1>3 DEF Undisturbed
<1>5. Alone(r) /\ Phase(r)
  BY <1>4 DEF QuietInv
<1>6. Still(s)
  BY <1>3, <1>5 DEF Harmless, Noisy, Alone
<1>7. InFlight(s) /\ operations[s].stage # "done" /\ resetting # s
  BY DEF Goes, Active, InFlight, KindInv, At
<1>8. Rewriting(r) /\ Rewriting(s) => Early(s)
  BY <1>5 DEF Alone
<1>9. Alone(r)'
  <2>1. Torn' => writer'.request = r
    BY <1>5, <1>6 DEF Still, Alone, Torn
  <2>2. ASSUME Rewriting(r)', NEW q \in Requests \ {r}, Rewriting(q)'
        PROVE  Early(q)'
    <3>1. Rewriting(r)
      BY <1>3, <1>4, <2>2 DEF Rewriting
    <3>2. CASE q = s
      <4>1. Rewriting(s) /\ Early(s)
        BY <1>7, <1>8, <2>2, <3>1, <3>2 DEF Rewriting, Goes
      <4>2. Active(s)'
        BY <1>6, <1>7, <2>2, <3>2 DEF Rewriting, InFlight, Active, Still
      <4>. QED
        BY <1>6, <3>2, <4>1, <4>2 DEF Still
    <3>3. CASE q # s
      <4>1. /\ operations'[q].stage = operations[q].stage
            /\ operations[q].stage # "new" => SameData(operations'[q], operations[q])
        BY <3>3, OthersAreSame DEF Goes, BackupInv
      <4>2. Rewriting(q)
        BY <1>6, <2>2, <4>1 DEF Rewriting, InFlight, Still, SameData, KindInv, At
      <4>. QED
        BY <1>5, <2>2, <3>1, <4>1, <4>2 DEF Alone, Early
    <3>. QED
      BY <3>2, <3>3
  <2>. QED
    BY <2>1, <2>2 DEF Alone
<1>10. Phase(r)'
  <2>1. /\ UNCHANGED <<config, interfaceFile, resetting>> /\ (removed' => removed)
        /\ change'[r] = change[r]
    BY <1>6 DEF Still
  <2>2. operations[r].kind = "Restore" => links' = links
    <3>1. SUFFICES ASSUME operations[r].kind = "Restore", At(s, "setLinks") PROVE FALSE
      BY <1>6 DEF Still
    <3>2. operations[s].kind = "Restore"
      BY <3>1 DEF KindInv, KindFits, At
    <3>. QED
      BY <1>3, <1>7, <1>8, <3>1, <3>2 DEF Rewriting, Early, At
  <2>3. operations[r].kind = "Restore" /\ operations[r].stage = "saving" =>
          SavingRestore(r, operations[r])'
    <3>1. SUFFICES ASSUME operations[r].kind = "Restore", operations[r].stage = "saving"
                   PROVE  SavingRestore(r, operations[r])'
      OBVIOUS
    <3>2. SavingRestore(r, operations[r])
      BY <1>5, <3>1 DEF Phase
    <3>3. CASE writer' = writer
      BY <1>4, <2>1, <2>2, <3>1, <3>2, <3>3 DEF SavingRestore, Torn, Joined, Stamped
    <3>4. CASE writer = Unlocked /\ writer'.request = s /\ ~ Torn'
      <4>1. ~ Torn
        BY <3>4 DEF Torn, Unlocked
      <4>. QED
        BY <1>4, <2>1, <2>2, <3>1, <3>2, <3>4, <4>1 DEF SavingRestore, Joined, Stamped
    <3>. QED
      BY <1>6, <3>3, <3>4 DEF Still
  <2>. QED
    BY <1>4, <1>5, <2>1, <2>3 DEF Phase
<1>. QED
  BY <1>9, <1>10

LEMMA QuietCarries ==
    ASSUME BackupInv, KindInv, QuietInv, NEW s \in Requests, Goes(s), Harmless(s),
           Finds(s) => Leaves(s)
    PROVE  KindInv' /\ QuietInv'
<1>1. ASSUME Undisturbed(s)' PROVE Alone(s)' /\ Phase(s)'
  <2>1. InFlight(s) /\ Undisturbed(s)
    BY <1>1 DEF Undisturbed, Goes, Active, InFlight
  <2>2. Alone(s) /\ Leaves(s)
    BY <1>1, <2>1 DEF QuietInv, Finds, Undisturbed
  <2>3. ASSUME Rewriting(s)', NEW q \in Requests \ {s}, Rewriting(q)'
        PROVE  Early(q)'
    <3>1. /\ operations'[q].stage = operations[q].stage
          /\ operations[q].stage # "new" => SameData(operations'[q], operations[q])
      BY OthersAreSame DEF Goes, BackupInv
    <3>2. Rewriting(q) /\ Rewriting(s)
      BY <2>1, <2>3, <3>1 DEF Rewriting, InFlight, SameData, KindInv, At, Goes
    <3>. QED
      BY <2>2, <3>1, <3>2 DEF Alone, Early
  <2>. QED
    BY <2>2, <2>3 DEF Alone, Leaves
<1>2. QuietInv'
  BY <1>1, OthersCarry DEF QuietInv
<1>. QED
  BY <1>2, KindCarries

LEMMA PassesOn ==
    ASSUME BackupInv, KindInv, NEW s \in Requests, Active(s), NEW stage, stage # "new",
           Step(s, stage) \/ Disturbed(s, stage) \/ Write(s, stage)
    PROVE  /\ Aside(s) /\ operations'[s].stage = stage /\ SameData(operations'[s], operations[s])
           /\ operations[s].raced => operations'[s].raced
           /\ Disturbed(s, stage) => operations'[s].raced
           /\ Write(s, stage) => Noisy(s)
           /\ resetting # s /\ KindFits(operations[s])
<1>1. IsOperation(operations[s]) /\ operations[s].stage # "new"
  BY DEF BackupInv, OperationInv, Active, New
<1>2. \A q \in Requests \ {s} : operations'[q] =
        IF Write(s, stage) /\ InFlight(q) THEN [operations[q] EXCEPT !.raced = TRUE] ELSE operations[q]
  BY DEF Step, Disturbed, Write, BackupInv, OperationInv
<1>3. \/ operations'[s] = [operations[s] EXCEPT !.stage = stage]
      \/ operations'[s] = [operations[s] EXCEPT !.stage = stage, !.raced = TRUE]
  BY DEF Step, Disturbed, Write, BackupInv, OperationInv
<1>4. Disturbed(s, stage) => operations'[s] = [operations[s] EXCEPT !.stage = stage, !.raced = TRUE]
  BY DEF Disturbed, BackupInv, OperationInv
<1>5. /\ operations'[s].stage = stage /\ SameData(operations'[s], operations[s])
      /\ operations[s].raced => operations'[s].raced
      /\ Disturbed(s, stage) => operations'[s].raced
  BY <1>1, <1>3, <1>4 DEF IsOperation, SameData
<1>6. ASSUME Write(s, stage), NEW q \in Requests \ {s}, InFlight(q)
      PROVE  operations'[q].raced
  <2>1. operations'[q] = [operations[q] EXCEPT !.raced = TRUE] /\ operations[q].stage # "new"
    BY <1>2, <1>6 DEF InFlight, KindInv, At
  <2>. QED
    BY <2>1 DEF BackupInv, OperationInv, IsOperation, New
<1>7. resetting # s /\ KindFits(operations[s])
  BY <1>1 DEF KindInv, At, Active
<1>. QED
  BY <1>2, <1>5, <1>6, <1>7 DEF Aside, Noisy

\* What a stage says of the kind that has come to it.
KindAt(stage, kind) ==
    /\ stage \in {"fetchTime", "merge", "truncate", "truncateInterfaces", "writeInterfaces",
                  "setLinks"} => kind = "Restore"
    /\ stage \in {"remove", "removeTasks", "open"} => kind = "Erase"
    /\ stage \in {"clearCopy", "copy", "write"} => kind \in {"Restore", "Erase"}
    /\ stage = "stat" => kind = "Backup"

LEMMA Proceeds ==
    ASSUME BackupInv, KindInv, NEW s \in Requests, Active(s), NEW stage, stage # "new",
           Step(s, stage) \/ Disturbed(s, stage) \/ Write(s, stage),
           KindAt(stage, operations[s].kind),
           resetting' = resetting \/ (resetting' = s /\ stage = "done" /\ operations[s].kind = "Erase")
    PROVE  Goes(s)
BY PassesOn DEF Goes, KindFits, KindAt, SameData

\* A step to a stage at which nothing is expected.
LEMMA NothingExpected ==
    ASSUME NEW s \in Requests, resetting' # s, writer' = writer, KindInv,
           operations'[s].stage \in {"create", "snapshot", "done", "failed"}
               \/ (operations'[s].stage = "saving" /\ operations'[s].kind # "Restore"),
           Torn => writer.request = s
    PROVE  Leaves(s)
BY DEF Leaves, Phase, Torn

LEMMA ReadRewrites ==
    ASSUME BackupInv, RewriteInv, NEW r \in Requests, Read(r) \/ Create(r) \/ Stat(r)
    PROVE  RewriteInv'
<1>. USE DEF RewriteInv
<1>1. /\ operations[r].stage \in {"read", "create", "stat"}
      /\ UNCHANGED <<writer, downloads, resetting, links, interfaceFile>>
      /\ \A q \in Requests \ {r} : change'[q] = change[q]
      /\ Active(r) /\ ~ Early(r)
  BY DEF Read, Create, Stat, At, Active, Early, Ask, BackupInv, OperationInv
<1>2. SingleInv'
  <2>1. SingleValued(config') /\ UNCHANGED downloads
    BY DEF Read, Create, Stat, SingleInv, SingleValued
  <2>2. change'[r] = change[r] \/ change'[r].rows = {Time("backupTime", r)}
    BY DEF Read, Create, Stat, Ask, BackupInv, OperationInv
  <2>3. SingleValued({Time("backupTime", r)})
    BY DEF SingleValued, Time
  <2>4. \A q \in Requests : change'[q] # None => SingleValued(change'[q].rows)
    BY <1>1, <2>2, <2>3 DEF SingleInv
  <2>. QED
    BY <1>1, <2>1, <2>4 DEF SingleInv
<1>3. \E stage \in {"create", "saving", "done", "failed"} :
        /\ stage = "saving" => operations[r].stage = "stat"
        /\ Step(r, stage) \/ Write(r, stage)
        /\ Write(r, stage) \/ (UNCHANGED config /\ (removed' => removed))
  <2>1. CASE Read(r)
    BY <2>1 DEF Read
  <2>2. CASE Create(r)
    BY <2>2 DEF Create
  <2>3. CASE Stat(r)
    BY <2>3 DEF Stat, At
  <2>. QED
    BY <2>1, <2>2, <2>3
<1>4. PICK stage \in {"create", "saving", "done", "failed"} :
        /\ stage = "saving" => operations[r].stage = "stat"
        /\ Step(r, stage) \/ Write(r, stage)
        /\ Write(r, stage) \/ (UNCHANGED config /\ (removed' => removed))
  BY <1>3
<1>5. Goes(r)
  BY <1>1, <1>4, Proceeds DEF KindAt
<1>6. /\ operations'[r].stage = stage /\ operations'[r].kind = operations[r].kind
      /\ Write(r, stage) => Noisy(r)
      /\ resetting # r /\ KindFits(operations[r])
  BY <1>1, <1>4, PassesOn DEF SameData
<1>7. Harmless(r)
  BY <1>1, <1>4, <1>6 DEF Harmless, Still
<1>8. Finds(r) => Leaves(r)
  BY <1>1, <1>4, <1>6, NothingExpected DEF Finds, Alone, KindFits
<1>. QED
  BY <1>2, <1>5, <1>7, <1>8, QuietCarries

LEMMA SnapshotRewrites ==
    ASSUME BackupInv, RewriteInv, NEW r \in Requests, Snapshot(r)
    PROVE  RewriteInv'
<1>. USE DEF RewriteInv
<1>1. /\ operations[r].stage = "snapshot" /\ Step(r, "done")
      /\ UNCHANGED <<config, writer, change, removed, interfaceFile, links, resetting>>
      /\ downloads' \in {downloads, downloads \cup {[config |-> config, interfaces |-> interfaceFile]}}
      /\ Active(r) /\ ~ Early(r)
  BY DEF Snapshot, At, Active, Early
<1>2. SingleInv'
  BY <1>1 DEF SingleInv
<1>3. Goes(r)
  BY <1>1, Proceeds DEF KindAt
<1>4. operations'[r].stage = "done" /\ resetting # r
  BY <1>1, PassesOn
<1>5. Harmless(r)
  BY <1>1 DEF Harmless, Still
<1>6. Finds(r) => Leaves(r)
  BY <1>1, <1>4, NothingExpected DEF Finds, Alone
<1>. QED
  BY <1>2, <1>3, <1>5, <1>6, QuietCarries

LEMMA FetchRewrites ==
    ASSUME BackupInv, RewriteInv, NEW r \in Requests, FetchBackupTime(r)
    PROVE  RewriteInv'
<1>. USE DEF RewriteInv
<1>. DEFINE times == Section(config, {"backupTime"})
            stage == IF Corrupt \in config THEN "failed" ELSE "clearCopy"
<1>1. /\ operations[r].stage = "fetchTime"
      /\ operations' = [operations EXCEPT ![r].times = times, ![r].stage = stage]
      /\ removed' = FALSE
      /\ UNCHANGED <<config, writer, change, interfaceFile, links, downloads, resetting>>
  BY DEF FetchBackupTime, At
<1>2. stage \in {"failed", "clearCopy"} /\ \A x \in times : x.section = "backupTime"
  BY DEF Section
<1>. HIDE DEF times, stage
<1>3. /\ IsOperation(operations[r]) /\ operations[r].kind = "Restore" /\ Active(r)
      /\ KindFits(operations[r]) /\ resetting # r
  BY <1>1 DEF BackupInv, OperationInv, New, KindInv, KindFits, At, Active
<1>4. operations'[r] = [operations[r] EXCEPT !.times = times, !.stage = stage]
  BY <1>1 DEF BackupInv, OperationInv
<1>5. /\ operations'[r].stage = stage /\ operations'[r].kind = operations[r].kind
      /\ operations'[r].had = operations[r].had /\ operations'[r].times = times
      /\ operations'[r].upload = operations[r].upload /\ operations'[r].rows = operations[r].rows
      /\ operations'[r].raced <=> operations[r].raced
  BY <1>3, <1>4 DEF IsOperation
<1>6. Aside(r)
  BY <1>1 DEF Aside, BackupInv, OperationInv
<1>7. Goes(r)
  BY <1>1, <1>2, <1>3, <1>5, <1>6 DEF Goes, KindFits
<1>8. Harmless(r)
  BY <1>1, <1>2, <1>5 DEF Harmless, Still, Early, Active
<1>9. Finds(r) => Leaves(r)
  BY <1>1, <1>2, <1>3, <1>5 DEF Finds, Leaves, Alone, Phase, Torn
<1>. QED
  BY <1>1, <1>7, <1>8, <1>9, QuietCarries DEF SingleInv

LEMMA MergeJoins ==
    ASSUME NEW rows, NEW op, Accounts(rows) = op.had
    PROVE  Joined(Merged(rows, op.upload.config), op)
BY DEF Joined, Merged, Accounts, Section, Without, SameRow

LEMMA MergeIsSingle ==
    ASSUME NEW rows, NEW upload, SingleValued(upload)
    PROVE  SingleValued(Merged(rows, upload))
BY DEF SingleValued, Merged, Section, Without

LEMMA ClearCopyRewrites ==
    ASSUME BackupInv, RewriteInv, NEW r \in Requests, ClearCopy(r)
    PROVE  RewriteInv'
<1>. USE DEF RewriteInv
<1>1. /\ operations[r].stage = "clearCopy" /\ Write(r, "copy") /\ Active(r)
      /\ UNCHANGED <<config, writer, change, removed, interfaceFile, links, resetting, downloads>>
  BY DEF ClearCopy, At, Active
<1>2. /\ operations'[r].stage = "copy" /\ SameData(operations'[r], operations[r])
      /\ Noisy(r) /\ resetting # r /\ KindFits(operations[r])
  BY <1>1, PassesOn
<1>3. Goes(r)
  BY <1>1, <1>2, Proceeds DEF KindAt, KindFits
<1>4. Finds(r) => Leaves(r)
  BY <1>1, <1>2 DEF Finds, Leaves, Alone, Phase, Torn, SameData
<1>. QED
  BY <1>1, <1>2, <1>3, <1>4, QuietCarries DEF SingleInv, Harmless

LEMMA CopyRewrites ==
    ASSUME BackupInv, RewriteInv, NEW r \in Requests, Copy(r)
    PROVE  RewriteInv'
<1>. USE DEF RewriteInv
<1>. DEFINE next == IF operations[r].kind = "Restore" THEN "merge" ELSE "remove"
<1>1. /\ operations[r].stage = "copy" /\ Active(r) /\ ~ Early(r)
      /\ UNCHANGED <<config, writer, change, removed, interfaceFile, links, resetting, downloads>>
      /\ \/ operations' = [operations EXCEPT ![r].stage = next, ![r].copied = TRUE]
         \/ Disturbed(r, next)
  BY DEF Copy, At, Active, Early
<1>2. /\ \/ next = "merge" /\ operations[r].kind = "Restore"
         \/ next = "remove" /\ operations[r].kind # "Restore"
      /\ next # "new"
  OBVIOUS
<1>. HIDE DEF next
<1>3. /\ IsOperation(operations[r]) /\ KindFits(operations[r]) /\ resetting # r
      /\ operations[r].kind \in {"Restore", "Erase"}
  BY <1>1 DEF BackupInv, OperationInv, New, KindInv, KindFits, At
<1>4. Harmless(r)
  BY <1>1 DEF Harmless, Still
<1>5. CASE Disturbed(r, next)
  <2>1. Goes(r)
    BY <1>1, <1>2, <1>3, <1>5, Proceeds DEF KindAt
  <2>2. operations'[r].raced
    BY <1>1, <1>2, <1>5, PassesOn
  <2>. QED
    BY <1>1, <1>4, <2>1, <2>2, QuietCarries DEF SingleInv, Finds
<1>6. CASE operations' = [operations EXCEPT ![r].stage = next, ![r].copied = TRUE]
  <2>1. operations'[r] = [operations[r] EXCEPT !.stage = next, !.copied = TRUE] /\ Aside(r)
    BY <1>6 DEF BackupInv, OperationInv, Aside
  <2>2. /\ operations'[r].stage = next /\ SameData(operations'[r], operations[r])
        /\ operations'[r].raced <=> operations[r].raced
    BY <1>3, <2>1 DEF IsOperation, SameData
  <2>3. Goes(r)
    BY <1>1, <1>2, <1>3, <2>1, <2>2 DEF Goes, KindFits, SameData
  <2>4. Finds(r) => Leaves(r)
    BY <1>1, <1>2, <1>3, <2>2 DEF Finds, Leaves, Alone, Phase, Torn, SameData
  <2>. QED
    BY <1>1, <1>4, <2>3, <2>4, QuietCarries DEF SingleInv
<1>. QED
  BY <1>1, <1>5, <1>6

LEMMA MergeRewrites ==
    ASSUME BackupInv, RewriteInv, NEW r \in Requests, Merge(r)
    PROVE  RewriteInv'
<1>. USE DEF RewriteInv
<1>. DEFINE rows == Merged(config, operations[r].upload.config)
<1>1. /\ operations[r].stage = "merge" /\ Active(r) /\ ~ Early(r)
      /\ UNCHANGED <<config, writer, change, removed, interfaceFile, links, resetting, downloads>>
      /\ \/ operations' = [operations EXCEPT ![r].stage = "truncate", ![r].rows = rows]
         \/ Disturbed(r, "truncate")
  BY DEF Merge, At, Active, Early
<1>2. /\ IsOperation(operations[r]) /\ KindFits(operations[r]) /\ resetting # r
      /\ operations[r].kind = "Restore"
  BY <1>1 DEF BackupInv, OperationInv, New, KindInv, KindFits, At
<1>3. /\ SingleValued(rows)
      /\ Accounts(config) = operations[r].had => Joined(rows, operations[r])
  BY <1>2, MergeIsSingle, MergeJoins DEF KindFits
<1>. HIDE DEF rows
<1>4. Harmless(r)
  BY <1>1 DEF Harmless, Still
<1>5. CASE Disturbed(r, "truncate")
  <2>1. Goes(r)
    BY <1>1, <1>2, <1>5, Proceeds DEF KindAt
  <2>2. operations'[r].raced
    BY <1>1, <1>5, PassesOn
  <2>. QED
    BY <1>1, <1>4, <2>1, <2>2, QuietCarries DEF SingleInv, Finds
<1>6. CASE operations' = [operations EXCEPT ![r].stage = "truncate", ![r].rows = rows]
  <2>1. operations'[r] = [operations[r] EXCEPT !.stage = "truncate", !.rows = rows] /\ Aside(r)
    BY <1>6 DEF BackupInv, OperationInv, Aside
  <2>2. /\ operations'[r].stage = "truncate" /\ operations'[r].kind = operations[r].kind
        /\ operations'[r].rows = rows /\ operations'[r].had = operations[r].had
        /\ operations'[r].times = operations[r].times /\ operations'[r].upload = operations[r].upload
        /\ operations'[r].raced <=> operations[r].raced
    BY <1>2, <2>1 DEF IsOperation
  <2>3. Goes(r)
    BY <1>1, <1>2, <1>3, <2>1, <2>2 DEF Goes, KindFits
  <2>4. Finds(r) => Leaves(r)
    BY <1>1, <1>2, <1>3, <2>2 DEF Finds, Leaves, Alone, Phase, Torn, Joined
  <2>. QED
    BY <1>1, <1>4, <2>3, <2>4, QuietCarries DEF SingleInv
<1>. QED
  BY <1>1, <1>5, <1>6

LEMMA WrittenOver ==
    ASSUME NEW rows, NEW content, NEW result \in Overwritten(content, rows)
    PROVE  /\ content = {} => result = rows
           /\ SingleValued(rows) => SingleValued(result)
BY DEF Overwritten, SingleValued, Corrupt

LEMMA CreateRewrites ==
    ASSUME BackupInv, RewriteInv, NEW r \in Requests, CreateConfig(r) \/ CreateInterfaces(r)
    PROVE  RewriteInv'
<1>. USE DEF RewriteInv
<1>1. CASE CreateConfig(r)
  <2>1. /\ operations[r].stage = "truncate" /\ Write(r, "truncateInterfaces") /\ Active(r)
        /\ config' = {} /\ removed' = FALSE
        /\ UNCHANGED <<writer, change, interfaceFile, links, resetting, downloads>>
    BY <1>1 DEF CreateConfig, At, Active
  <2>2. /\ operations'[r].stage = "truncateInterfaces" /\ SameData(operations'[r], operations[r])
        /\ Noisy(r) /\ resetting # r /\ KindFits(operations[r])
    BY <2>1, PassesOn
  <2>3. Goes(r)
    BY <2>1, <2>2, Proceeds DEF KindAt, KindFits
  <2>4. Finds(r) => Leaves(r)
    BY <2>1, <2>2 DEF Finds, Leaves, Alone, Phase, Torn, SameData, Joined, KindFits
  <2>5. SingleInv'
    BY <2>1 DEF SingleInv, SingleValued
  <2>. QED
    BY <2>2, <2>3, <2>4, <2>5, QuietCarries DEF Harmless
<1>2. CASE CreateInterfaces(r)
  <2>1. /\ operations[r].stage = "truncateInterfaces" /\ Active(r)
        /\ UNCHANGED <<config, writer, change, removed, links, resetting, downloads>>
        /\ \/ Step(r, "failed") /\ UNCHANGED interfaceFile
           \/ Write(r, "write")
    BY <1>2 DEF CreateInterfaces, At, Active
  <2>2. PICK stage \in {"failed", "write"} :
           \/ stage = "failed" /\ Step(r, stage) /\ UNCHANGED interfaceFile
           \/ stage = "write" /\ Write(r, stage)
    BY <2>1
  <2>3. /\ operations'[r].stage = stage /\ SameData(operations'[r], operations[r])
        /\ Write(r, stage) => Noisy(r)
        /\ resetting # r /\ KindFits(operations[r])
    BY <2>1, <2>2, PassesOn
  <2>4. Goes(r)
    BY <2>1, <2>2, <2>3, Proceeds DEF KindAt, KindFits
  <2>5. Harmless(r)
    BY <2>1, <2>2, <2>3 DEF Harmless, Still, Early
  <2>6. Finds(r) => Leaves(r)
    BY <2>1, <2>2, <2>3 DEF Finds, Leaves, Alone, Phase, Torn, SameData, Joined, KindFits
  <2>. QED
    BY <2>1, <2>4, <2>5, <2>6, QuietCarries DEF SingleInv
<1>. QED
  BY <1>1, <1>2

LEMMA WriteDataRewrites ==
    ASSUME BackupInv, RewriteInv, NEW r \in Requests, WriteData(r)
    PROVE  RewriteInv'
<1>. USE DEF RewriteInv
<1>1. /\ operations[r].stage = "write" /\ Active(r) /\ ~ Early(r)
      /\ UNCHANGED <<writer, change, removed, interfaceFile, links, downloads>>
      /\ \/ Step(r, "failed") /\ UNCHANGED <<config, resetting>>
         \/ /\ config' = config \/ config' \in Overwritten(config, Data(r))
            /\ ~ removed => config' \in Overwritten(config, Data(r))
            /\ \/ operations[r].kind = "Erase" /\ Write(r, "done") /\ resetting' = r
               \/ /\ operations[r].kind # "Erase" /\ Write(r, "writeInterfaces")
                  /\ UNCHANGED resetting
  BY DEF WriteData, At, Active, Early
<1>2. resetting # r /\ KindFits(operations[r])
  BY <1>1, PassesOn
<1>3. operations[r].kind \in {"Restore", "Erase"}
  BY <1>1, <1>2 DEF KindFits
<1>4. SingleInv'
  <2>1. SingleValued(Data(r))
    BY <1>2, BackupAssumption DEF Data, KindFits
  <2>2. SingleValued(config')
    BY <1>1, <2>1, WrittenOver DEF SingleInv
  <2>. QED
    BY <1>1, <2>2 DEF SingleInv
<1>5. CASE Step(r, "failed") /\ UNCHANGED <<config, resetting>>
  <2>1. operations'[r].stage = "failed"
    BY <1>1, <1>5, PassesOn
  <2>2. Goes(r)
    BY <1>1, <1>5, Proceeds DEF KindAt
  <2>3. Harmless(r)
    BY <1>1, <1>5 DEF Harmless, Still
  <2>4. Finds(r) => Leaves(r)
    BY <1>1, <1>2, <1>5, <2>1, NothingExpected DEF Finds, Alone
  <2>. QED
    BY <1>4, <2>2, <2>3, <2>4, QuietCarries
<1>6. ASSUME config' = config \/ config' \in Overwritten(config, Data(r)),
             ~ removed => config' \in Overwritten(config, Data(r)),
             NEW stage \in {"done", "writeInterfaces"}, Write(r, stage),
             \/ operations[r].kind = "Erase" /\ stage = "done" /\ resetting' = r
             \/ operations[r].kind = "Restore" /\ stage = "writeInterfaces" /\ UNCHANGED resetting
      PROVE  RewriteInv'
  <2>1. /\ operations'[r].stage = stage /\ SameData(operations'[r], operations[r]) /\ Noisy(r)
    BY <1>1, <1>6, PassesOn
  <2>2. Goes(r)
    BY <1>1, <1>6, Proceeds DEF KindAt
  <2>3. Finds(r) => Leaves(r)
    <3>1. SUFFICES ASSUME Finds(r) PROVE Leaves(r)
      OBVIOUS
    <3>2. config' = Data(r)
      BY <1>1, <1>6, <3>1, WrittenOver DEF Finds, Phase
    <3>3. operations[r].kind = "Restore" => Joined(operations[r].rows, operations[r])
      BY <1>1, <3>1 DEF Finds, Phase
    <3>. QED
      BY <1>1, <1>2, <1>6, <2>1, <3>1, <3>2, <3>3
      DEF Finds, Leaves, Alone, Phase, Torn, SameData, Joined, Data
  <2>. QED
    BY <1>4, <2>1, <2>2, <2>3, QuietCarries DEF Harmless
<1>. QED
  BY <1>1, <1>3, <1>5, <1>6

LEMMA WriteInterfacesRewrites ==
    ASSUME BackupInv, RewriteInv, NEW r \in Requests, WriteInterfaces(r)
    PROVE  RewriteInv'
<1>. USE DEF RewriteInv
<1>1. /\ operations[r].stage = "writeInterfaces" /\ Write(r, "setLinks") /\ Active(r)
      /\ interfaceFile' = operations[r].upload.interfaces
      /\ UNCHANGED <<config, writer, change, removed, links, resetting, downloads>>
  BY DEF WriteInterfaces, At, Active
<1>2. /\ operations'[r].stage = "setLinks" /\ SameData(operations'[r], operations[r])
      /\ Noisy(r) /\ resetting # r /\ KindFits(operations[r])
  BY <1>1, PassesOn
<1>3. Goes(r)
  BY <1>1, <1>2, Proceeds DEF KindAt, KindFits
<1>4. Finds(r) => Leaves(r)
  BY <1>1, <1>2 DEF Finds, Leaves, Alone, Phase, Torn, SameData, Joined
<1>. QED
  BY <1>1, <1>2, <1>3, <1>4, QuietCarries DEF SingleInv, Harmless

LEMMA SetLinksRewrites ==
    ASSUME BackupInv, RewriteInv, NEW r \in Requests, SetLinks(r)
    PROVE  RewriteInv'
<1>. USE DEF RewriteInv
<1>. DEFINE asked == [rows |-> {Time("restoreTime", r)} \cup operations[r].times,
                      gone |-> {}, license |-> None]
<1>1. /\ operations[r].stage = "setLinks" /\ Active(r) /\ ~ Early(r)
      /\ UNCHANGED <<config, writer, removed, interfaceFile, resetting, downloads>>
      /\ \/ Step(r, "failed") /\ UNCHANGED change
         \/ /\ links' = IF interfaceFile = Empty THEN links ELSE interfaceFile
            /\ Step(r, "saving") /\ change' = [change EXCEPT ![r] = asked]
  BY DEF SetLinks, At, Active, Early, Ask
<1>2. resetting # r /\ KindFits(operations[r]) /\ operations[r].kind = "Restore"
  BY <1>1, PassesOn DEF KindFits
<1>3. change[r] = None /\ (writer # Unlocked => writer.request # r)
  BY <1>1, NotSaving DEF BackupInv
<1>4. SingleValued(asked.rows)
  BY <1>2 DEF SingleValued, KindFits, Time
<1>5. \A q \in Requests \ {r} : change'[q] = change[q]
  BY <1>1 DEF BackupInv, OperationInv
<1>6. Harmless(r)
  BY <1>1, <1>5 DEF Harmless, Still, At
<1>7. CASE Step(r, "failed") /\ UNCHANGED change
  <2>1. operations'[r].stage = "failed"
    BY <1>1, <1>7, PassesOn
  <2>2. Goes(r)
    BY <1>1, <1>7, Proceeds DEF KindAt
  <2>3. Finds(r) => Leaves(r)
    BY <1>1, <1>2, <2>1, NothingExpected DEF Finds, Alone
  <2>. QED
    BY <1>1, <1>6, <1>7, <2>2, <2>3, QuietCarries DEF SingleInv
<1>8. CASE /\ links' = IF interfaceFile = Empty THEN links ELSE interfaceFile
           /\ Step(r, "saving") /\ change' = [change EXCEPT ![r] = asked]
  <2>1. operations'[r].stage = "saving" /\ SameData(operations'[r], operations[r])
    BY <1>1, <1>8, PassesOn
  <2>2. Goes(r)
    BY <1>1, <1>8, Proceeds DEF KindAt
  <2>3. change'[r] = asked
    BY <1>8 DEF BackupInv, OperationInv
  <2>4. SingleInv'
    BY <1>1, <1>4, <1>5, <2>3 DEF SingleInv
  <2>5. ASSUME Finds(r) PROVE Leaves(r)
    <3>1. /\ ~ Torn /\ (writer # Unlocked => writer.request # r)
          /\ ~ removed /\ Joined(config, operations[r])
          /\ interfaceFile = operations[r].upload.interfaces
      BY <1>1, <1>3, <2>5 DEF Finds, Alone, Phase, Torn, Unlocked
    <3>2. SavingRestore(r, operations[r])'
      BY <1>1, <1>8, <2>1, <2>3, <3>1 DEF SavingRestore, Torn, SameData, Joined
    <3>. QED
      BY <1>1, <1>2, <2>1, <3>1, <3>2 DEF Leaves, Phase, Torn
  <2>. QED
    BY <1>6, <2>2, <2>4, <2>5, QuietCarries
<1>. QED
  BY <1>1, <1>7, <1>8

LEMMA EraseRewrites ==
    ASSUME BackupInv, RewriteInv, NEW r \in Requests,
           RemoveConfig(r) \/ RemoveTasks(r) \/ OpenConfig(r)
    PROVE  RewriteInv'
<1>. USE DEF RewriteInv
<1>1. PICK stage \in {"failed", "removeTasks", "open", "write"} :
        /\ Step(r, stage) \/ Write(r, stage)
        /\ stage = "removeTasks" => operations[r].stage = "remove" /\ config' = {}
        /\ stage = "open" => operations[r].stage = "removeTasks"
        /\ stage = "write" => operations[r].stage = "open" /\ ~ removed'
        /\ stage # "removeTasks" => UNCHANGED config
        /\ Write(r, stage) \/ UNCHANGED <<config, removed>>
  <2>1. CASE RemoveConfig(r)
    BY <2>1 DEF RemoveConfig, At
  <2>2. CASE RemoveTasks(r)
    BY <2>2 DEF RemoveTasks, At
  <2>3. CASE OpenConfig(r)
    BY <2>3 DEF OpenConfig, At
  <2>. QED
    BY <2>1, <2>2, <2>3
<1>2. /\ operations[r].stage \in {"remove", "removeTasks", "open"} /\ Active(r) /\ ~ Early(r)
      /\ UNCHANGED <<writer, change, interfaceFile, links, resetting, downloads>>
  BY DEF RemoveConfig, RemoveTasks, OpenConfig, At, Active, Early
<1>3. /\ operations'[r].stage = stage /\ SameData(operations'[r], operations[r])
      /\ Write(r, stage) => Noisy(r)
      /\ resetting # r /\ KindFits(operations[r])
  BY <1>1, <1>2, PassesOn
<1>4. Goes(r)
  BY <1>1, <1>2, <1>3, Proceeds DEF KindAt, KindFits
<1>5. Harmless(r)
  BY <1>1, <1>2, <1>3 DEF Harmless, Still
<1>6. Finds(r) => Leaves(r)
  BY <1>1, <1>2, <1>3 DEF Finds, Leaves, Alone, Phase, Torn, SameData, KindFits
<1>7. SingleInv'
  BY <1>1, <1>2 DEF SingleInv, SingleValued
<1>. QED
  BY <1>4, <1>5, <1>6, <1>7, QuietCarries

-----------------------------------------------------------------------------
(* The saves.                                                              *)

LEMMA SaveIsSingle ==
    ASSUME NEW rows, NEW c, SingleValued(rows), SingleValued(c.rows)
    PROVE  SingleValued(Applied(rows, c))
BY DEF SingleValued, Applied, Put, Without

\* The last save of a restore adds its time to what has been joined.
LEMMA SaveStamps ==
    ASSUME NEW r, NEW rows, NEW op, NEW c, Joined(rows, op), SingleValued(rows),
           c.rows = {Time("restoreTime", r)} \cup op.times, c.gone = {},
           \A x \in op.times : x.section = "backupTime"
    PROVE  Stamped(Applied(rows, c), op, r)
<1>1. \A x \in c.rows : x.section \in {"backupTime", "restoreTime"}
  BY DEF Time
<1>2. Section(Applied(rows, c), {"auth"}) = Section(rows, {"auth"})
  BY <1>1 DEF Section, Applied, Put, Without, SameRow
<1>3. Section(Applied(rows, c), {"device"}) = Section(rows, {"device"})
  BY <1>1 DEF Section, Applied, Put, Without, SameRow
<1>4. ASSUME NEW x \in c.rows, x.section = "restoreTime" PROVE x = Time("restoreTime", r)
  BY <1>4
<1>5. ASSUME NEW x \in Applied(rows, c), x.section = "restoreTime"
      PROVE  x = Time("restoreTime", r)
  <2>1. SUFFICES ASSUME x \in rows, ~ \E y \in c.rows : SameRow(x, y) PROVE FALSE
    BY <1>4, <1>5 DEF Applied, Put, Without, SameRow
  <2>2. x.key = "time"
    BY <1>5, <2>1 DEF SingleValued
  <2>3. SameRow(x, Time("restoreTime", r))
    BY <1>5, <2>2 DEF SameRow, Time
  <2>. QED
    BY <2>1, <2>3
<1>6. Time("restoreTime", r) \in Applied(rows, c)
  <2>1. /\ Time("restoreTime", r) \in c.rows /\ Time("restoreTime", r).section = "restoreTime"
    BY DEF Time
  <2>. QED
    BY <1>4, <2>1 DEF Applied, Put, Without
<1>. QED
  BY <1>2, <1>3, <1>5, <1>6 DEF Stamped, Joined, Accounts, Section, Time

LEMMA LockRewrites ==
    ASSUME BackupInv, RewriteInv, NEW r \in Requests, Lock(r)
    PROVE  RewriteInv'
<1>. USE DEF RewriteInv
<1>1. /\ change[r] # None /\ writer = Unlocked /\ removed' = FALSE
      /\ UNCHANGED <<config, change, interfaceFile, links, operations, resetting, downloads>>
      /\ writer' = [request |-> r, rows |-> Applied(config, change[r]),
                    step |-> IF change[r].license = None THEN "computed" ELSE "licensing"]
  BY DEF Lock, LockAndRead
<1>2. /\ writer'.request = r /\ writer'.rows = Applied(config, change[r])
      /\ change[r].license = None => writer'.step = "computed"
      /\ ~ Torn' /\ ~ Torn
  BY <1>1 DEF Torn, Unlocked
<1>3. operations[r].stage = "saving" /\ Active(r) /\ resetting # r /\ KindFits(operations[r])
  BY <1>1 DEF BackupInv, OperationInv, Active, KindInv, At
<1>4. SingleInv'
  BY <1>1, <1>2, SaveIsSingle DEF SingleInv
<1>5. Goes(r)
  BY <1>1, <1>3 DEF Goes, Aside
<1>6. Harmless(r)
  BY <1>1, <1>2 DEF Harmless, Still, Early
<1>7. ASSUME Finds(r) PROVE Leaves(r)
  <2>1. operations[r].kind = "Restore" => SavingRestore(r, operations[r])
    BY <1>3, <1>7 DEF Finds, Phase
  <2>2. operations[r].kind = "Restore" => change[r].license = None
    BY <2>1 DEF SavingRestore
  <2>3. operations[r].kind = "Restore" => SavingRestore(r, operations[r])'
    BY <1>1, <1>2, <2>1, <2>2 DEF SavingRestore, Joined
  <2>. QED
    BY <1>1, <1>2, <1>3, <2>3 DEF Leaves, Phase
<1>. QED
  BY <1>4, <1>5, <1>6, <1>7, QuietCarries

LEMMA TruncateRewrites ==
    ASSUME BackupInv, RewriteInv, Truncate
    PROVE  RewriteInv'
<1>. USE DEF RewriteInv
<1>. DEFINE r == writer.request
<1>1. /\ writer.step = "computed" /\ config' = {} /\ removed' = FALSE
      /\ writer' = [writer EXCEPT !.step = "torn"] /\ Write(r, "saving")
      /\ UNCHANGED <<change, interfaceFile, links, resetting, downloads>>
  BY DEF Truncate, TruncateConfig
<1>2. /\ writer # Unlocked /\ IsWriter(writer) /\ r \in Requests
      /\ operations[r].stage = "saving" /\ Active(r)
  BY <1>1 DEF BackupInv, OperationInv, IsWriter, Unlocked, Active
<1>3. writer'.request = r /\ writer'.rows = writer.rows /\ writer'.step = "torn"
  BY <1>1, <1>2 DEF IsWriter
<1>4. /\ operations'[r].stage = "saving" /\ SameData(operations'[r], operations[r])
      /\ Noisy(r) /\ resetting # r /\ KindFits(operations[r])
  BY <1>1, <1>2, PassesOn
<1>5. SingleInv'
  BY <1>1, <1>2, <1>3 DEF SingleInv, SingleValued
<1>6. Goes(r)
  BY <1>1, <1>2, Proceeds DEF KindAt
<1>7. ASSUME Finds(r) PROVE Leaves(r)
  <2>1. ASSUME operations[r].kind = "Restore" PROVE SavingRestore(r, operations[r])'
    <3>1. SavingRestore(r, operations[r]) /\ ~ Torn
      BY <1>1, <1>2, <1>7, <2>1 DEF Finds, Phase, Torn
    <3>2. /\ Joined(config, operations[r])
          /\ writer.rows = Applied(config, change[r])
          /\ change[r] = [rows |-> {Time("restoreTime", r)} \cup operations[r].times,
                          gone |-> {}, license |-> None]
      BY <1>2, <3>1 DEF SavingRestore
    <3>3. Stamped(writer.rows, operations[r], r)
      BY <1>4, <3>2, SaveStamps DEF SingleInv, KindFits
    <3>. QED
      BY <1>1, <1>3, <1>4, <3>1, <3>2, <3>3
      DEF SavingRestore, Torn, SameData, Stamped, Joined
  <2>. QED
    BY <1>1, <1>3, <1>4, <2>1 DEF Leaves, Phase, SameData
<1>. QED
  BY <1>2, <1>4, <1>5, <1>6, <1>7, QuietCarries DEF Harmless

LEMMA SavedRewrites ==
    ASSUME BackupInv, RewriteInv, NEW r \in Requests, Saved(r) \/ SaveFails(r)
    PROVE  RewriteInv'
<1>. USE DEF RewriteInv
<1>1. PICK stage \in {"snapshot", "done", "failed"} :
        /\ Step(r, stage)
        /\ \/ /\ Torn /\ writer.request = r /\ writer' = Unlocked
              /\ config' = config \/ config' \in Overwritten(config, writer.rows)
           \/ UNCHANGED <<config, writer>> /\ change[r] # None
  BY DEF Saved, SaveFails, WriteConfig, StopWriter, LockTimeout
<1>2. /\ UNCHANGED <<removed, interfaceFile, links, resetting, downloads>>
      /\ change' = [change EXCEPT ![r] = None]
  BY DEF Saved, SaveFails, WriteConfig, StopWriter, LockTimeout
<1>3. operations[r].stage = "saving" /\ Active(r) /\ (Torn => writer # Unlocked)
  BY <1>1 DEF BackupInv, OperationInv, Active, Torn, Unlocked
<1>4. operations'[r].stage = stage /\ resetting # r
  BY <1>1, <1>3, PassesOn
<1>5. \A q \in Requests \ {r} : change'[q] = change[q]
  BY <1>2 DEF BackupInv, OperationInv
<1>6. SingleInv'
  <2>1. SingleValued(config')
    BY <1>1, <1>3, WrittenOver DEF SingleInv
  <2>2. \A q \in Requests : change'[q] # None => SingleValued(change'[q].rows)
    BY <1>2 DEF SingleInv, BackupInv, OperationInv
  <2>. QED
    BY <1>1, <1>2, <2>1, <2>2 DEF SingleInv
<1>7. Goes(r)
  BY <1>1, <1>2, <1>3, Proceeds DEF KindAt
<1>8. Harmless(r)
  BY <1>1, <1>2, <1>3, <1>5 DEF Harmless, Still, Early
<1>9. Finds(r) => Leaves(r)
  BY <1>1, <1>2, <1>4 DEF Finds, Leaves, Alone, Phase, Torn, Unlocked
<1>. QED
  BY <1>6, <1>7, <1>8, <1>9, QuietCarries

-----------------------------------------------------------------------------
(* The beginning and the end.                                              *)

LEMMA BeginRewrites ==
    ASSUME BackupInv, RewriteInv, NEW r \in Requests, Begin(r)
    PROVE  RewriteInv'
<1>. USE DEF RewriteInv
<1>0. PICK kind \in Kinds, upload \in Uploads \cup downloads :
        /\ operations' = [operations EXCEPT ![r] =
                [kind |-> kind, stage |-> FirstStage[kind], upload |-> upload,
                 rows |-> {}, times |-> {}, had |-> Accounts(StoredRows), copied |-> FALSE,
                 raced |-> \/ Torn \/ Corrupt \in config
                           \/ \E s \in Rewrites : InFlight(s)]]
        /\ IF kind = "Save" THEN Ask(r, {[section |-> "auth", key |-> r]})
                            ELSE UNCHANGED change
  BY DEF Begin
<1>1. /\ operations[r].stage = "new" /\ resetting # r
      /\ UNCHANGED <<config, writer, removed, interfaceFile, links, resetting, downloads>>
  BY DEF Begin, At, KindInv
<1>2. change[r] = None /\ (writer # Unlocked => writer.request # r)
  BY <1>1, NotSaving DEF BackupInv
<1>3. \A s \in Requests \ {r} : operations'[s] = operations[s] /\ change'[s] = change[s]
  BY <1>0 DEF BackupInv, OperationInv, Ask
<1>. DEFINE raced == Torn \/ Corrupt \in config \/ \E s \in Rewrites : InFlight(s)
            new == [kind |-> kind, stage |-> FirstStage[kind], upload |-> upload,
                    rows |-> {}, times |-> {}, had |-> Accounts(StoredRows), copied |-> FALSE,
                    raced |-> raced]
<1>4. operations'[r] = new
  <2>. HIDE DEF new
  <2>1. operations' = [operations EXCEPT ![r] = new]
    BY <1>0 DEF new
  <2>. QED
    BY <2>1 DEF BackupInv, OperationInv
<1>5. /\ operations'[r].kind = kind /\ operations'[r].stage = FirstStage[kind]
      /\ operations'[r].upload = upload /\ operations'[r].rows = {} /\ operations'[r].times = {}
      /\ operations'[r].had = Accounts(StoredRows)
      /\ raced => operations'[r].raced
  <2>1. /\ new.kind = kind /\ new.stage = FirstStage[kind]
        /\ new.upload = upload /\ new.rows = {} /\ new.times = {}
        /\ new.had = Accounts(StoredRows)
    OBVIOUS
  <2>2. new.raced = raced
    OBVIOUS
  <2>. HIDE DEF new
  <2>. QED
    BY <1>4, <2>1, <2>2
<1>6. /\ kind = "Restore" => FirstStage[kind] = "fetchTime"
      /\ kind = "Erase" => FirstStage[kind] = "clearCopy"
      /\ kind = "Backup" => FirstStage[kind] = "stat"
      /\ kind \notin {"Restore", "Erase", "Backup"} => FirstStage[kind] \in {"saving", "read"}
  <2>1. kind \in {"Save", "Read", "Backup", "Restore", "Erase"}
    BY DEF Kinds
  <2>. QED
    BY <2>1 DEF FirstStage
<1>7. KindInv'
  <2>1. SingleValued(upload.config)
    BY BackupAssumption DEF SingleInv
  <2>2. KindFits(operations'[r])
    BY <1>5, <1>6, <2>1 DEF KindFits, SingleValued
  <2>. QED
    BY <1>1, <1>3, <2>2 DEF KindInv, At
<1>8. SingleInv'
  <2>1. change'[r] = None \/ change'[r].rows = {[section |-> "auth", key |-> r]}
    BY <1>0, <1>2 DEF Ask, BackupInv, OperationInv
  <2>2. SingleValued({[section |-> "auth", key |-> r]})
    BY DEF SingleValued
  <2>. QED
    BY <1>1, <1>3, <2>1, <2>2 DEF SingleInv
<1>9. ASSUME NEW s \in Requests, s # r, Undisturbed(s)' PROVE Alone(s)' /\ Phase(s)'
  <2>1. Alone(s) /\ Phase(s)
    BY <1>1, <1>3, <1>9 DEF QuietInv, Undisturbed, InFlight
  <2>2. Alone(s)'
    <3>1. Rewriting(r)' => Early(r)'
      BY <1>5, <1>6 DEF Rewriting, Early
    <3>2. \A q \in Requests \ {r} : (Rewriting(q)' <=> Rewriting(q)) /\ (Early(q)' <=> Early(q))
      BY <1>1, <1>3 DEF Rewriting, Early, InFlight
    <3>. QED
      BY <1>1, <1>9, <2>1, <3>1, <3>2 DEF Alone, Torn
  <2>. QED
    BY <1>1, <1>3, <1>9, <2>1, <2>2 DEF Phase, SavingRestore, Torn, Joined, Stamped
<1>10. ASSUME Undisturbed(r)' PROVE Alone(r)' /\ Phase(r)'
  <2>1. ~ Torn /\ ~ \E s \in Rewrites : InFlight(s)
    BY <1>5, <1>10 DEF Undisturbed
  <2>2. ASSUME NEW s \in Requests \ {r}, Rewriting(s)' PROVE FALSE
    BY <1>1, <1>3, <2>1, <2>2 DEF Rewriting, InFlight, Rewrites, At, KindInv
  <2>3. StoredRows = config
    BY <2>1 DEF StoredRows
  <2>. QED
    BY <1>1, <1>5, <1>6, <2>1, <2>2, <2>3 DEF Alone, Phase, Torn
<1>. QED
  BY <1>7, <1>8, <1>9, <1>10 DEF QuietInv

LEMMA StopRewrites ==
    ASSUME BackupInv, RewriteInv, EveryRequestEnds
    PROVE  RewriteInv'
<1>. USE DEF RewriteInv
<1>1. /\ writer' = Unlocked /\ change' = [r \in Requests |-> None]
      /\ UNCHANGED <<config, downloads>> /\ resetting' = None
      /\ operations' = [r \in Requests |-> IF InFlight(r) /\ operations[r].stage # "done"
                                         THEN [operations[r] EXCEPT !.stage = "failed"]
                                         ELSE operations[r]]
  BY DEF EveryRequestEnds, StopStore
<1>2. ASSUME NEW r \in Requests
      PROVE  /\ operations'[r].stage # "new" => KindFits(operations'[r])
             /\ operations'[r].stage \in {"new", "done", "failed"}
  <2>1. CASE operations'[r] = operations[r] /\ operations[r].stage \in {"new", "done", "failed"}
    BY <2>1 DEF KindInv, At
  <2>2. CASE operations'[r] = [operations[r] EXCEPT !.stage = "failed"] /\ InFlight(r)
    <3>1. IsOperation(operations[r]) /\ KindFits(operations[r])
      BY <2>2 DEF BackupInv, OperationInv, InFlight, New, KindInv, At
    <3>2. SameData(operations'[r], operations[r]) /\ operations'[r].stage = "failed"
      BY <2>2, <3>1 DEF IsOperation, SameData
    <3>. QED
      BY <3>1, <3>2 DEF KindFits, SameData
  <2>. QED
    BY <1>1, <2>1, <2>2 DEF InFlight
<1>3. KindInv' /\ QuietInv'
  BY <1>1, <1>2, BackupAssumption DEF KindInv, QuietInv, Undisturbed, InFlight, At
<1>. QED
  BY <1>1, <1>3 DEF SingleInv

-----------------------------------------------------------------------------
LEMMA InitRewriteInv == BackupInit => RewriteInv
BY BackupAssumption DEF BackupInit, StoreInit, RewriteInv, KindInv, SingleInv, QuietInv,
                        Undisturbed, InFlight, At, New, Unlocked

LEMMA RewriteStep == BackupInv /\ RewriteInv /\ [BackupNext]_backupVars => RewriteInv'
<1>. SUFFICES ASSUME BackupInv, RewriteInv, [BackupNext]_backupVars PROVE RewriteInv'
  OBVIOUS
<1>1. CASE \E r \in Requests : Begin(r) \/ Lock(r) \/ Saved(r) \/ SaveFails(r)
  BY <1>1, BeginRewrites, LockRewrites, SavedRewrites
<1>2. CASE \E r \in Requests :
        Read(r) \/ Create(r) \/ Stat(r) \/ Snapshot(r) \/ FetchBackupTime(r)
  BY <1>2, ReadRewrites, SnapshotRewrites, FetchRewrites
<1>3. CASE \E r \in Requests : ClearCopy(r) \/ Copy(r) \/ Merge(r)
  BY <1>3, ClearCopyRewrites, CopyRewrites, MergeRewrites
<1>4. CASE \E r \in Requests :
        CreateConfig(r) \/ CreateInterfaces(r) \/ WriteData(r) \/ WriteInterfaces(r) \/ SetLinks(r)
  BY <1>4, CreateRewrites, WriteDataRewrites, WriteInterfacesRewrites, SetLinksRewrites
<1>5. CASE \E r \in Requests : RemoveConfig(r) \/ RemoveTasks(r) \/ OpenConfig(r)
  BY <1>5, EraseRewrites
<1>6. CASE Truncate \/ ResetAndReboot \/ PowerCut \/ Crash
  BY <1>6, TruncateRewrites, StopRewrites DEF ResetAndReboot, PowerCut, Crash, Reboot
<1>7. CASE UNCHANGED backupVars
  <2>1. /\ UNCHANGED <<config, writer, change, removed, interfaceFile, links>>
        /\ UNCHANGED <<operations, resetting, downloads>>
    BY <1>7 DEF backupVars
  <2>2. KindInv' /\ SingleInv'
    BY <2>1 DEF RewriteInv, KindInv, SingleInv, At
  <2>3. QuietInv'
    BY <2>1 DEF RewriteInv, QuietInv, Undisturbed, InFlight, Alone, Rewriting, Early, Phase,
                SavingRestore, Torn, Joined, Stamped
  <2>. QED
    BY <2>2, <2>3 DEF RewriteInv
<1>. QED
  BY <1>1, <1>2, <1>3, <1>4, <1>5, <1>6, <1>7 DEF BackupNext

LEMMA RewriteInvariant == BackupSpec => [](BackupInv /\ RewriteInv)
BY InitBackupInv, BackupStep, InitRewriteInv, RewriteStep, PTL DEF BackupSpec

\* Only a save that is written brings a restore to its end.
LEMMA RestoreEnds ==
    ASSUME BackupInv, RewriteInv, [BackupNext]_backupVars, NEW r \in Requests,
           At(r, "saving"), operations[r].kind = "Restore", operations'[r].stage = "done"
    PROVE  Saved(r)
<1>1. /\ operations[r].stage = "saving" /\ IsOperation(operations[r])
      /\ KindFits(operations[r]) /\ Active(r)
  BY DEF At, BackupInv, OperationInv, New, RewriteInv, KindInv, Active
<1>2. ASSUME NEW s \in Requests, s # r, Aside(s) PROVE FALSE
  BY <1>1, <1>2, OthersAreSame DEF BackupInv
<1>3. ASSUME NEW s \in Requests, NEW stage, Step(s, stage) \/ Disturbed(s, stage) \/ Write(s, stage)
      PROVE  s = r /\ stage = "done"
  <2>1. Aside(s)
    BY <1>3 DEF Step, Disturbed, Write, Aside, BackupInv, OperationInv
  <2>2. s = r
    BY <1>2, <2>1
  <2>3. operations'[r] = [operations[r] EXCEPT !.stage = stage]
          \/ operations'[r] = [operations[r] EXCEPT !.stage = stage, !.raced = TRUE]
    BY <1>3, <2>2 DEF Step, Disturbed, Write, BackupInv, OperationInv
  <2>4. operations'[r].stage = stage
    BY <1>1, <2>3 DEF IsOperation
  <2>. QED
    BY <2>2, <2>4
<1>4. ASSUME NEW s \in Requests, Begin(s) \/ FetchBackupTime(s) \/ Copy(s) \/ Merge(s) PROVE FALSE
  <2>1. s # r
    BY <1>1, <1>4 DEF Begin, FetchBackupTime, Copy, Merge, At
  <2>2. CASE Begin(s) \/ FetchBackupTime(s)
    BY <1>1, <2>1, <2>2 DEF Begin, FetchBackupTime, BackupInv, OperationInv
  <2>3. CASE Copy(s) \/ Merge(s)
    BY <1>1, <2>1, <2>3 DEF Copy, Merge, Disturbed, BackupInv, OperationInv
  <2>. QED
    BY <1>4, <2>2, <2>3
<1>5. ASSUME NEW s \in Requests,
             \/ Read(s) \/ Create(s) \/ Stat(s) \/ Snapshot(s) \/ ClearCopy(s)
             \/ CreateConfig(s) \/ CreateInterfaces(s) \/ WriteData(s) \/ WriteInterfaces(s)
             \/ SetLinks(s) \/ RemoveConfig(s) \/ RemoveTasks(s) \/ OpenConfig(s)
      PROVE  FALSE
  <2>1. operations[s].stage # "saving"
    BY <1>5 DEF Read, Create, Stat, Snapshot, ClearCopy, CreateConfig, CreateInterfaces,
                WriteData, WriteInterfaces, SetLinks, RemoveConfig, RemoveTasks, OpenConfig, At
  <2>2. \E stage : Step(s, stage) \/ Disturbed(s, stage) \/ Write(s, stage)
    <3>1. CASE Read(s) \/ Create(s) \/ Stat(s) \/ Snapshot(s)
      BY <3>1 DEF Read, Create, Stat, Snapshot
    <3>2. CASE ClearCopy(s) \/ CreateConfig(s) \/ CreateInterfaces(s)
      BY <3>2 DEF ClearCopy, CreateConfig, CreateInterfaces
    <3>3. CASE WriteData(s) \/ WriteInterfaces(s) \/ SetLinks(s)
      BY <3>3 DEF WriteData, WriteInterfaces, SetLinks
    <3>4. CASE RemoveConfig(s) \/ RemoveTasks(s) \/ OpenConfig(s)
      BY <3>4 DEF RemoveConfig, RemoveTasks, OpenConfig
    <3>. QED
      BY <1>5, <3>1, <3>2, <3>3, <3>4
  <2>. QED
    BY <1>1, <1>3, <2>1, <2>2
<1>6. ASSUME NEW s \in Requests, Saved(s) PROVE Saved(r)
  BY <1>3, <1>6 DEF Saved
<1>7. ASSUME NEW s \in Requests, SaveFails(s) PROVE FALSE
  <2>1. Step(s, "failed")
    BY <1>7 DEF SaveFails
  <2>2. "failed" = "done"
    BY <1>3, <2>1
  <2>. QED
    BY <2>2
<1>8. ~ Truncate
  <2>1. SUFFICES ASSUME Truncate PROVE FALSE
    OBVIOUS
  <2>2. writer.request \in Requests /\ Write(writer.request, "saving")
    BY <2>1 DEF Truncate, TruncateConfig, BackupInv, OperationInv, IsWriter, Unlocked
  <2>3. "saving" = "done"
    BY <1>3, <2>2
  <2>. QED
    BY <2>3
<1>9. ~ EveryRequestEnds
  <2>1. SUFFICES ASSUME EveryRequestEnds PROVE FALSE
    OBVIOUS
  <2>2. operations'[r] = [operations[r] EXCEPT !.stage = "failed"]
    BY <1>1, <2>1 DEF EveryRequestEnds, InFlight
  <2>. QED
    BY <1>1, <2>2 DEF IsOperation
<1>10. ASSUME (\E s \in Requests : Lock(s)) \/ UNCHANGED backupVars PROVE FALSE
  BY <1>1, <1>10 DEF Lock, backupVars
<1>. QED
  BY <1>4, <1>5, <1>6, <1>7, <1>8, <1>9, <1>10
  DEF BackupNext, ResetAndReboot, PowerCut, Crash, Reboot

(* A restore that answers that the data is restored, while no other         *)
(* operation wrote a file, has lost no account, added those of the file     *)
(* whose key was free, and left its devices, addresses and links: for any   *)
(* rows, files and number of operations at once.                            *)
THEOREM RestoresMerge == BackupSpec => RestoreIsMerge
<1>1. BackupInv /\ RewriteInv /\ [BackupNext]_backupVars =>
        [\A r \in Requests :
            (/\ At(r, "saving") /\ operations[r].kind = "Restore" /\ operations'[r].stage = "done"
             /\ ~ operations[r].raced)
            => LET op == operations[r] IN
               /\ Accounts(config') = op.had \cup Without(Accounts(op.upload.config), op.had)
               /\ Section(config', {"device"}) = Section(op.upload.config, {"device"})
               /\ Section(config', {"restoreTime"}) = {Time("restoreTime", r)}
               /\ op.upload.interfaces # Empty =>
                     interfaceFile' = op.upload.interfaces /\ links' = op.upload.interfaces]_backupVars
  <2>1. SUFFICES ASSUME BackupInv, RewriteInv, [BackupNext]_backupVars, NEW r \in Requests,
                        At(r, "saving"), operations[r].kind = "Restore",
                        operations'[r].stage = "done", ~ operations[r].raced
                 PROVE  LET op == operations[r] IN
                        /\ Stamped(config', op, r)
                        /\ op.upload.interfaces # Empty =>
                              /\ interfaceFile' = op.upload.interfaces
                              /\ links' = op.upload.interfaces
    BY DEF Stamped, Joined
  <2>2. Saved(r)
    BY <2>1, RestoreEnds
  <2>3. Undisturbed(r)
    BY <2>1 DEF Undisturbed, InFlight, At
  <2>4. SavingRestore(r, operations[r]) /\ ~ removed
    BY <2>1, <2>3 DEF RewriteInv, QuietInv, Phase, At
  <2>5. Torn /\ config' \in Overwritten(config, writer.rows)
    BY <2>2, <2>4 DEF Saved, WriteConfig
  <2>6. config' = writer.rows
    BY <2>4, <2>5, WrittenOver DEF SavingRestore
  <2>. QED
    BY <2>2, <2>4, <2>5, <2>6 DEF SavingRestore, Saved
<1>. QED
  BY <1>1, RewriteInvariant, PTL DEF BackupSpec, RestoreIsMerge

(* The appliance restarts after an erase that no other operation met with   *)
(* the rows of the factory and no others: nothing of what was there before  *)
(* comes back, however many requests came and went meanwhile.               *)
THEOREM ErasesForget == BackupSpec => EraseForgets
<1>1. BackupInv /\ RewriteInv /\ [BackupNext]_backupVars =>
        [\A r \in Requests :
            resetting = r /\ resetting' = None /\ ~ operations[r].raced => config' = Factory]_backupVars
  <2>1. SUFFICES ASSUME BackupInv, RewriteInv, [BackupNext]_backupVars, NEW r \in Requests,
                        resetting = r, resetting' = None, ~ operations[r].raced
                 PROVE  config' = Factory
    OBVIOUS
  <2>2. config = Factory
    BY <2>1 DEF RewriteInv, QuietInv, Undisturbed, InFlight, Phase
  <2>3. r # None
    BY BackupAssumption
  <2>4. ASSUME NEW s \in Requests, WriteData(s) PROVE FALSE
    BY <2>1, <2>3, <2>4, BackupAssumption DEF WriteData
  <2>5. CASE \E s \in Requests :
               \/ Begin(s) \/ Lock(s) \/ Saved(s) \/ SaveFails(s) \/ Read(s) \/ Create(s) \/ Stat(s)
               \/ Snapshot(s) \/ FetchBackupTime(s) \/ ClearCopy(s) \/ Copy(s) \/ Merge(s)
    BY <2>1, <2>3, <2>5 DEF Begin, Lock, Saved, SaveFails, Read, Create, Stat, Snapshot,
                            FetchBackupTime, ClearCopy, Copy, Merge
  <2>6. CASE \E s \in Requests :
               \/ CreateConfig(s) \/ CreateInterfaces(s) \/ WriteInterfaces(s) \/ SetLinks(s)
               \/ RemoveConfig(s) \/ RemoveTasks(s) \/ OpenConfig(s)
    BY <2>1, <2>3, <2>6 DEF CreateConfig, CreateInterfaces, WriteInterfaces, SetLinks,
                            RemoveConfig, RemoveTasks, OpenConfig
  <2>7. CASE Truncate \/ UNCHANGED backupVars
    BY <2>1, <2>3, <2>7 DEF Truncate, backupVars
  <2>8. CASE ResetAndReboot \/ PowerCut \/ Crash
    BY <2>2, <2>8 DEF ResetAndReboot, PowerCut, Crash, Reboot, EveryRequestEnds, StopStore
  <2>. QED
    BY <2>1, <2>4, <2>5, <2>6, <2>7, <2>8 DEF BackupNext
<1>. QED
  BY <1>1, RewriteInvariant, PTL DEF BackupSpec, EraseForgets
=============================================================================
