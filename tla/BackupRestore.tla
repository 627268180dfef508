--------------------------- MODULE BackupRestore ---------------------------
(***************************************************************************)
(* Backup, restore and the reset to factory defaults, with the saves and   *)
(* the reads of other requests between their steps, and the end of the     *)
(* process or of the appliance at any moment.  Restore and erase write     *)
(* config.yaml without WriteMu, through a file they have opened before.    *)
(***************************************************************************)
EXTENDS ConfigStore, Naturals

CONSTANTS
    Uploads,       \* the files a client may upload: config and interface data
    Factory,       \* the rows of the factory default configuration
    Initial,       \* the rows of config.yaml at first
    MaxRewrites,   \* bound: restores and erases of a behaviour
    Failures       \* {FALSE}, or BOOLEAN when a step on files or links may fail

VARIABLES
    removed,       \* config.yaml does not exist
    interfaceFile, \* the addresses in interface_config.yaml
    links,         \* the addresses of the links
    oldConfig,     \* the copy in old_config.yaml
    operations,    \* the operations, each made once
    resetting,     \* the erase whose goroutine is to reset the links and reboot, or None
    downloads,     \* the backups that clients hold
    risk           \* history: accounts taken out of config.yaml, and if a copy was made

backupVars == <<config, license, writer, change, removed, interfaceFile, links, oldConfig,
                operations, resetting, downloads, risk>>

Empty == "empty"          \* an interface file without content
Default == "default"      \* the addresses of the factory
Partial == "partial"      \* some links flushed or set, others not

\* Rows that are in a list of their own and rows that are a single value.
Section(rows, sections) == {x \in rows : x.section \in sections}
Accounts(rows) == Section(rows, {"auth"})
Time(section, r) == [section |-> section, key |-> "time", value |-> r]
SingleValued(rows) == \A x \in rows : x.section = "restoreTime" => x.key = "time"

ASSUME BackupAssumption ==
    /\ IsFiniteSet(Requests) /\ None \notin Requests /\ MaxRewrites \in Nat
    /\ FALSE \in Failures /\ Failures \subseteq BOOLEAN
    /\ Corrupt \notin Initial \cup Factory
    /\ SingleValued(Initial) /\ SingleValued(Factory)
    /\ \A upload \in Uploads : SingleValued(upload.config)

Kinds == {"Save", "Read", "Backup", "Restore", "Erase"}
Stages == {"read", "create", "stat", "saving", "snapshot", "fetchTime", "clearCopy",
           "copy", "merge", "truncate", "truncateInterfaces", "write", "writeInterfaces",
           "setLinks", "remove", "removeTasks", "open"}

New == [stage |-> "new"]   \* an operation not begun yet
At(r, stage) == operations[r].stage = stage
InFlight(r) == operations[r].stage \notin {"new", "done", "failed"} \/ resetting = r

BackupInit ==
    /\ StoreInit
    /\ config = Initial /\ license = "key" /\ removed = FALSE
    /\ interfaceFile = "set" /\ links = "set" /\ oldConfig = {}
    /\ operations = [r \in Requests |-> New]
    /\ resetting = None /\ downloads = {}
    /\ risk = [rows |-> {}, copied |-> FALSE]

-----------------------------------------------------------------------------
(* r goes on to a stage.  raced is history: another operation wrote a file  *)
(* while r was in flight, or r did not get the lock or a file it could read. *)

Step(r, stage) == operations' = [operations EXCEPT ![r].stage = stage]
Disturbed(r, stage) == operations' = [operations EXCEPT ![r].stage = stage, ![r].raced = TRUE]
Write(r, stage) ==
    operations' = [s \in Requests |->
        IF s = r THEN [operations[s] EXCEPT !.stage = stage]
        ELSE IF InFlight(s) THEN [operations[s] EXCEPT !.raced = TRUE] ELSE operations[s]]

Ask(r, rows) ==
    change' = [change EXCEPT ![r] = [rows |-> rows, gone |-> {}, license |-> None]]

Unreadable == removed \/ Corrupt \in config

FirstStage == [Save |-> "saving", Read |-> "read", Backup |-> "stat",
               Restore |-> "fetchTime", Erase |-> "clearCopy"]

Rewrites == {s \in Requests : /\ ~ At(s, "new")
                              /\ operations[s].kind \in {"Restore", "Erase"}}

Begin(r) ==
    /\ At(r, "new")
    /\ \E kind \in Kinds, upload \in Uploads \cup downloads :
          /\ kind \in {"Restore", "Erase"} => Cardinality(Rewrites) < MaxRewrites
          /\ kind # "Restore" => upload = CHOOSE u \in Uploads : TRUE
          /\ operations' = [operations EXCEPT ![r] =
                [kind |-> kind, stage |-> FirstStage[kind], upload |-> upload,
                 rows |-> {}, times |-> {}, had |-> Accounts(StoredRows), copied |-> FALSE,
                 raced |-> \/ Torn \/ Corrupt \in config
                           \/ \E s \in Rewrites : InFlight(s)]]
          /\ IF kind = "Save" THEN Ask(r, {[section |-> "auth", key |-> r]})
                              ELSE UNCHANGED change
    /\ UNCHANGED <<config, license, writer, removed, interfaceFile, links, oldConfig,
                   resetting, downloads, risk>>

-----------------------------------------------------------------------------
(* SaveProfile *)

Lock(r) ==
    /\ LockAndRead(r) /\ Corrupt \notin config
    /\ removed' = FALSE
    /\ UNCHANGED <<interfaceFile, links, oldConfig, operations, resetting, downloads, risk>>

Truncate ==
    /\ TruncateConfig
    /\ removed' = FALSE
    /\ Write(writer.request, "saving")
    /\ UNCHANGED <<interfaceFile, links, oldConfig, resetting, downloads, risk>>

\* What is written into a removed file is gone with it.
Saved(r) ==
    /\ \/ ~ removed /\ WriteConfig(r)
       \/ removed /\ StopWriter(r)
    /\ Step(r, IF operations[r].kind = "Backup" THEN "snapshot" ELSE "done")
    /\ UNCHANGED <<removed, interfaceFile, links, oldConfig, resetting, downloads, risk>>

SaveFails(r) ==
    /\ \/ LockTimeout(r)
       \/ /\ change[r] # None /\ writer = Unlocked /\ Corrupt \in config
          /\ change' = [change EXCEPT ![r] = None]
          /\ UNCHANGED <<config, license, writer>>
    /\ Step(r, "failed")
    /\ UNCHANGED <<removed, interfaceFile, links, oldConfig, resetting, downloads, risk>>

-----------------------------------------------------------------------------
(* A fetch of any other request: readConfigFile makes a missing file *)

Read(r) ==
    /\ At(r, "read")
    /\ Step(r, IF removed THEN "create" ELSE "done")
    /\ UNCHANGED <<config, license, writer, change, removed, interfaceFile, links, oldConfig,
                   resetting, downloads, risk>>

\* The look-up and the creation are two steps: the file may be back meanwhile.
Create(r) ==
    /\ At(r, "create")
    /\ config' = {} /\ removed' = FALSE
    /\ Write(r, "done")
    /\ UNCHANGED <<license, writer, change, interfaceFile, links, oldConfig, resetting,
                   downloads, risk>>

-----------------------------------------------------------------------------
(* Backup *)

Stat(r) ==
    /\ At(r, "stat")
    /\ IF removed THEN Step(r, "failed") /\ UNCHANGED change
                  ELSE Step(r, "saving") /\ Ask(r, {Time("backupTime", r)})
    /\ UNCHANGED <<config, license, writer, removed, interfaceFile, links, oldConfig,
                   resetting, downloads, risk>>

\* Without the lock, or a file to read, the client gets an empty document.
Snapshot(r) ==
    /\ At(r, "snapshot")
    /\ IF writer = Unlocked /\ ~ Unreadable
       THEN downloads' = downloads \cup {[config |-> config, interfaces |-> interfaceFile]}
       ELSE UNCHANGED downloads
    /\ Step(r, "done")
    /\ UNCHANGED <<config, license, writer, change, removed, interfaceFile, links, oldConfig,
                   resetting, risk>>

-----------------------------------------------------------------------------
(* Restore *)

FetchBackupTime(r) ==
    /\ At(r, "fetchTime")
    /\ operations' = [operations EXCEPT ![r].times = Section(config, {"backupTime"}),
                        ![r].stage = IF Corrupt \in config THEN "failed" ELSE "clearCopy"]
    /\ removed' = FALSE
    /\ UNCHANGED <<config, license, writer, change, interfaceFile, links, oldConfig,
                   resetting, downloads, risk>>

ClearCopy(r) ==
    /\ At(r, "clearCopy")
    /\ oldConfig' = {}
    /\ risk' = [risk EXCEPT !.copied = FALSE]
    /\ Write(r, "copy")
    /\ UNCHANGED <<config, license, writer, change, removed, interfaceFile, links,
                   resetting, downloads>>

\* CopyOldConfigData does not notice that there was nothing to copy.
Copy(r) ==
    /\ At(r, "copy")
    /\ LET next == IF operations[r].kind = "Restore" THEN "merge" ELSE "remove" IN
       IF writer = Unlocked /\ ~ Unreadable
       THEN /\ oldConfig' = config
            /\ operations' = [operations EXCEPT ![r].stage = next, ![r].copied = TRUE]
       ELSE /\ UNCHANGED oldConfig
            /\ Disturbed(r, next)
    /\ UNCHANGED <<config, license, writer, change, removed, interfaceFile, links,
                   resetting, downloads, risk>>

\* Mutant of Merged: accounts are replaced like the rest.
MergedAnew(rows, upload) ==
    Section(rows, {"feature"})
        \cup Section(upload, {"auth", "feature", "device", "backupTime", "restoreTime"})

\* Accounts and features are added to those there are, the rest is replaced.
Merged(rows, upload) ==
    LET kept == Section(rows, {"auth", "feature"})
    IN  kept \cup Without(Section(upload, {"auth", "feature"}), kept)
             \cup Section(upload, {"device", "backupTime", "restoreTime"})

\* Without the lock, or a file to read, the merged configuration is empty.
Merge(r) ==
    /\ At(r, "merge")
    /\ IF writer = Unlocked /\ ~ Unreadable
       THEN operations' = [operations EXCEPT ![r].stage = "truncate",
                             ![r].rows = Merged(config, operations[r].upload.config)]
       ELSE Disturbed(r, "truncate")
    /\ UNCHANGED <<config, license, writer, change, removed, interfaceFile, links, oldConfig,
                   resetting, downloads, risk>>

\* The accounts of config.yaml leave it; they may come back with the next write.
AtRisk(r) ==
    risk' = [rows |-> Accounts(StoredRows),
             copied |-> operations[r].copied /\ ~ operations[r].raced]

CreateConfig(r) ==
    /\ At(r, "truncate")
    /\ config' = {} /\ removed' = FALSE
    /\ AtRisk(r)
    /\ Write(r, "truncateInterfaces")
    /\ UNCHANGED <<license, writer, change, interfaceFile, links, oldConfig, resetting, downloads>>

CreateInterfaces(r) ==
    /\ At(r, "truncateInterfaces")
    /\ \E fails \in Failures :
          IF fails THEN Step(r, "failed") /\ UNCHANGED interfaceFile
                   ELSE interfaceFile' = Empty /\ Write(r, "write")
    /\ UNCHANGED <<config, license, writer, change, removed, links, oldConfig, resetting,
                   downloads, risk>>

Data(r) == IF operations[r].kind = "Erase" THEN Factory ELSE operations[r].rows

\* The file opened before is written, even one that was removed since.
WriteData(r) ==
    /\ At(r, "write")
    /\ \E fails \in Failures :
          IF fails THEN Step(r, "failed") /\ UNCHANGED <<config, resetting>>
          ELSE /\ IF removed THEN UNCHANGED config
                             ELSE config' \in Overwritten(config, Data(r))
               /\ IF operations[r].kind = "Erase"
                  THEN Write(r, "done") /\ resetting' = r
                  ELSE Write(r, "writeInterfaces") /\ UNCHANGED resetting
    /\ UNCHANGED <<license, writer, change, removed, interfaceFile, links, oldConfig,
                   downloads, risk>>

WriteInterfaces(r) ==
    /\ At(r, "writeInterfaces")
    /\ interfaceFile' = operations[r].upload.interfaces
    /\ Write(r, "setLinks")
    /\ UNCHANGED <<config, license, writer, change, removed, links, oldConfig, resetting,
                   downloads, risk>>

\* RestoreInterfaceSettings and, when it succeeds, the times.
SetLinks(r) ==
    /\ At(r, "setLinks")
    /\ \E fails \in Failures :
          IF fails THEN links' = Partial /\ Step(r, "failed") /\ UNCHANGED change
          ELSE /\ links' = IF interfaceFile = Empty THEN links ELSE interfaceFile
               /\ Step(r, "saving")
               /\ Ask(r, {Time("restoreTime", r)} \cup operations[r].times)
    /\ UNCHANGED <<config, license, writer, removed, interfaceFile, oldConfig, resetting,
                   downloads, risk>>

-----------------------------------------------------------------------------
(* EraseConfig: the rollback it defers never runs, for its flag starts TRUE *)

\* Mutant of RemoveConfig: the copy is removed with the file.
RemoveCopyToo(r) ==
    /\ At(r, "remove")
    /\ IF removed THEN Step(r, "failed") /\ UNCHANGED <<config, removed, risk, oldConfig>>
       ELSE /\ config' = {} /\ removed' = TRUE /\ oldConfig' = {}
            /\ AtRisk(r) /\ Write(r, "removeTasks")
    /\ UNCHANGED <<license, writer, change, interfaceFile, links, resetting, downloads>>

\* Mutant of RemoveConfig: the new content goes over the old one.
RemoveNothing(r) ==
    /\ At(r, "remove")
    /\ Write(r, "removeTasks")
    /\ UNCHANGED <<config, license, writer, change, removed, interfaceFile, links, oldConfig,
                   resetting, downloads, risk>>

RemoveConfig(r) ==
    /\ At(r, "remove")
    /\ IF removed THEN Step(r, "failed") /\ UNCHANGED <<config, removed, risk>>
       ELSE config' = {} /\ removed' = TRUE /\ AtRisk(r) /\ Write(r, "removeTasks")
    /\ UNCHANGED <<license, writer, change, interfaceFile, links, oldConfig, resetting, downloads>>

\* The task file, the log file and the new config.yaml.
RemoveTasks(r) ==
    /\ At(r, "removeTasks")
    /\ \E fails \in Failures : Step(r, IF fails THEN "failed" ELSE "open")
    /\ UNCHANGED <<config, license, writer, change, removed, interfaceFile, links, oldConfig,
                   resetting, downloads, risk>>

OpenConfig(r) ==
    /\ At(r, "open")
    /\ removed' = FALSE
    /\ Write(r, "write")
    /\ UNCHANGED <<config, license, writer, change, interfaceFile, links, oldConfig, resetting,
                   downloads, risk>>

-----------------------------------------------------------------------------
(* The end of the process, or of the appliance *)

EveryRequestEnds ==
    /\ StopStore
    /\ operations' = [r \in Requests |-> IF InFlight(r) /\ operations[r].stage # "done"
                                         THEN [operations[r] EXCEPT !.stage = "failed"]
                                         ELSE operations[r]]
    /\ resetting' = None
    /\ UNCHANGED <<removed, oldConfig, downloads, risk>>

\* A start of the appliance sets the links from the file; a start of the
\* process then sets the file from the links.
Reboot(file) ==
    /\ EveryRequestEnds
    /\ links' = file /\ interfaceFile' = links'

\* The sections are emptied first, then the links get the addresses of the factory.
ResetToFactoryDefaultSettingsForInterfaces(fails) == IF fails THEN Empty ELSE Default

\* The goroutine of EraseConfig; its failures are only logged.
ResetAndReboot ==
    /\ resetting # None
    /\ \E fails \in Failures : Reboot(ResetToFactoryDefaultSettingsForInterfaces(fails))

PowerCut ==
    /\ \E r \in Requests : InFlight(r)
    /\ Reboot(interfaceFile)

Crash ==
    /\ \E r \in Requests : InFlight(r)
    /\ EveryRequestEnds
    /\ interfaceFile' = links
    /\ UNCHANGED links

BackupNext ==
    \/ \E r \in Requests :
          \/ Begin(r) \/ Lock(r) \/ Saved(r) \/ SaveFails(r) \/ Read(r) \/ Create(r) \/ Stat(r)
          \/ Snapshot(r) \/ FetchBackupTime(r) \/ ClearCopy(r) \/ Copy(r) \/ Merge(r)
          \/ CreateConfig(r) \/ CreateInterfaces(r) \/ WriteData(r) \/ WriteInterfaces(r)
          \/ SetLinks(r) \/ RemoveConfig(r) \/ RemoveTasks(r) \/ OpenConfig(r)
    \/ Truncate \/ ResetAndReboot \/ PowerCut \/ Crash

BackupSpec == BackupInit /\ [][BackupNext]_backupVars

-----------------------------------------------------------------------------
(* Properties *)

(* Restore reads, merges, truncates and writes two files and the links in   *)
(* a dozen steps: when it answers that the data is restored and no other    *)
(* operation wrote in between, every account from before is still there as  *)
(* it was, those of the file that have other keys have joined them, and the *)
(* devices, the interface file and the links are those of the file.         *)
RestoreIsMerge == [][\A r \in Requests :
    (/\ At(r, "saving") /\ operations[r].kind = "Restore" /\ operations'[r].stage = "done"
     /\ ~ operations[r].raced)
    => LET op == operations[r] IN
       /\ Accounts(config') = op.had \cup Without(Accounts(op.upload.config), op.had)
       /\ Section(config', {"device"}) = Section(op.upload.config, {"device"})
       /\ Section(config', {"restoreTime"}) = {Time("restoreTime", r)}
       /\ op.upload.interfaces # Empty =>
             interfaceFile' = op.upload.interfaces /\ links' = op.upload.interfaces]_backupVars

(* A restore or an erase that fails or is cut off after it has emptied      *)
(* config.yaml rolls nothing back: until the next one begins the accounts   *)
(* are at least in old_config.yaml, if it could be written from a file no   *)
(* other request was writing.                                               *)
LossLeavesCopy == risk.copied => risk.rows \subseteq oldConfig

(* The reboot that ends an erase finds the factory rows alone, unless       *)
(* another operation wrote one of the files after the erase began.          *)
EraseForgets == [][\A r \in Requests :
    resetting = r /\ resetting' = None /\ ~ operations[r].raced => config' = Factory]_backupVars
=============================================================================
