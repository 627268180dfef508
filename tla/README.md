# A verification project for the APT-Defender backend

APT-Defender is the management and analysis backend of a network appliance
(Go, gin, MySQL, YAML files, a Cuckoo sandbox). Files are submitted over HTTP or
by the firewall, analysed through scanners and the sandbox, and answered with
ALLOW or BLOCK. Next to that the appliance manages its accounts, its network
interfaces and routes, a peer for high availability, backups and updates.

This directory holds TLA+ modules that model the program's analysis pipeline, its
configuration files and the requests that change them, its network interfaces and its
high-availability pair, TLC configurations that check them, and proofs for TLAPS. The
first part of this file says what is modelled, checked and proved; the inventory of all
components, with those that are not modelled, follows at the end.

## Modules

| module | models | kind |
|---|---|---|
| `AnalysisDb` | the MySQL tables of the analysis, the sample directory, one operator per SQL statement; `OnePlace` | shared state |
| `TaskPipeline` | `service/queue`: the four handlers, their goroutines, the three channels, the sandbox, the restart | component, composed with `AnalysisDb` |
| `TaskLifecycle` | what the analysis promises about a file | abstract specification |
| `TaskPipelineRefinement` | the refinement mapping from `TaskPipeline` to `TaskLifecycle` | refinement |
| `Submission` | concurrent `CreateFileOnDemand`, `overrideFileVerdict` and `FileFromFireWall` on the tables the analysis settles | component, composed with `AnalysisDb` |
| `ConfigRows` | rows of `config.yaml` and what one save does to them | operators |
| `ConfigStore` | `UpdateConfig`, `DeleteConfig` and the licence file: the lock, truncation and write | shared state |
| `ConfigMap` | what the file promises its callers: saves that are atomic | abstract specification |
| `Accounts` | login, lockout, passwords, signup, child admins, roles, details, devices | component, composed with `ConfigStore` |
| `BackupRestore` | backup, restore and erase among saves and reads | component, composed with `ConfigStore` |
| `InterfaceStore` | `interface_config.yaml`: its sections, its lock, what a save does | shared state |
| `Interfaces` | bonds, bridges, VLANs and ports: kernel and file | component, extends `InterfaceStore` |
| `Routing` | static routes and the generation of `zebra.conf` | component, extends `InterfaceStore` |
| `Network` | both, with restarts of the program and reboots of the device | composition |
| `HighAvailability` | two appliances: create, disable, synchronise | component |
| `MCTaskPipeline`, `MCSubmission`, `MCAccounts`, `MCBackupRestore`, `MCNetwork`, `MCHighAvailability` | small instances, symmetry sets | model checking |
| `AnalysisDbProofs` | lemmas on the transactions that settle an analysis, shared by the next three | proofs |
| `TaskPipelineProofs` | theorems about `TaskPipeline`: types, answers, reports, stranded tasks | proofs |
| `OnePlaceProofs` | theorems about `TaskPipeline`: the places of a file, duplicates, samples, admission, the claim on a task, the refinement of `TaskLifecycle` | proofs |
| `SubmissionProofs`, `AccountsProofs`, `BackupRestoreProofs`, `NetworkProofs`, `HighAvailabilityProofs` | theorems about the modules they are named for | proofs |

`TaskPipeline` and `Submission` both extend `AnalysisDb`, so a statement has one
definition, and `OnePlace` is the same formula in both. In the same way `Accounts` and
`BackupRestore` share the steps of `ConfigStore`, and `Interfaces` and `Routing` share the
file, its lock and its requests.

### AnalysisDb

`fod` (file_on_demands), `live` (task_live_analysis_tables), `dup`
(task_duplicate_tables) and `finished` (task_finished_tables) are functions of the
job id; a missing row is `None`. `files` is the sample directory: the digest of
what is stored under an id. The three digests of a file stand and fall together and
are one value; a promoted duplicate is inserted without them
(`processDuplicateTasksForAborted`), which is `NoHash`. Statements that UPDATE by
id change nothing when the row has gone (`WriteRow`, `SetStatus`,
`ClearLogQueueFailed`), which is what makes late writes harmless in some orders and
harmful in others. `Finish` and `Abort` are the transactions at the end of an
analysis. `ResetQueueDb` is `dao.ResetQueueDb`, with `rebooted` the flag that
`main.go` passes.

### TaskPipeline

A task is a row of `live`, and *copies* of it travel by value through the channels.
A copy's status is what the sender says; the row's status is written separately, and
much of what can go wrong comes from the two disagreeing.

| code | actions |
|---|---|
| `NotInQueueHandler` | `NiqFetch` (the SELECT), `NiqPush` (one task: relog, scanner match, admission or resumption), `NiqUpdate` (the UPDATE that follows a push) |
| `PendingQueueHandler` | `PendFetch` (sandbox load, pop), `PendGiveUp` (retries or time-out), `PendSpawn` (semaphore and `go`) |
| its goroutines | `SubmitAccepted`, `SubmitFailed`, `SubmitLogged` |
| `RunningQueueHandler` | `RunList` (the sandbox listing), `RunFetch` (drain the channel), `RunCheck` (one task against the listing) |
| `LogQueueHandler`, `processLogQueueTasks` | `LogPrepare` (report and duplicates, read outside the transaction), `LogCommit` (transaction, answer to the client, clean-up), `LogStatus` (a status that is not final) |
| `go deleteLocalTask`, `go deleteSandboxData` | `DeleteLocalTask`, `DeleteSandboxData` |
| the sandbox | `SandboxSettles` |
| crash and `init()` | `Restart` |

A step ends where another handler can see the difference: after a channel operation,
after a statement, after a call to the sandbox. Every send is the non-blocking
`select` of `pushToQueue`, so every action has the branch where the channel is full.
`changeStatusAndPushToLogQueue` (`LogChange`) writes the **old** status and
`log_queue_failed` when the log channel is full. Where `FaultKinds` says so, a
statement or transaction fails and the code goes on, as it does in the source.

### Submission

One action per statement of `CreateFileOnDemand`: `SubmitRead` (the highest id),
`SubmitStore` (`os.Create` of the sample), `SubmitHash`, `SubmitCheckClean`,
`SubmitCheckMalware`, `SubmitReadVerdict`, `SubmitInsertKnown`, `SubmitCount`,
`SubmitInsert`. No lock and no transaction spans two of them. An override is
`OverrideRead` and `OverrideWrite`, a firewall query `QueryMalware` and
`QueryClean`. The analysis appears through its two steps on the tables,
`AnalysisRead` and `AnalysisSettle`, which use the `Finish` and `Abort` of
`AnalysisDb` that `TaskPipeline` uses too. `known` and `shared` are history fields:
the digest was settled when the request computed it and nothing disturbed its look-up
since; another request ran with the same id.

### TaskLifecycle and the refinement

A file is `waiting` (a duplicate), `live` or `done`; `Conclude` settles a live file
with some of the files waiting for its digest, `GiveUp` allows a live file and
lets at most one file that waits take its place. `TaskPipelineRefinement` maps the
tables to the phases and checks that every step of the pipeline, whichever handler
takes it, is one of these or a stutter.

### ConfigStore and ConfigMap

`config.yaml` is a set of rows, each with a section (`model.Config` has a list per
section) and a key. `UpdateConfig` holds `WriteMu` from the read to the end of the write,
and `os.WriteFile` truncates before it writes, so a save is `LockAndRead`, for a signup
`TruncateLicence` and `WriteLicence`, then `TruncateConfig` and `WriteConfig`, or
`LockTimeout`. Readers take no lock and may meet the file `Torn`: it parses as no rows. So
does a restart. `Put` is what `UpdateConfig` does to a section: rows whose key is there are
replaced; new ones are appended only if **no** row of the save had its key in the section.

`ConfigMap` is the promise to the callers: `Ask`, `Commit` (the whole change at once),
`Abandon` (time-out), `Stop` (which may lose everything, because the file may be torn).
`SavesAreAtomic` is the refinement: a save counts from its truncation on, and until the
file is whole again its rows are those the writer holds.

### Accounts

Every request is a sequence of unlocked fetches and then a save of **whole rows** made
from what it fetched. A fetch and what is decided from it is one action, the save is
that of `ConfigStore`.

| code | actions |
|---|---|
| `Login`, `Authenticate`, `RetryAttemptLimiter` | `FetchLicence`, `AccountMissing`, `Authenticate` (limit, hold, comparison), `CompareAfterHold`, `Downgrade`; `ResetAdmin` for the appliance key |
| `ChangePassword` | `ChangePassword` |
| `Signup`, `CreateChildAdmin`, `CreateRolePermission` | `FetchLicence`, `CheckNames`, `RoleNameTaken`, `CreateRolePermission`, `Signup`, `CreateChildAdmin` |
| `UpdateAdminPersonalDetails`, `CreateDevice`, `UpdateDevice`, `DeleteDevice` | of the same names; a deletion reads nothing and starts at its save |
| `SaveProfile`, `DeleteProfile` | `Lock`, `LicenceStep`, `ConfigStep`, `Saved`, `SaveFails` |
| the five minutes of a hold, the end of the licence, a crash | `HoldElapses`, `LicenceExpires`, `Restart` |

`raced` is a history field: another request saved rows of a section this one works on
between its fetch and its save, or it fetched from a torn file. `wrong` is another one: the wrong
passwords for the first account whose save went through since a login last found the hold over
or cleared the counter. A login that finds the hold over clears the counter in its own copy of the row
and compares again, so it counts from nothing even when the save of the cleared row
times out (`FindsHoldOver`, `SaveFails`).

### BackupRestore

`Stat`, `Snapshot` (Backup); `FetchBackupTime`, `ClearCopy`, `Copy`, `Merge`, `CreateConfig`,
`CreateInterfaces`, `WriteData`, `WriteInterfaces`, `SetLinks` (Restore); `ClearCopy`, `Copy`,
`RemoveConfig`, `RemoveTasks`, `OpenConfig`, `WriteData`, `ResetAndReboot` (EraseConfig). None of
the writes holds `WriteMu`; each may fall between the steps of a save, and the result of two
writers of one file may be a mixture that no parser takes (`Corrupt`, `Overwritten`). `Copy`
and `Merge` need the lock and go on **with nothing** when they do not get it, as the
code does. The rollback that `EraseConfig` defers tests a flag that starts true, so
`RestoreOldConfigData` never runs and has no action. `Read` and `Create` are the other
requests: `readConfigFile` creates a missing file, empty.

### InterfaceStore, Interfaces, Routing, Network

`InterfaceStore` has the file, `lock` (the request that holds `mu`) and `save` (the file the holder
read and the one it will write); a save is `LockAndTruncate` and `WriteAndUnlock`, or
`LockTimedOut`. The file has a sequence of rows per section; the kernel has `links`, the `master` of each port
and its address. A request on a link validates against the kernel, changes it call by call
(`LinkAdd`, `Join`, `Leave`, `SetAddress`, `LinkDel`), looks whether its section is
empty (`CheckSection`), lists the kernel (`ListLinks`, `ListPorts`) and saves the rows, then the
fields the kernel does not know (`Save`, `SaveDone`, `SaveTimesOut`). `links` is a set: the order in
which the kernel lists links of different names is not kept, and no step depends on it. A bond whose
creation fails is removed again (`Undo`); bridges and VLANs are not. `SavePanics` is
`newData[0]` of an empty list. `Routing` reads the list of its kind without the lock,
edits it, replaces it, and starts a goroutine (`FetchRouteConfig`, `WriteZebra`; one per request, or
`NoGenerator`). `Network` adds
`Restart` (the physical ports are written anew from the kernel) and `Reboot` (virtual links are
gone, addresses are restored from the file, row after row, until one fails). A request is
`contended` when another was in flight during it.

### HighAvailability

A sync runs on the primary and on its peer by turns; `job[r].on` says where it is.
`CompareDeviceInfo`, `SendConfigToOtherDevice` and `HaCopyConfig`, `SyncBackup` and
`WriteInterfaceConfigFile` (the peer's file is truncated and rewritten without its lock),
`FetchConfigs`, `SetIpAfterSyncBackup`, `CreateHaConfig` and `WriteHa` on the peer, `StampOwn`
on the primary, `UpdateLastSyncedAt` on the peer, and then the primary's own
`FetchConfigs` to `WriteHa` in a goroutine. `Fail` ends a request at any step,
`SetIpUnsaved` sets an address and ignores that its row could not be stored,
`LoseAnswer` leaves the peer working for nobody (`orphan`), `Restart` and `Reboot` end what
runs on one appliance. `given`, `mixed` and `earned` are history: the role the operator gave,
the appliances whose file was written by a request that had read it before another write or
left half written, and the syncs that the peer answered.

## Runs

| run | specification | states | properties |
|---|---|---|---|
| `duplicates` | 3 files of one digest, every end of an analysis, timeouts | 28 thousand | `SampleKept`, `OwnReport`, `VerdictStands`, `DuplicatesServed`, `RefinesLifecycle` |
| `concurrent` | 2 files of 2 digests, pending and running channel of one place, refused requests | 643 thousand | `SentOnce`, `OneWorkingCopy`, `OnlyLateWritesStrand` |
| `admission` | 2 files, one machine to spare, every channel of one place, scanner matches | 5.4 million | `PipelineTypeOK`, `AdmissionBounded`, `OnePlace` |
| `restart` | fair, 2 files, one restart anywhere, with or without reboot, requests refused or taken with the answer lost | 432 thousand | `FinishedOnce`, `RestartRecovers`, `EventuallySettled` |
| `faults` | fair, 2 files, one failing statement anywhere | 45 thousand | `ToldOnceSettled`, `SampleRemoved` |
| `submission` | 3 requests, 1 override, 1 firewall query, failing statements | 887 thousand | `SubmissionTypeOK`, `OnePlace`, `SampleIntact`, `KnownNotAnalysed`, `FirewallKnows`, `OnlyOverridesChange` |
| `accounts` | 3 requests of 10 kinds, fresh or signed up, a hold, an expiry, restarts | 2.1 million | `AccountsTypeOK`, `LateSignupRefused`, `SavesAreAtomic`, `OnlyRacesRevert`, `OnlyRacesDuplicate`, `GuessesBounded` |
| `backup` | 3 requests, 2 of them restores or erases, failing steps, crashes, power cuts | 2.7 million | `LossLeavesCopy`, `RestoreIsMerge`, `EraseForgets` |
| `network` | 3 requests, 2 at a time, one failing kernel call, one restart or reboot | 1.9 million | `NetTypeOK`, `ZebraIsCurrent`, `FailedBondIsUndone`, `AloneIsRecorded`, `NoOldAddress` |
| `ha` | 2 appliances, 3 requests, 2 at a time, one failure, lost answer, restart or reboot | 2.8 million | `HaTypeOK`, `RoleIsGiven`, `StampIsEarned`, `SyncAgrees` |
| `relogged` | 1 file, log channel of one place | stops at the violation | `StaysUnflagged`, **violated** |
| `rescanned` | 1 file, scanner matches | stops at the violation | `NotRetried`, **violated** |

The two violated properties state what the comment at `queue.go:223` says of the
code below it ("update log_queue_failed to 0, so that it will not be retried"):

* `relogged`: a task whose row carries `log_queue_failed` is pushed to the log
  channel in a copy that still carries the flag, and the log handler writes every
  column of the copy back. The flag the handler has just cleared is set again and the
  task is fetched and relogged for ever.
* `rescanned`: a task the handler reports itself (scanner match, or aborted for
  lack of machines) keeps its status, because no UPDATE but that of the flag follows.
  It is fetched again before its entry is handled and logged twice.

### What the passing runs show

* **Without overflow of the log channel, failures and restarts, the pipeline is
  sound although nothing is locked.** Even with pending and running channels of one
  place, where copies are pushed back and leave through the log channel, a file is
  handed to the sandbox once (`SentOnce`), has one working copy (`OneWorkingCopy`)
  and one finished row. Duplicates take the verdict of their file or one of them
  takes its place (`DuplicatesServed`), and every step is one of the lifecycle.
* **A file is never lost between the tables** (`OnePlace`): with every channel
  overflowing (`admission`), with any interleaving of requests and settlements
  (`submission`), and for every value of the constants (proof below).
* **A restart loses time, not tasks** (`restart`): whatever channel or goroutine held
  a task, the next `fetchNotInQueueTasks` reads it, and it is settled once, and the
  retries of refused and lost requests end.
* **A client is told only what is stored** (`faults`): the answer is read from the row
  after the transaction, so a transaction that failed gives "analysing".
* **No handler drops a task whose row is current** (`OnlyLateWritesStrand`). What can strand one is an
  UPDATE applied after the copy it is about has moved on. This happens without any
  failure: `NotInQueueHandler` pushes the copy, the copy travels through the pending
  channel and its goroutine, is logged as running-not-in-queue, and only then the
  handler writes pending-in-queue over that. No query selects the row any more and no
  channel holds a copy; only a restart helps. `EventuallySettled` therefore allows
  `Stranded`, and `OnlyLateWritesStrand` says what else leads there: a fault, and one step of
  `NotInQueueHandler` (`DropsStaleCopy`). The handler fetches a running-not-in-queue row; the entry
  that confirms the *previous* push to RunningQueue is handled late and writes running-in-queue over
  the row; RunningQueue is full, so the handler drops the copy and leaves the row to be fetched
  again (`queue.go:217`), which that row no longer is. The proof attempt found this: the property without this disjunct
  holds with channels of four places and is violated with one (`Concurrent.cfg`, 20 steps).

Some properties hold only in some environments, and the runs are cut accordingly; the theorems
about them state the environment as a hypothesis.
With a full log channel a verdict can be replaced or a file be sent twice
(`VerdictStands`, `FinishedOnce`, `OneWorkingCopy` fail) and a flagged task circulates
for ever (`EventuallySettled` fails; `relogged` is the reason). The same three fail
with scanner matches or aborts at `MAX_FREE_VMS` (`rescanned` is the reason) and with
failing statements, which also keep a task from ever being settled. After a restart a file
may be sent a second time (`SentOnce`), its
sandbox id not having been stored. A failed transaction leaves duplicates whose samples
are gone already (`SampleKept`). A duplicate promoted after an abort has no
digest in its row, so the other duplicates of its digest are not found when it is
settled in its turn, and wait for ever: `DuplicatesServed` is about rows that carry
their digest, and the lifecycle lets `Conclude` and `GiveUp` leave files waiting.

`submission` holds with these reservations, which the code's design imposes. A request
that shared its id with another may find its sample overwritten (`shared`); one of the
two is refused by the primary key. A duplicate whose live row was
settled between the count and the insert waits for ever: no property can promise that
it is served. An override between two look-ups of one digest hides it from both
(`known` is cleared). Only overrides change a settled verdict
(`OnlyOverridesChange`).

* **The lock of `config.yaml` makes saves atomic, and nothing more** (`accounts`). No writer
  computes from a torn file or from rows replaced since (`SavesAreAtomic`). But the rows it
  is given were fetched without the lock: `OnlyRacesRevert` and `OnlyRacesDuplicate` say
  that a reverted field, a revived device or two accounts of one name need a save of
  another request in exactly that interval, or a fetch from a torn file. Both happen in
  the model. A late signup is stopped by the licence file even when `config.yaml` is torn or
  lost (`LateSignupRefused`), which also means that a stop between the two files leaves a
  licensed appliance without an account. The limit of wrong passwords holds for
  logins that do not overlap (`GuessesBounded`): from one hold that is found over to the next, such a
login compares a password only while fewer wrong ones than the limit have been stored. Logins that
do overlap share one count.
* **Restore and erase are what they say if nobody disturbs them** (`RestoreIsMerge`,
  `EraseForgets`). A restore keeps the accounts that are there as they are, also when the file has
  other data for them, adds those of the file whose key is free, and replaces devices, addresses and
  links. An erase ends with the rows of the factory. A step that fails rolls nothing back; the accounts are then in
  `old_config.yaml` and nowhere else (`LossLeavesCopy`), if the copy could be made: a lock held by
  another request makes the copy empty without an error, and the restore goes on.
* **A request to the interfaces that met no other one leaves file and kernel in agreement**
  (`AloneIsRecorded`), whatever earlier races have left in them; with two at a time a route can be
  lost, a row name a link that is gone, or a bridge keep ports that a failed request took. A
  failed creation of a bond never leaves the bond (`FailedBondIsUndone`). A reboot never
  brings back an address that was replaced (`NoOldAddress`), because every start of the program
  writes the rows of the ports anew from the kernel. `zebra.conf` is current once a single
  generator has run undisturbed (`ZebraIsCurrent`). The fields of a bond are compared with those
  of a VLAN (`bond.go:282`), so clearing them is not stored: the property excepts it.
* **A sync hands over the configuration and not the identity** (`RoleIsGiven`), its time is
  stored only after the peer has answered the last of its requests (`StampIsEarned`), and one
  that runs alone makes the pair agree, up to the base and peer addresses (`SyncAgrees`). A peer whose
  operator disables HA after it was compared takes even the address of the dedicated port. Because
  `SyncBackup` reads and truncates without the lock, three syncs that overlap, with the roles swapped in
  between, can merge emptied files and leave the pair without rows (more requests than `Ha.cfg` has);
  a later sync finds the numbers of rows equal, succeeds and shares nothing. `SyncAgrees` therefore speaks of a primary whose file has its rows.

### Bounds, and why they are enough

Each `.cfg` names its bounds. A task's fate depends on other tasks through
three things: the digest they share, the room in the channels and the machines they
hold. Three files of one digest give an analysed file, a duplicate settled with it and
one left over; two files of one or two digests contend for channels and machines.
Channel capacities are 1 (every push can fail) or 4 (none can for the entries two or
three tasks produce), where the code has 5000. `MaxFreeVms` is 3, so that two live
tasks are admitted, or 2, so that the second is not; the code has 5. Retry
limits are 1 to 3 instead of 3 and 5: each limit is reached, and counting past one value is
seen with 2. `MaxSandboxTasks` (1 to 3) bounds the tasks the sandbox takes in a
behaviour: in `Concurrent.cfg` it is the number of files, and a `SentOnce` violation
fits because the violating file may take the other's place. `MaxSubmitters` is 1 for
the state space; the goroutines share nothing but the channels, and two of them take
their steps in any order with all handlers. `MaxFaults` is 1: one restart or failed
statement per behaviour. `Expiry` decides nondeterministically whether a timeout has
passed and replaces every clock.

In the other modules two requests can disturb each other at every step, and a third meets what
they have left; `MaxInFlight` (`Network`) and the number of request slots (`HighAvailability`,
where `MaxAsked` counts the requests) keep two at a time. `Accounts` starts from a fresh
appliance or from one with its first account, has two names and passwords, so that
right and wrong ones exist, one serial number, so that two devices compete for it, and a limit
of two, so that the counter is seen below, at and past it. `MaxEpoch` lets one hold run
out. `MaxRewrites` leaves one of three requests for a save, a read or a backup; the file that is
uploaded has a new account, another row for the account that is there, and another device.
`Network` has three ports in two overlapping pairs, one port in use by high availability, two bonds
and a bridge that compete for them, a VLAN and three routes of two kinds; a behaviour draws
its requests from one menu (ports, routes, bonds and bridges, or bonds and VLANs), because the
sections meet only in the lock and the torn file, which every pair of requests exercises.
`MaxFaults` and `MaxStops` are one each. `HighAvailability` has the dedicated port, a monitored port
with a base address, one without, and a port that is not monitored.

Symmetry is used for digests (`Concurrent`, `Admission`), for requests (`Submission`,
`Accounts`, `Backup`, `Network`, `Ha`) and for the two appliances (`Ha`), which no property or action tells apart, and only in runs without liveness. Job ids are
ordered by the code and are not symmetric. The runs on requests (`Submission`,
`Accounts`, `Backup`, `Network`, `Ha`) turn deadlock checking off: the number of requests is
bounded, so the system stops when all are done. The
pipeline's handlers loop for ever and its runs check for deadlock.

### Fairness

`HandlerFairness` is weak fairness of each handler as a whole, of each goroutine,
of each deletion and of the sandbox's end of each task. The handlers are infinite loops
started by `main.go` that never return and never block on a channel (every send and
receive is a `select` with a default; `pendingSem.Acquire` waits for a goroutine that
ends by itself); the scheduler runs every goroutine; the sandbox
ends every analysis by its own time limit. `Restart`, failing statements, lost answers
and refused requests are choices and never owed; that retries end follows from the
counters, not from fairness.

## Proofs

Each theorem is about one specification, for every value of its constants that the named
assumptions allow. Eight of them, all about `PipelineSpec`, have a hypothesis on the environment
besides, which they state.

### PipelineSpec

From `DbAssumption` and `PipelineAssumption` (capacities and limits are positive; `None` is not a
value of a table or of what `LogQueueHandler` reads).

* `PipelineTypeCorrect`: `PipelineSpec => []PipelineTypeOK`. The type is inductive as it
  stands: one lemma per action. Its content is that the copies with a final status are
  in `logQueue` only (`LiveCopy` and `TaskCopy` differ in this), so `LogStatus` and
  `LogChange` never write a final status to the live table.
* `RestartAlwaysRecovers`: `PipelineSpec => RestartRecovers`, from the type invariant and
  the case analysis of `Recovered`.
* `OnePlaceCorrect`: `PipelineSpec => []OnePlace`. `OnePlace` is not inductive: a log
  entry moves whatever id it carries, so an entry for a duplicate would settle it while
  it stays in the duplicate table. `OnePlaceInv` adds `CopiesKnown`: every copy in a
  channel, batch or goroutine carries the id of an accepted file that is not a duplicate,
  and what `LogQueueHandler` has read are still duplicates when its transaction runs. This
  holds because copies are made from live rows only, and because one goroutine alone
  removes duplicates. `StableStep` disposes of the actions that move no row;
  `FinishOnePlace` and `AbortOnePlace` (`AnalysisDbProofs`) treat the two transactions. The
  theorem covers restarts, failing statements and overflow, none of which the proof restricts.
* `ToldWhatIsStored`: `PipelineSpec => []ToldOnceSettled`. `ToldInv` adds that rating and verdict of a
  row are stored together; an answer is read from the row, and no row loses its verdict.
* `ReportIsOwn`: `PipelineSpec => []OwnReport`. `OwnInv` says of every row *and every copy* that its
  sandbox id was given out for that file. Restarts, lost answers and late writes move such ids
  about, but never from one file to another.
* `DuplicatesAreServed` (`DuplicatesServed`), if no statement fails. `ServedInv` adds to `OnePlaceInv`
  that a copy carries the digest of its live row (`HashCopy`) and that what `LogPrepare` read
  outside the transaction is what the transaction would read (`ReadCurrent`). `CopiesStay` is the
  lemma for facts of this kind: if a set of copies is closed under what the handlers do to a copy
  (a new status, one more retry, a sandbox id), copies never leave it. A failed SELECT for
  duplicates leaves them unserved, hence the hypothesis.
* `SampleIsKept` (`[]SampleKept`), if nothing fails and nothing restarts. `SampleInv` adds that
  the only samples of waiting files that may be gone are those of the duplicates which
  `processDuplicateTasksForReported` has deleted and is about to settle. A transaction that fails
  after that, or a crash before it, really leaves them without a sample.
* `AdmissionIsBounded` (`[]AdmissionBounded`), if no statement fails. `AdmissionInv`: there is a set of
  accepted ids, fewer than `MAX_FREE_VMS` of them live, and all copies on the way to the sandbox, all
  copies and rows in a running status and all late writes of one are about ids of this set. Only the
  admission test enlarges it. A count that fails counts as zero and admits one too many, hence the hypothesis.
* `NoHandlerStrands` (`PipelineSpec => OnlyLateWritesStrand`), with no hypothesis: any capacity, any
  fault. `Held` is the negation of `Stranded` by cases: the row is selected by a query or gone, the log channel has
  an entry about more than a push to RunningQueue, or a queue, batch or goroutine has a copy.
  One lemma per action shows that a step which takes a copy from one of these puts it into another;
  a push to a full log channel sets the flag that makes the row selected again.

The remaining five are about the **one claim** on a task. They need three things of the environment:

* `Faultless`: no statement fails and the scanners find nothing;
* `[]Undisturbed`: no row ever carries `log_queue_failed`, which is to say that the log
  channel (5000 places in the code) never overflows, and fewer than `MAX_FREE_VMS` tasks are live;
* `SandboxGetsOnce` alone: `Answered`, no restart, no failure, and no answer of the sandbox is lost.

Each is there because TLC shows the properties violated without it ("some environments" above): a
flagged, matched or aborted task is logged from a row that stays as it was, and is fetched and logged
again. `Undisturbed` is a condition on behaviours, not on constants: for `Duplicates.cfg`,
`Concurrent.cfg` and `Restart.cfg` it holds in every reachable state, so in these instances
the theorems cover what the runs check. Refused and lost requests, expired retries,
full pending and running channels, late UPDATEs and restarts are all inside.

`PlaceInv` says that there is a function `P` from tasks to places (`Places`) with `Placed(P)`. The place of a live task is its
row, one of the two queues or batches, a goroutine, the log entry that will hand it back (`"back"`) or the one that
will settle it (`"final"`). Whatever else carries its id is harmless, and the conjuncts say why: a row that looks idle while a copy is under way has the
UPDATE of `NotInQueueHandler` still due (`RowsIdle`, `WriteBusy`); an entry that would hand back
a task that is settled comes after the entry that settles it, so it finds no row
(`SoleEntry`). `P` is not written as a function of the state: a late log entry does not say whether
its task has moved on. So each action's lemma shows which task moves and to where
(`Moved`). `ClaimInv` is `PlaceInv` with `ServedInv`.

* `WorkingCopyIsOne` (`[]OneWorkingCopy`): the working places are different values of `P`.
* `FinishedIsOnce`, `VerdictsStand` (`[]FinishedOnce`, `VerdictStands`): a transaction finds its
  task live (`CommitFinds`), for its entry is the `"final"` place of that task.
* `PipelineImplementsLifecycle` (`RefinesLifecycle`), with `LifecycleInv`, which adds that a row has the
  digest of its file or none. `InitLifecycle` is the initial state; `FinishConcludes` and `AbortGivesUp`
  map the transactions to `Conclude` and `GiveUp`; all else is a stutter (`StepLifecycle`).
* `SandboxGetsOnce` (`[]SentOnce`), with `SentInv`: everything that may still be sent (rows and
  entries pending-not-in-queue, copies before the sandbox) is about a task the sandbox
  does not have (`Fresh(Unsent)`). A hand-over takes its task out of `Unsent`, and `ClaimInv` says that
  the goroutine's was the only claim.

### SubmissionSpec

From `DbAssumption` and `SubmissionAssumption` (finitely many requests, an id for each, `None` is
neither a request nor an analysis). The invariant is `SubmissionInv`. Its core is *who owns an id*:
the ids in use are an interval and those below the id of a request are in use (`IdsInOrder`); every row
was inserted by one request that has ended (`RowsOwned`); of the requests with the id of an unshared one
only that one has not failed (`UnsharedAlone`); a deletion is due only for a file that has its verdict
or is about to get it (`DeletionsDue`).

* `SubmissionTypeCorrect`: above all there is always an id left, because the interval is no
  longer than the number of requests.
* `SubmissionOnePlace`: no interleaving of the statements loses a file or holds it twice.
* `WaitingSampleIntact` (`SampleIntact`), from `UnsharedAlone` and `DeletionsDue`.
* `KnownIsNotAnalysed`, `FirewallIsTold` (`KnownNotAnalysed`, `FirewallKnows`), from `KnownFound`: a
  digest that was settled, and undisturbed since, is found by the look-up that is left.
* `OverridesChangeAlone` (`OnlyOverridesChange`): neither an insert nor a transaction touches a row
  that is settled.

### AccountsSpec

From `AccountsAssumption`; it asks that the key of the first account (`Seed`) is no request, because
the rows a request adds are named by the request. The invariant is `AccountsInv`, about the store:

* `RequestInv`: only a request at its save has passed a change on, only a signup a licence.
* `WriterInv`: the holder of the lock has a change, and the rows it will write are that change
  applied to the file it is about to replace; a torn file has no rows.
* `LateInv`: once a signup is late there is a licence, and *no* signup is past its look for one.

and `RowsInv`, about the rows:

* `TypeInv`: rows have a known section and the fields of it, and are alone with their key.
* `KeyInv`: the key of a request is new until the request has saved.
* `AloneInv`: what an undisturbed request has read is still so. The rows it will save
  replace rows that are there and differ in its own fields only, or are new and have no name that is
  taken (`Fits`); its count is above every stored one (`Counts`); a cleared counter is that of the
  stored row (`Clear`).
* `WrongInv`: no more wrong passwords were stored than the row of the account counts.

`LateSignupNeverSaves` (`AccountsSpec => []LateSignupRefused`) needs `LateInv` whole: that the
licence is there is stable only because no other signup is left that could truncate its file.
`StoreImplementsMap` (`AccountsSpec => SavesAreAtomic`) is the refinement: `InitMaps` and then
one step per action. The truncation (`ConfigStep`) is the `Commit`, by `WriterInv`; the write
that follows (`Saved`) is a stutter, because the mapped rows are already those of the writer; a restart
while the file is torn is the `Stop` that loses them.
`AccountsTypeCorrect`, `UndisturbedSavesKeep` (`OnlyRacesRevert`), `UndisturbedSavesAddNoTwin`
(`OnlyRacesDuplicate`) and `GuessesAreBounded` (`GuessesBounded`) follow from `RowsInv`. The first attempt
to prove `GuessesBounded` failed for a good reason: it counted from the last clearing that was
*stored*, and a login that finds the hold over and whose clearing save times out goes on comparing
although the stored counter is at its limit. The property now counts from the moment
the hold is found over, which is what the code does.

### BackupSpec

From `BackupAssumption`. Sections that are one struct in `model.Config` (the times of the last backup and
restore, `model.go:77`) have at most one value in the initial, factory and uploaded rows (`SingleValued`).

* `CopyHoldsTheLoss` (`BackupSpec => []LossLeavesCopy`), with `BackupInv`. Between its copy and its
  truncation an undisturbed operation finds its accounts covered by the copy (`CoveredInv`). An
  operation that is about to copy has marked every other one as disturbed (`CopyInv`), so the copy
  that `CoveredInv` and `RiskInv` are about is not overwritten by one nobody has announced.
  `OperationInv` says which operations reach which stages.
* `RestoresMerge` (`RestoreIsMerge`) and `ErasesForget` (`EraseForgets`), with `RewriteInv` besides:
  the stage says the kind (`KindInv`), single sections are single in every file, copy, download and
  pending change (`SingleInv`), and an undisturbed operation finds the file of its phase, is the only
  one beyond its first copy and holds the file if it is torn (`QuietInv`). Every step of another operation
  either leaves all of this or marks the undisturbed one (`Harmless`, `Noisy`).

### NetSpec

From `StoreAssumption`, `KernelAssumption`, `RoutingAssumption` and `NetAssumption` (names of ports, bonds,
bridges and VLANs are disjoint, finitely many ports and bonds, every route has a kind, `None` is
neither a request nor a name).

* `RequestsKeepOrder` (`NetSpec => []RequestInv`): a request carries what its next step needs, the
  holder of the lock is at a save, a request that has met no other one is alone. The other
  theorems rest on it, each with an invariant of its own.
* `ZebraHasTheRoutes` (`[]ZebraIsCurrent`), `ZebraInv`: an undisturbed generator is the only one and has
  read what the file says, and a save of links leaves the routes as they are.
* `NetTypeCorrect` (`[]NetTypeOK`), `KernelInv`: no name is two links, and a port's master is there.
* `FailedBondsAreUndone` (`[]FailedBondIsUndone`), `BondInv`: a bond in the kernel was made by a
  request that was answered or killed, or by one that still leads to `Undo` if it fails.
* `OldAddressesStayAway` (`NoOldAddress`), `AddressInv`: for each port without doubt the file, *and every save
  on its way to the file*, has the address of the kernel.

### HaSpec

From `HaAssumption` (two appliances, finitely many ports, an address for each at the start).

* `TimesAreEarned` (`HaSpec => []StampIsEarned`). A time travels: it is read with a file, sent to the
  peer, merged, stamped and stored from what was read before. `StampInv` therefore says of *every*
  copy (in a file, in a received file that is about to be merged, in what a request has read) that
  its time was earned, and that a request which is to stamp has earned its own.
* `HaTypeCorrect` (`[]HaTypeOK`) and `RolesAreGiven` (`[]RoleIsGiven`), both from `RoleInv`: files and requests
  are typed; a request that is about to store, rewrite or set an address on an appliance whose file
  nobody mixed has that appliance's own role and dedicated address in what it carries.
* `SyncsAgree` (`HaSpec => SyncAgrees`), from `RoleInv` and `SyncInv`. Agreement is built up over the
  steps of a sync on two appliances, so `SyncInv` says for each of them what has been reached (`Stage`):
  the peer has the section and the rows (`Handed`), each of its ports has its address (`TakenOver`), its
  keepalived moves every monitored address (`Relays`; a port with the peer address has one to move, hence
  `None # "peer"`), both times are those of the sync, and then the same for the ports of the primary
  (`SetRight`). It is claimed of the one request in flight only (`alone`), while its caller waits
  (`Proceeds`). A restart or reboot of the peer between two of its requests keeps what was reached, since the
  rows are then what the kernel has; one in the middle of its own work ends the sync, and a lost answer
  or an address that was not saved takes it out of the claim.

### Model-checked only

All within the bounds of the runs:

* liveness (`EventuallySettled`, `SampleRemoved`), which is out of the prover's reach;
* `AloneIsRecorded`: `DeleteStaticRoute` filters its list, and what a filter returns on every list is an
  induction over data.

## Abstractions

* Timeouts are a choice (`Expiry`). Scores are zero or above. The statuses of a clamd and a
  quickscope match are one (`Scanned`); the sandbox's pending, running and completed
  tasks are `active`.
* Merged steps: `PendFetch` counts the sandbox's load and pops (only this handler pops;
  the load can change in between only as it can before the next step); a submitter's
  request and push; the full-channel test and the direct UPDATE of
  `changeStatusAndPushToLogQueue`.
* The batch of twenty that `LogQueueHandler` pops is part of `logQueue`: it is the only
  receiver and works in order. The order in which `NotInQueueHandler` treats a batch is
  arbitrary.
* The UPDATE of `ResetQueueDb`, the query behind an acknowledgement and the deletion of a
  sandbox task are assumed to succeed; the acknowledgement is part of the transaction's
  step. All files are treated as sent by a device that is to be answered. A failure of the
  second SELECT in `processDuplicateTasksForAborted` is not modelled; that of the first is.
* Quickscope's rewriting of `.txt` samples is left out.
* `Accounts`: the user name stands for the name, the email address and the phone number; the
  `RoleAndAction` rows of a role are one row; a new account has the default password; a row of
  `Admin` has the key of its `UserAuthentication`; consecutive fetches that can only refuse are one
  step; no request is open for five minutes. A fetch of a file that is being written reads nothing
  (never a part of it). Disk errors, scan profiles and the bearer branch of `Login` are left out.
* `BackupRestore`: accounts, features, devices and times stand for the sections that are
  merged, kept, replaced and single; addresses of all links are one value.
* `Interfaces`: addresses, aliases, sizes and hardware addresses of virtual links and the
  operational state are left out; the fields the file adds are one value; the loop over the ports of
  a request is one step that may stop after any of them; lock, read, computation and truncation of
  a save are one step (no other writer can come in between). `Joinable`, `Released` and
  `WithoutLink` are the kernel, modelled from how the code relies on it: a bond takes free
  ports only, a bridge takes a port from its master. The HA ports are a constant. The global
  routing settings are left out, and `zebra.conf` is its routes: only IPv4 routes are dumped.
* `HighAvailability`: passwords and models of the pair match (a mismatch is a `Fail`); one
  dedicated port; the locked `UpdateConfig` is one step, since `Network` shows its tearing; the time
  of a sync is the number of its request; a lock time-out is a `Fail` or `SetIpUnsaved`; the two
  fetches of the file (the HA section, then the rows) at the start of a function are one; the restarts
  of the program that end a sync and the reboot that ends a disabling are those of the bounded `Restart`
  and `Reboot`, which may come at any moment, or never; the virtual addresses are
  kept by keepalived, which is external; the ports are set in one fixed order, as in the file; HTTP calls to the peer
  have no time-out in the code and may take any time.
* `Submission`: writing a sample is one step; validation of the form and file-system errors,
  which end a request before a row is written, are left out; `file_hashes` does not change,
  so its look-up and that in `file_on_demands` are one; a look-up without ORDER BY
  returns any row of the digest; `Submission` leaves out how an analysis gets to its end.

## Inventory

| component | state | operations | hard behaviour | what makes it correct | status |
|---|---|---|---|---|---|
| Analysis pipeline (`service/queue`) | three channels, batches, rows | see above | stale copies, full channels, late UPDATEs, restarts | see above | modelled |
| Analysis tables (`queue/db.go`, `dao/task_crud.go`) | four tables, samples | statements, transactions | partial failure | `OnePlace` | modelled |
| Cuckoo client (`service/cuckoo`) | sandbox tasks | create, list, report, delete | lost answers | `OwnReport` | as the handlers see it |
| Restart (`main.go`, `ResetQueueDb`) | the rows | reset | crash between any two steps | `RestartRecovers` | modelled |
| File submission (`fileOnDemand.go`) | tables, samples | `CreateFileOnDemand` | unlocked id, check then insert | `SampleIntact`, `KnownNotAnalysed` | modelled |
| Verdict override | `fod` | read, UPDATE by digest | races with look-ups | `OnlyOverridesChange` | files modelled, URLs not |
| Firewall jobs | none | hash query, file job | two look-ups | `FirewallKnows` | modelled |
| URL submission | url_on_demands | insert | none | none | not modelled |
| YAML configuration store (`config/config.go`, `dao/*Profile*.go`) | `config.yaml`, the licence file | whole-file read-modify-write, unlocked reads | locks of limited wait, write in place, restarts | `SavesAreAtomic` | modelled, without the task file |
| Login and lockout (`authenticate.go`, `retryAttempLimiter.go`, `login.go`, `changePassword.go`) | retry counter, hold, permissions | login, change of password | read, compare, write back | `GuessesBounded`, `OnlyRacesRevert` | modelled, without the JWT |
| Accounts, roles, devices, licences (`signup.go`, `createChildAdmin.go`, `rolePermission.go`, `device.go`, `licenseKey.go`) | rows of the configuration | sign up, child admins, roles, details, devices | look-up then save, two files of a signup | `OnlyRacesDuplicate`, `LateSignupRefused` | modelled, without licence extension |
| Backup, restore, erase (`backup.go`) | the configuration files, the copy, the links | backup, restore, erase | a dozen unlocked steps, no rollback | `LossLeavesCopy`, `RestoreIsMerge`, `EraseForgets` | modelled |
| Interfaces, bonds, bridges, VLANs (`service/interfaces`) | kernel links, `interface_config.yaml` | create, update, delete | multi-step changes, rollback of bonds only, lock time-outs, reboots | `AloneIsRecorded`, `FailedBondIsUndone`, `NoOldAddress` | modelled |
| Static routing (`interface_routing`) | route lists, `zebra.conf` | create, update, delete | read, edit, replace; generators that overlap | `AloneIsRecorded`, `ZebraIsCurrent` | modelled, without global settings |
| High availability (`ha.go`) | the HA section and file of two appliances, keepalived | create, disable, synchronise | four requests, each may fail or lose its answer, unlocked rewriting | `RoleIsGiven`, `StampIsEarned`, `SyncAgrees` | modelled |
| Request validation (`validations.go`) | none | checks of requests | checks against the kernel that later steps rely on | part of `AloneIsRecorded` | the checks that read state |
| Device initialisation (`initSystem.go`) | addresses | restoration at a start | a row that cannot be restored | `NoOldAddress` | the addresses |
| Build upload, firmware (`uploadBuild.go`, `firmware.go`) | build files, installer status | validate, back up, replace, install | failure of a stage, misread status | a build is replaced only by a checked one | not modelled |
| JWT (`auth/`) | none | sign, verify | none | none | not modelled |
| Troubleshooting, logging, dashboard and reports, routes | none of their own | one command, formatting, read-only queries, tables of routes | none that interact | none | not modelled |
| Hash cache (`hash/`), cron (`cron.go`) | not used | commented out | none | none | not modelled |

Interactions: submission and firewall jobs insert rows, the pipeline reads them by
polling, the sandbox is called over HTTP, verdicts go back by POST and through the
rows that the firewall query and the reports read. All management components share the two
YAML files (`config.yaml`, `interface_config.yaml`); backup, restore, erase and HA
rewrite both under the others.

## Not modelled

* **Build upload and firmware update**: a sequence of external commands and transfers; what
  decides their outcome is free text (`strings.Contains` on an answer, a checksum of an already
  consumed reader). A model would restate these two defects and nothing else; they are listed as hazards.
* **JWT, troubleshooting, logging, dashboard, reports, profiles, routes**: no state that another
  component changes, or no state at all.
* **URL submission**: a single insert without an analysis behind it; the override of a URL verdict is the
  statement pair of the file override on a table nothing else updates.
* **The task file** of the configuration store: overridden verdicts are appended under the lock that
  `ConfigStore` models, and only read by the log of overrides.
* **Hash cache and scheduled jobs**: commented out.

What could follow: `Submission` composed with the full `TaskPipeline` in place of its two analysis
steps; `AloneIsRecorded` with the routes of a kind as a set.
