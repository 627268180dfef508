-------------------------- MODULE HighAvailability --------------------------
(***************************************************************************)
(* Two appliances that form a pair for high availability.  A sync runs on  *)
(* the primary: it compares the devices, sends its interface file to the   *)
(* peer, which merges it into its own file without taking the lock, sets   *)
(* its addresses and generates keepalived.conf; the primary stamps its own *)
(* file, has the peer stamp its own, and then treats itself as the peer.   *)
(***************************************************************************)
EXTENDS Naturals, FiniteSets

CONSTANTS
    None,
    Appliances,       \* the two of them
    Ports,
    Dedicated,        \* the port the appliances are connected with
    Start,            \* the address of each port of each appliance at the start
    Requests,
    Choices,          \* bound: the ports requests name as monitored, each with or
                      \* without a base address
    MaxAsked,         \* bound on requests
    MaxFaults,        \* bound on failures, restarts and reboots
    Configured        \* whether a behaviour starts with the pair created

VARIABLES
    file,             \* of each appliance: the HA section and the address of each port
    merged,           \* of each appliance: the file received from the peer, or None
    ip,               \* of each appliance: the address of each port in the kernel
    keepalived,       \* of each appliance: what keepalived.conf was generated from
    job,              \* of each request
    asked, faults,
    given,            \* history: the role each appliance got from its operator
    mixed,            \* history: the appliances whose file was written by a request
                      \* that had read it before another write, or left half written,
                      \* or merged when HA had been disabled
    earned            \* history: the syncs the peer has answered to the last step

haVars == <<file, merged, ip, keepalived, job, asked, faults, given, mixed, earned>>

ASSUME HaAssumption ==
    /\ \E a, b \in Appliances : a # b /\ Appliances = {a, b}
    /\ IsFiniteSet(Ports) /\ Dedicated \in Ports /\ None \notin Ports
    /\ Start = [a \in Appliances |-> [p \in Ports |-> Start[a][p]]]
    /\ None # "peer"
    /\ MaxAsked \in Nat /\ MaxFaults \in Nat /\ Configured \subseteq BOOLEAN

PeerOf(a) == CHOOSE b \in Appliances : b # a
NoHa == [role |-> "", dedicated |-> None, monitored |-> <<>>, synced |-> 0]
EmptyContent == [ha |-> NoHa, rows |-> <<>>]

InFlight == {r \in Requests : job[r].step # "idle"}
At(r, step) == job[r].step = step
On(r) == job[r].on
Torn(a) == \E r \in Requests : At(r, "torn") /\ On(r) = a

\* The address a port is to have: a monitored one has the base address on the
\* primary and the peer address on the backup.
AddressOf(content, p) ==
    IF p \notin DOMAIN content.ha.monitored THEN content.rows[p]
    ELSE CASE content.ha.role = "primary" /\ content.ha.monitored[p].base -> "base"
           [] content.ha.role = "backup" -> "peer"
           [] OTHER -> None

\* createHaConfig: the addresses keepalived is to move between the appliances.
Conf(content) ==
    LET moved == {p \in DOMAIN content.ha.monitored \cap DOMAIN content.rows : content.rows[p] # None}
    IN  [role |-> content.ha.role,
         virtual |-> [p \in moved |-> content.ha.monitored[p].virtual]]
NoConf == [role |-> "", virtual |-> <<>>]

\* Mutant of Merged: the received role is taken.
MergedRole(own, received) ==
    [ha |-> [received.ha EXCEPT !.dedicated = own.ha.dedicated],
     rows |-> [p \in DOMAIN received.rows |->
                 IF p = own.ha.dedicated THEN own.rows[p] ELSE received.rows[p]]]

\* Mutant of Merged: the row of the dedicated port is not taken over.
MergedOthers(own, received) ==
    [ha |-> [received.ha EXCEPT !.role = own.ha.role, !.dedicated = own.ha.dedicated],
     rows |-> [p \in DOMAIN received.rows \ {own.ha.dedicated} |-> received.rows[p]]]

\* writeInterfaceConfigFile: the received file, with what identifies the appliance.
Merged(own, received) ==
    [ha |-> [received.ha EXCEPT !.role = own.ha.role, !.dedicated = own.ha.dedicated],
     rows |-> [p \in DOMAIN received.rows |->
                 IF p = own.ha.dedicated THEN own.rows[p] ELSE received.rows[p]]]

-----------------------------------------------------------------------------
Goto(r, step) == job' = [job EXCEPT ![r].step = step]

\* What other requests have read of the file of a is overtaken.
Overtaken(a, r) ==
    [s \in Requests |-> IF s # r /\ s \in InFlight /\ On(s) = a THEN [job[s] EXCEPT !.stale = TRUE]
                                                                ELSE job[s]]

Begin(r, a, op, step, ha) ==
    /\ At(r, "idle") /\ asked < MaxAsked
    /\ asked' = asked + 1
    /\ job' = [s \in Requests |->
                 IF s = r THEN [op |-> op, step |-> step, by |-> a, on |-> a, ha |-> ha,
                                content |-> EmptyContent, todo |-> {}, id |-> asked + 1,
                                orphan |-> FALSE, stale |-> FALSE,
                                alone |-> InFlight = {}]
                 ELSE IF s \in InFlight THEN [job[s] EXCEPT !.alone = FALSE] ELSE job[s]]
    /\ UNCHANGED <<file, merged, ip, keepalived, faults, given, mixed, earned>>

Idle == [step |-> "idle"]

\* The handler on the peer returns, and forgets what it has read: the caller takes the
\* next step, if it waits.
Back(j, step, a) ==
    [j EXCEPT !.step = step, !.on = a, !.stale = FALSE, !.ha = NoHa, !.content = EmptyContent]
Return(jobs, r, step, a) ==
    [jobs EXCEPT ![r] = IF @.orphan THEN Idle ELSE Back(@, step, a)]

-----------------------------------------------------------------------------
(* CreateHa, by request type *)

\* validateHaRequest: a base address is not in use on a port.
BaseIsFree(a, chosen) == \A p \in DOMAIN chosen, q \in Ports : chosen[p] => ip[a][q] # "base"

AskToCreate(r, a, role, chosen) ==
    /\ BaseIsFree(a, chosen)
    /\ Begin(r, a, "create", "storing",
             [role |-> role, dedicated |-> Dedicated, synced |-> file[a].ha.synced,
              monitored |-> IF role = "backup" THEN <<>>
                            ELSE [p \in DOMAIN chosen |-> [base |-> chosen[p], virtual |-> ip[a][p]]]])

AskToDisable(r, a) ==
    /\ file[a].ha.role # ""
    /\ Begin(r, a, "disable", "storing", NoHa)

AskToSync(r, a) ==
    /\ file[a].ha.role = "primary"
    /\ Begin(r, a, "sync", "comparing", NoHa)

AfterSaving(r) ==
    CASE job[r].op = "create" -> "generating"
      [] job[r].op = "disable" -> "resetting"
      [] job[r].op = "sync" -> "telling"
      [] job[r].op = "tell" -> "fetching"

\* UpdateConfig replaces the HA section.  The peer answers once its stamp is
\* stored; what follows on the primary is a goroutine.
UpdateConfig(r) ==
    LET a == On(r)
        operator == job[r].op \in {"create", "disable"}
    IN  /\ At(r, "storing")
        /\ file' = [file EXCEPT ![a].ha = job[r].ha]
        /\ job' = LET jobs == Overtaken(a, r)
                  IN  IF job[r].op = "tell"
                      THEN [Return(jobs, r, "fetching", job[r].by) EXCEPT ![r] =
                              IF @ = Idle THEN @ ELSE [@ EXCEPT !.op = "local"]]
                      ELSE [jobs EXCEPT ![r].step = AfterSaving(r), ![r].ha = NoHa]
        /\ given' = IF operator THEN [given EXCEPT ![a] = job[r].ha.role] ELSE given
        /\ mixed' = IF Torn(a) \/ (~ operator /\ job[r].stale) THEN mixed \cup {a} ELSE mixed
        /\ UNCHANGED <<merged, ip, keepalived, asked, faults, earned>>

ResetKeepAlived(r) ==
    /\ At(r, "resetting")
    /\ keepalived' = [keepalived EXCEPT ![On(r)] = NoConf]
    /\ job' = [job EXCEPT ![r] = Idle]
    /\ UNCHANGED <<file, merged, ip, asked, faults, given, mixed, earned>>

-----------------------------------------------------------------------------
(* IntializeSyncBackup *)

\* The peer must be a backup with a dedicated port.
CompareDeviceInfoFromAnotherAppliance(a) == file[a].ha.role = "backup" /\ file[a].ha.dedicated # None

\* Mutant of CompareDeviceInfo: its error does not end the sync.
CompareDeviceInfoOnly(r) ==
    /\ At(r, "comparing")
    /\ Goto(r, IF CompareDeviceInfoFromAnotherAppliance(PeerOf(On(r))) THEN "sending" ELSE "stamping")
    /\ UNCHANGED <<file, merged, ip, keepalived, asked, faults, given, mixed, earned>>

CompareDeviceInfo(r) ==
    /\ At(r, "comparing")
    /\ job' = [job EXCEPT ![r] = IF CompareDeviceInfoFromAnotherAppliance(PeerOf(On(r)))
                                 THEN [@ EXCEPT !.step = "sending"] ELSE Idle]
    /\ UNCHANGED <<file, merged, ip, keepalived, asked, faults, given, mixed, earned>>

SendConfigToOtherDevice(r) ==
    /\ At(r, "sending")
    /\ job' = [job EXCEPT ![r].step = "copying", ![r].on = PeerOf(@), ![r].content = file[On(r)]]
    /\ UNCHANGED <<file, merged, ip, keepalived, asked, faults, given, mixed, earned>>

HaCopyConfig(r) ==
    /\ At(r, "copying")
    /\ merged' = [merged EXCEPT ![On(r)] = job[r].content]
    /\ job' = Return(job, r, "merging", On(r))
    /\ UNCHANGED <<file, ip, keepalived, asked, faults, given, mixed, earned>>

\* SyncBackup: both files are read, and the own one is truncated: no lock is taken.
SyncBackup(r) ==
    LET a == On(r)
    IN  /\ At(r, "merging")
        /\ IF Cardinality(DOMAIN file[a].rows) # Cardinality(DOMAIN merged[a].rows)
           THEN /\ job' = [job EXCEPT ![r] = Idle]
                /\ UNCHANGED file
           ELSE /\ job' = [Overtaken(a, r) EXCEPT ![r].step = "torn", ![r].stale = Torn(a),
                                                  ![r].content = Merged(file[a], merged[a])]
                /\ file' = [file EXCEPT ![a] = EmptyContent]
        /\ UNCHANGED <<merged, ip, keepalived, asked, faults, given, mixed, earned>>

WriteInterfaceConfigFile(r) ==
    LET a == On(r)
    IN  /\ At(r, "torn")
        /\ file' = [file EXCEPT ![a] = job[r].content]
        /\ job' = Return(Overtaken(a, r), r, "fetching", a)
        /\ mixed' = IF job[r].stale \/ job[r].content.ha.role = "" THEN mixed \cup {a} ELSE mixed
        /\ UNCHANGED <<merged, ip, keepalived, asked, faults, given, earned>>

-----------------------------------------------------------------------------
(* SetIpAfterSyncBackup and createHaConfig, on the peer and on the primary *)

FetchConfigs(r) ==
    LET content == file[On(r)]
        ports == DOMAIN content.rows \ {content.ha.dedicated}
    IN  /\ At(r, "fetching")
        /\ job' = [job EXCEPT ![r].content = content, ![r].todo = ports,
                              ![r].step = IF ports = {} THEN "generating" ELSE "addressing"]
        /\ UNCHANGED <<file, merged, ip, keepalived, asked, faults, given, mixed, earned>>

\* Mutant of SetIpAfterSyncBackup: the row keeps the address of the primary.
SetIpOnly(r, p) ==
    /\ At(r, "addressing") /\ job[r].todo # {} /\ p = CHOOSE q \in job[r].todo : TRUE
    /\ ip' = [ip EXCEPT ![On(r)][p] = AddressOf(job[r].content, p)]
    /\ job' = [job EXCEPT ![r].todo = @ \ {p},
                          ![r].step = IF job[r].todo = {p} THEN "generating" ELSE @]
    /\ UNCHANGED <<file, merged, keepalived, asked, faults, given, mixed, earned>>

\* The port gets its address, and its row says what the kernel then has.
SetIpAfterSyncBackup(r, p) ==
    LET a == On(r)
    IN  /\ At(r, "addressing") /\ job[r].todo # {} /\ p = CHOOSE q \in job[r].todo : TRUE
        /\ ip' = [ip EXCEPT ![a][p] = AddressOf(job[r].content, p)]
        /\ file' = [file EXCEPT ![a].rows =
                      [q \in DOMAIN @ \cup {p} |-> IF q = p THEN ip'[a][p] ELSE @[q]]]
        /\ job' = [Overtaken(a, r) EXCEPT ![r].todo = @ \ {p},
                              ![r].step = IF job[r].todo = {p} THEN "generating" ELSE @]
        /\ UNCHANGED <<merged, keepalived, asked, faults, given, mixed, earned>>

\* createHaConfig fails without a dedicated port.
CreateHaConfig(r) ==
    LET content == file[On(r)]
    IN  /\ At(r, "generating")
        /\ job' = [job EXCEPT ![r] = IF content.ha.dedicated = None THEN Idle
                                     ELSE [@ EXCEPT !.step = "writing", !.content = content]]
        /\ UNCHANGED <<file, merged, ip, keepalived, asked, faults, given, mixed, earned>>

\* writeHa ends a creation, the work of the peer for a sync, and the sync.
WriteHa(r) ==
    LET peers == job[r].op = "sync"
    IN  /\ At(r, "writing")
        /\ keepalived' = [keepalived EXCEPT ![On(r)] = Conf(job[r].content)]
        /\ job' = IF peers THEN Return(job, r, "stamping", job[r].by) ELSE [job EXCEPT ![r] = Idle]
        /\ earned' = IF peers THEN earned \cup {job[r].id} ELSE earned
        /\ UNCHANGED <<file, merged, ip, asked, faults, given, mixed>>

-----------------------------------------------------------------------------
\* The time of the sync goes into the whole HA section, as read before: first on
\* the primary, then, by UpdateLastSyncedAt, on the peer.
Stamp(r, a, op) ==
    /\ job' = [job EXCEPT ![r].step = "storing", ![r].on = a, ![r].op = op, ![r].stale = Torn(a),
                          ![r].ha = [file[a].ha EXCEPT !.synced = job[r].id]]
    /\ UNCHANGED <<file, merged, ip, keepalived, asked, faults, given, mixed, earned>>

StampOwn(r) == At(r, "stamping") /\ Stamp(r, On(r), "sync")
UpdateLastSyncedAt(r) == At(r, "telling") /\ Stamp(r, PeerOf(On(r)), "tell")

-----------------------------------------------------------------------------
(* Failures *)

Unlucky ==
    /\ faults < MaxFaults /\ faults' = faults + 1
    /\ UNCHANGED <<merged, asked, given, earned>>

\* A step fails, or what it needs of the peer.  On the primary addresses that
\* cannot be set do not keep keepalived.conf from being generated.
Fail(r) ==
    /\ Unlucky /\ r \in InFlight /\ ~ At(r, "torn")
    /\ job' = [job EXCEPT ![r] = IF job[r].op = "local" /\ At(r, "addressing")
                                 THEN [@ EXCEPT !.step = "generating", !.todo = {}, !.alone = FALSE]
                                 ELSE Idle]
    /\ UNCHANGED <<file, ip, keepalived, mixed>>

\* The lock of the file is not free in time: the row stays as it was, and the error
\* is ignored.
SetIpUnsaved(r, p) ==
    /\ Unlucky /\ At(r, "addressing") /\ job[r].todo # {} /\ p = CHOOSE q \in job[r].todo : TRUE
    /\ ip' = [ip EXCEPT ![On(r)][p] = AddressOf(job[r].content, p)]
    /\ job' = [job EXCEPT ![r].todo = @ \ {p}, ![r].alone = FALSE,
                          ![r].step = IF job[r].todo = {p} THEN "generating" ELSE @]
    /\ UNCHANGED <<file, keepalived, mixed>>

\* The connection breaks while the peer is at work: it goes on to the end.
LoseAnswer(r) ==
    /\ Unlucky /\ r \in InFlight /\ On(r) # job[r].by /\ ~ job[r].orphan
    /\ job' = [job EXCEPT ![r].orphan = TRUE]
    /\ UNCHANGED <<file, ip, keepalived, mixed>>

\* The program ends on a: the file stays as it is, until InitPhysicalInterfacesConfig
\* replaces the rows by what the kernel then has.
Stop(a) ==
    /\ Unlucky
    /\ job' = [r \in Requests |->
                 CASE r \in InFlight /\ On(r) = a -> Idle
                   [] r \in InFlight /\ On(r) # a /\ job[r].by = a -> [job[r] EXCEPT !.orphan = TRUE]
                   [] OTHER -> job[r]]
    /\ file' = [file EXCEPT ![a].rows = ip'[a]]
    /\ mixed' = IF Torn(a) THEN mixed \cup {a} ELSE mixed
    /\ UNCHANGED keepalived

Restart(a) == UNCHANGED ip /\ Stop(a)

Reboot(a) ==
    /\ ip' = [ip EXCEPT ![a] = [p \in Ports |-> IF p \in DOMAIN file[a].rows THEN file[a].rows[p] ELSE None]]
    /\ Stop(a)

-----------------------------------------------------------------------------
\* The section of x in a pair that was created, with a as the primary, but not synced.
Unsynced(a, chosen, x) ==
    [role |-> IF x = a THEN "primary" ELSE "backup", dedicated |-> Dedicated, synced |-> 0,
     monitored |-> IF x = a THEN [p \in DOMAIN chosen |-> [base |-> chosen[p], virtual |-> Start[a][p]]]
                            ELSE <<>>]

\* The files of such a pair, or of two appliances without HA.
StartFiles(set, a, chosen) ==
    [x \in Appliances |-> [ha |-> IF set THEN Unsynced(a, chosen, x) ELSE NoHa, rows |-> Start[x]]]

HaInit ==
    \E set \in Configured, a \in Appliances, chosen \in Choices :
        /\ file = StartFiles(set, a, chosen)
        /\ merged = [x \in Appliances |-> None]
        /\ ip = Start
        /\ keepalived = [x \in Appliances |-> IF set THEN Conf(file[x]) ELSE NoConf]
        /\ job = [r \in Requests |-> Idle]
        /\ asked = 0 /\ faults = 0
        /\ given = [x \in Appliances |-> file[x].ha.role]
        /\ mixed = {} /\ earned = {}

Ask(r) ==
    \E a \in Appliances :
        \/ \E role \in {"primary", "backup"}, chosen \in Choices : AskToCreate(r, a, role, chosen)
        \/ AskToDisable(r, a)
        \/ AskToSync(r, a)

Serve(r) ==
    \/ UpdateConfig(r) \/ ResetKeepAlived(r)
    \/ CompareDeviceInfo(r) \/ SendConfigToOtherDevice(r) \/ HaCopyConfig(r)
    \/ SyncBackup(r) \/ WriteInterfaceConfigFile(r)
    \/ FetchConfigs(r) \/ \E p \in Ports : SetIpAfterSyncBackup(r, p)
    \/ CreateHaConfig(r) \/ WriteHa(r)
    \/ StampOwn(r) \/ UpdateLastSyncedAt(r)

HaNext ==
    \/ \E r \in Requests : Ask(r) \/ Serve(r) \/ Fail(r) \/ LoseAnswer(r)
                          \/ \E p \in Ports : SetIpUnsaved(r, p)
    \/ \E a \in Appliances : Restart(a) \/ Reboot(a)
HaSpec == HaInit /\ [][HaNext]_haVars

-----------------------------------------------------------------------------
(* Types of the parts that no other property covers: the rows are those of  *)
(* the ports, all of them once a file is whole, and a request works on its  *)
(* own appliance or on the peer.                                            *)
HaTypeOK ==
    /\ \A a \in Appliances :
          /\ DOMAIN file[a].rows \subseteq Ports
          /\ file[a].ha.role \in {"", "primary", "backup"}
          /\ DOMAIN file[a].rows = Ports \/ Torn(a) \/ a \in mixed
          /\ file[a].ha.role = "" \/ file[a].ha.dedicated = Dedicated
    /\ \A r \in InFlight : job[r].orphan => On(r) # job[r].by
    /\ mixed \subseteq Appliances /\ earned \subseteq 1..asked

(* A sync hands over the configuration and nothing of the identity: each      *)
(* appliance keeps the role its operator gave it and the address of its       *)
(* dedicated port.  The exceptions are lost updates (a request that writes    *)
(* the section it read before another write), a stop in the middle of the     *)
(* rewriting of the file, and a peer that disabled HA after it was compared:  *)
(* it takes even the address of the dedicated port.                           *)
RoleIsGiven ==
    \A a \in Appliances : Torn(a) \/ a \in mixed \/
        /\ file[a].ha.role = given[a]
        /\ file[a].rows[Dedicated] = Start[a][Dedicated]

(* A time of a last sync, on either appliance, is that of a sync for which    *)
(* the peer has merged the file, set its addresses and generated its          *)
(* keepalived.conf.                                                           *)
StampIsEarned == \A a \in Appliances : file[a].ha.synced \in earned \cup {0}

\* What a sync is for.
Agree(a, b) ==
    /\ file[a].ha.monitored = file[b].ha.monitored
    /\ file[a].ha.synced = file[b].ha.synced
    /\ \A p \in Ports \ {Dedicated} :
          /\ file[a].rows[p] = ip[a][p] /\ file[b].rows[p] = ip[b][p]
          /\ IF p \notin DOMAIN file[a].ha.monitored THEN ip[a][p] = ip[b][p]
             ELSE ip[b][p] = "peer" /\ ip[a][p] \in {"base", None}
          /\ p \in DOMAIN keepalived[a].virtual =>
                p \in DOMAIN keepalived[b].virtual /\ keepalived[a].virtual[p] = keepalived[b].virtual[p]

(* A sync that ends without a failure and met no other request leaves a pair  *)
(* that agrees: the same monitored ports and time, the addresses of the other *)
(* ports shared, base and peer address apart, and no address moved by the     *)
(* keepalived of the primary that the one of the backup would not take over.  *)
(* It takes over the rows the primary has: syncs that overlapped before may   *)
(* have left its file without some.                                           *)
SyncAgrees ==
    [][\A r \in InFlight : \A a \in {job[r].by} :
         job[r].op = "local" /\ job[r].alone /\ At(r, "writing") /\ At(r, "idle")' /\ faults' = faults
         /\ DOMAIN file[a].rows = Ports
           => Agree(a, PeerOf(a))']_haVars
=============================================================================
