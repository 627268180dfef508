----------------------------- MODULE Interfaces -----------------------------
(***************************************************************************)
(* Bonds, bridges, VLANs and physical ports: the links of the kernel and   *)
(* the handlers that change them and then describe them in the file.  No   *)
(* lock spans a handler: it validates, changes the kernel call by call,    *)
(* looks whether the section of the file is empty, lists the kernel, and   *)
(* only then takes the lock of the file.                                   *)
(***************************************************************************)
EXTENDS InterfaceStore

CONSTANTS
    Ports,       \* the physical interfaces
    HaPorts,     \* those the high-availability section monitors or dedicates
    Bonds, Bridges, Vlans,    \* the names requests use for virtual links
    Ips,         \* addresses of ports
    MaxFaults    \* bound on kernel calls that fail for no reason of ours

VARIABLES
    links,     \* the virtual links of the kernel and the request that made each
    master,    \* the bond or bridge each port is in
    ip,        \* the static address of each port
    faults     \* kernel calls that failed so far

kernelVars == <<links, master, ip, faults>>
Names == Bonds \cup Bridges \cup Vlans

ASSUME KernelAssumption ==
    /\ None \notin Names /\ Vlans \cap (Bonds \cup Bridges) = {}
    /\ Bonds \cap Bridges = {} /\ Ports \cap Names = {}
    /\ IsFiniteSet(Ports) /\ IsFiniteSet(Bonds) /\ MaxFaults \in Nat

SectionOf(n) == CASE n \in Bonds -> "bond"
                  [] n \in Bridges -> "bridge"
                  [] n \in Vlans -> "vlan"
                  [] OTHER -> "device"

CheckInterfaceExists(n) == \E l \in links : l.name = n
ParentOf(n) == {l.parent : l \in {k \in links : k.name = n}}
Members(n) == IF n \in Vlans THEN ParentOf(n) ELSE {p \in Ports : master[p] = n}
FetchAttachedTo(p) ==
    {n \in Names : CheckInterfaceExists(n) /\ p \in Members(n)}

\* The row a listing of the kernel gives, with the fields the file has for it.
Described(n) == [name |-> n, members |-> Members(n), fields |-> FieldsOf(file[SectionOf(n)], n)]

\* Mutant of DescribedPort: the address is taken from the file, as the fields are.
RememberedPort(p) ==
    LET i == RowOf(file.device, p)
    IN  [name |-> p, ip |-> IF i = 0 THEN None ELSE file.device[i].ip, fields |-> FieldsOf(file.device, p)]

DescribedPort(p) == [name |-> p, ip |-> ip[p], fields |-> FieldsOf(file.device, p)]

Listed(section) ==
    LET own == SetToSeq({n \in Names : SectionOf(n) = section /\ CheckInterfaceExists(n)})
    IN  [i \in DOMAIN own |-> Described(own[i])]
ListedPorts == LET order == SetToSeq(Ports) IN [i \in DOMAIN order |-> DescribedPort(order[i])]

WithoutLink(n) == {l \in links : l.name # n /\ l.parent # n}
Released(n) == [p \in Ports |-> IF master[p] = n THEN None ELSE master[p]]

-----------------------------------------------------------------------------
\* A request for the link n: the ports to add and to remove, the fields and the
\* address it names, and its first step.
Asked(op, n, add, drop, fields, a, step) ==
    [op |-> op, name |-> n, section |-> SectionOf(n), fields |-> fields, add |-> add,
     drop |-> drop, ip |-> a, old |-> Plain, all |-> FALSE, rows |-> <<>>, step |-> step]

\* The requests that are accepted; what they say of addresses, modes and sizes
\* is left out.
CheckIfMemberInterfaceHasMaster(p) == master[p] # None
FetchAddRemoveFromList(n, ports) == [add |-> ports \ Members(n), drop |-> Members(n) \ ports]

ValidateCreateBondRequest(ports) == Cardinality(ports) >= 2
ValidateCreateBridgeRequest(ports) == Cardinality(ports) >= 2
ValidateUpdateBondRequest(change) == \A p \in change.add : master[p] = None
ValidateUpdateBridgeRequest(change) == \A p \in change.add : master[p] = None
ValidateCreateVlanRequest(n, parent) ==
    /\ ~ CheckInterfaceExists(n)
    /\ parent \in Ports \/ (parent \in Bonds /\ CheckInterfaceExists(parent))

AskForMembers(r, n, ports, f) ==
    /\ ~ CheckInterfaceExists(n)
    /\ \A p \in ports : ~ CheckIfMemberInterfaceHasMaster(p)
    /\ Begin(r, Asked("create", n, ports, {}, f, None, "adding"))
    /\ UNCHANGED <<fileVars, kernelVars>>

CreateBondedLink(r, n, ports, f) ==
    n \in Bonds /\ ValidateCreateBondRequest(ports) /\ AskForMembers(r, n, ports, f)
CreateBridgeInterface(r, n, ports, f) ==
    n \in Bridges /\ ValidateCreateBridgeRequest(ports) /\ AskForMembers(r, n, ports, f)

CreateVlanInterface(r, n, parent, f) ==
    /\ n \in Vlans /\ ValidateCreateVlanRequest(n, parent)
    /\ Begin(r, Asked("create", n, {parent}, {}, f, None, "adding"))
    /\ UNCHANGED <<fileVars, kernelVars>>

\* The ports to add and to remove come from the members of now.
AskForOtherMembers(r, n, ports, f) ==
    LET change == FetchAddRemoveFromList(n, ports)
    IN  /\ CheckInterfaceExists(n)
        /\ Cardinality(ports) >= 2
        /\ Begin(r, Asked("update", n, change.add, change.drop, f, None, "joining"))
        /\ UNCHANGED <<fileVars, kernelVars>>

UpdateBondInterface(r, n, ports, f) ==
    /\ n \in Bonds /\ ValidateUpdateBondRequest(FetchAddRemoveFromList(n, ports))
    /\ AskForOtherMembers(r, n, ports, f)
UpdateBridgeInterface(r, n, ports, f) ==
    /\ n \in Bridges /\ ValidateUpdateBridgeRequest(FetchAddRemoveFromList(n, ports))
    /\ AskForOtherMembers(r, n, ports, f)

UpdateVlanInterface(r, n, f) ==
    /\ n \in Vlans /\ CheckInterfaceExists(n)
    /\ Begin(r, Asked("update", n, {}, {}, f, None, "fetching"))
    /\ UNCHANGED <<fileVars, kernelVars>>

AskToDelete(r, n) ==
    /\ CheckInterfaceExists(n)
    /\ Begin(r, Asked("delete", n, {}, {}, Plain, None, "removing"))
    /\ UNCHANGED <<fileVars, kernelVars>>

\* Neither a port of HA nor one in use by a link.
UpdatePhysicalInterface(r, p, a, f) ==
    /\ p \notin HaPorts /\ FetchAttachedTo(p) = {}
    /\ Begin(r, Asked("address", p, {}, {}, f, a, "addressing"))
    /\ UNCHANGED <<fileVars, kernelVars>>

-----------------------------------------------------------------------------
\* Mutant of Undoing: no bond is removed after a failure.
NeverUndoing(r) == FALSE

\* The deferred function of CreateBondedLink runs on every error after LinkAdd.
Undoing(r) == job[r].op = "create" /\ job[r].section = "bond"

\* A request that fails: bonds are removed first, the rest stays as it is.
Fail(r) == IF Undoing(r) THEN Goto(r, "undoing") ELSE Finish(r, "failed")

LinkAdd(r) ==
    LET n == job[r].name
        parents == job[r].add
        possible == /\ ~ CheckInterfaceExists(n)
                    /\ n \in Vlans => \A m \in parents : m \in Ports \/ CheckInterfaceExists(m)
    IN  /\ At(r, "adding")
        /\ \/ /\ possible
              /\ links' = links \cup {[name |-> n, by |-> r,
                            parent |-> IF n \in Vlans THEN CHOOSE m \in parents : TRUE ELSE None]}
              /\ Goto(r, IF n \in Vlans THEN "checking" ELSE "joining")
           \/ ~ possible /\ Finish(r, "failed") /\ UNCHANGED links
        /\ UNCHANGED <<fileVars, master, ip, faults>>

\* A bond takes free ports only; a bridge takes a port from its master.
Joinable(n, ports) == IF n \in Bonds THEN {p \in ports : master[p] = None} ELSE ports

\* The loop over the ports to add: it stops at the first that fails.
Join(r) ==
    LET n == job[r].name
        ports == job[r].add
        Joined(done) == master' = [p \in Ports |-> IF p \in done THEN n ELSE master[p]]
    IN  /\ At(r, "joining")
        /\ \/ /\ CheckInterfaceExists(n) /\ Joinable(n, ports) = ports
              /\ Joined(ports)
              /\ Goto(r, IF job[r].op = "create" THEN "checking" ELSE "leaving")
              /\ UNCHANGED faults
           \/ /\ CheckInterfaceExists(n) /\ Joinable(n, ports) # ports
              /\ \E done \in SUBSET Joinable(n, ports) : Joined(done)
              /\ Fail(r)
              /\ UNCHANGED faults
           \/ /\ CheckInterfaceExists(n) /\ faults < MaxFaults
              /\ \E done \in SUBSET Joinable(n, ports) : done # ports /\ Joined(done)
              /\ faults' = faults + 1
              /\ Fail(r)
           \/ ~ CheckInterfaceExists(n) /\ Fail(r) /\ UNCHANGED <<master, faults>>
        /\ UNCHANGED <<fileVars, links, ip>>

\* LinkDel by the index the link was given: not one made anew under its name.
Undo(r) ==
    LET n == job[r].name
        own == \E l \in links : l.name = n /\ l.by = r
    IN  /\ At(r, "undoing")
        /\ links' = IF own THEN WithoutLink(n) ELSE links
        /\ master' = IF own THEN Released(n) ELSE master
        /\ Finish(r, "failed")
        /\ UNCHANGED <<fileVars, ip, faults>>

\* The loop over the ports to remove: whatever master each has now.
Leave(r) ==
    /\ At(r, "leaving")
    /\ master' = [p \in Ports |-> IF p \in job[r].drop THEN None ELSE master[p]]
    /\ Goto(r, "fetching")
    /\ UNCHANGED <<fileVars, links, ip, faults>>

\* PerformIpDel: the old address goes before the new one is added.
SetAddress(r) ==
    LET p == job[r].name
    IN  /\ At(r, "addressing")
        /\ \/ ip' = [ip EXCEPT ![p] = job[r].ip] /\ Goto(r, "fetching") /\ UNCHANGED faults
           \/ /\ faults < MaxFaults /\ faults' = faults + 1
              /\ ip' = [ip EXCEPT ![p] = None] /\ Finish(r, "failed")
        /\ UNCHANGED <<fileVars, links, master>>

\* LinkDel takes the VLANs of the link with it and frees its ports.
LinkDel(r) ==
    LET n == job[r].name
    IN  /\ At(r, "removing")
        /\ IF CheckInterfaceExists(n)
           THEN links' = WithoutLink(n) /\ master' = Released(n) /\ Goto(r, "forgetting")
           ELSE Finish(r, "failed") /\ UNCHANGED <<links, master>>
        /\ UNCHANGED <<fileVars, ip, faults>>

-----------------------------------------------------------------------------
\* The fields the request is compared with; those of a bond are looked up
\* among the VLANs, where there are none.
FetchFields(r) ==
    LET section == IF job[r].section = "bond" THEN "vlan" ELSE job[r].section
    IN  /\ At(r, "fetching")
        /\ job' = [job EXCEPT ![r].old = FieldsOf(file[section], job[r].name), ![r].step = "checking"]
        /\ UNCHANGED <<contended, fileVars, kernelVars>>

CheckSection(r) ==
    /\ At(r, "checking")
    /\ job' = [job EXCEPT ![r].all = CheckIfInterfaceTypeIsEmpty(job[r].section), ![r].step = "listing"]
    /\ UNCHANGED <<contended, fileVars, kernelVars>>

\* An empty section is filled with every link of the kind, else one row.
ListLinks(r) ==
    LET n == job[r].name
    IN  /\ At(r, "listing") /\ job[r].op # "address"
        /\ IF job[r].all \/ CheckInterfaceExists(n)
           THEN /\ job' = [job EXCEPT ![r].step = "storing",
                                      ![r].rows = IF job[r].all THEN Listed(job[r].section)
                                                                ELSE <<Described(n)>>]
                /\ UNCHANGED contended
           ELSE Fail(r)
        /\ UNCHANGED <<fileVars, kernelVars>>

ListPorts(r) ==
    /\ At(r, "listing") /\ job[r].op = "address"
    /\ job' = [job EXCEPT ![r].step = "storing",
                          ![r].rows = IF job[r].all THEN ListedPorts ELSE <<DescribedPort(job[r].name)>>]
    /\ UNCHANGED <<contended, fileVars, kernelVars>>

\* The section as each of the three savers leaves it.
NewSection(r) ==
    LET j == job[r]
        rows == file[j.section]
    IN  CASE j.step = "storing" /\ j.op = "address" /\ j.all -> j.rows
          [] j.step = "storing" /\ ~ (j.op = "address" /\ j.all) -> Stored(rows, j.name, j.rows)
          [] j.step = "fielding" -> WithFields(rows, j.name, j.fields)
          [] j.step = "forgetting" -> Deleted(rows, j.name)

Savings == {"storing", "fielding", "forgetting"}

Save(r) ==
    /\ job[r].step \in Savings
    /\ ~ (At(r, "storing") /\ Panics(file[job[r].section], job[r].name, job[r].rows))
    /\ LockAndTruncate(r, job[r].section, NewSection(r))
    /\ UNCHANGED <<job, contended, kernelVars>>

\* The panic ends the request; err is nil then, so nothing is undone.
SavePanics(r) ==
    /\ lock = None /\ At(r, "storing")
    /\ Panics(file[job[r].section], job[r].name, job[r].rows)
    /\ Finish(r, "failed")
    /\ UNCHANGED <<fileVars, kernelVars>>

\* After the rows the fields, unless they are those found before.
FieldsDiffer(r) == job[r].op = "create" \/ job[r].fields # job[r].old
AfterStoring(r) == IF At(r, "storing") /\ FieldsDiffer(r) THEN Goto(r, "fielding") ELSE Finish(r, "ok")

SaveDone(r) ==
    /\ job[r].step \in Savings
    /\ WriteAndUnlock(r)
    /\ AfterStoring(r)
    /\ UNCHANGED kernelVars

\* The error is only printed for a deletion, for the fields of a new bridge or
\* VLAN, and when a port fills its empty section.
SaveTimesOut(r) ==
    /\ job[r].step \in Savings /\ LockTimedOut(r)
    /\ CASE At(r, "forgetting") -> Finish(r, "ok")
         [] At(r, "fielding") /\ job[r].op = "create" /\ job[r].section # "bond" -> Finish(r, "ok")
         [] At(r, "storing") /\ job[r].op = "address" /\ job[r].all -> AfterStoring(r)
         [] OTHER -> Fail(r)
    /\ UNCHANGED kernelVars

-----------------------------------------------------------------------------
ServeInterfaces(r) ==
    \/ LinkAdd(r) \/ Join(r) \/ Undo(r) \/ Leave(r) \/ SetAddress(r) \/ LinkDel(r)
    \/ FetchFields(r) \/ CheckSection(r) \/ ListLinks(r) \/ ListPorts(r)
    \/ Save(r) \/ SavePanics(r) \/ SaveDone(r) \/ SaveTimesOut(r)
=============================================================================
