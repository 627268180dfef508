------------------------------ MODULE Network ------------------------------
(***************************************************************************)
(* The interface and the routing requests over one file, with restarts of  *)
(* the program and reboots of the machine.                                 *)
(***************************************************************************)
EXTENDS Interfaces, Routing

CONSTANTS
    Menus,       \* bound: the sections whose requests a behaviour makes, the fields
                 \* they name, and the bond or bridge of each port at the start
    PortSets,    \* bound: the ports requests name for bonds and bridges
    Parents,     \* bound: what they name as the parent of a VLAN
    Address,     \* the address of each port at the start
    OldFields,   \* the fields of each row at the start
    MaxStops     \* bound on restarts and reboots

ASSUME NetAssumption ==
    /\ \A m \in Menus : m.masters \in [Ports -> Bonds \cup Bridges \cup {None}]
    /\ Address \in [Ports -> Ips] /\ MaxStops \in Nat

VARIABLES
    menu, stops,
    doubt      \* history: ports whose row may differ from the kernel, since a
               \* request for them failed or met another one

netVars == <<storeVars, kernelVars, routingVars, menu, stops, doubt>>

\* A setup the handlers have made: each link of the kernel has its row.
NetInit ==
    /\ menu \in Menus /\ stops = 0 /\ doubt = {}
    /\ master = menu.masters
    /\ links = {[name |-> n, by |-> None, parent |-> None] : n \in {master[p] : p \in Ports} \ {None}}
    /\ ip = Address /\ faults = 0
    /\ file = LET RowsOf(section) ==
                     LET own == SetToSeq({n \in Names : SectionOf(n) = section /\ CheckInterfaceExists(n)})
                     IN  [i \in DOMAIN own |-> [name |-> own[i], fields |-> OldFields,
                                                members |-> Members(own[i])]]
                  order == SetToSeq(Ports)
              IN  [EmptyFile EXCEPT !.bond = RowsOf("bond"), !.bridge = RowsOf("bridge"),
                     !.device = [i \in DOMAIN order |->
                                   [name |-> order[i], ip |-> ip[order[i]], fields |-> OldFields]]]
    /\ lock = None /\ save = None
    /\ job = [r \in Requests |-> [step |-> "unasked"]]
    /\ contended = {}
    /\ generator = [r \in Requests |-> NoGenerator] /\ zebra = {} /\ trusted = TRUE

-----------------------------------------------------------------------------
AskInterfaces(r) ==
    \/ \E n \in Bonds \cup Bridges, f \in menu.fields, ports \in PortSets : SectionOf(n) \in menu.sections /\
          \/ CreateBondedLink(r, n, ports, f) \/ UpdateBondInterface(r, n, ports, f)
          \/ CreateBridgeInterface(r, n, ports, f) \/ UpdateBridgeInterface(r, n, ports, f)
    \/ \E n \in Vlans, f \in menu.fields : "vlan" \in menu.sections /\
          (UpdateVlanInterface(r, n, f) \/ \E parent \in Parents : CreateVlanInterface(r, n, parent, f))
    \/ \E n \in Names : SectionOf(n) \in menu.sections /\ AskToDelete(r, n)
    \/ \E p \in Ports, a \in Ips, f \in menu.fields : "device" \in menu.sections /\ UpdatePhysicalInterface(r, p, a, f)

AskRoutes(r) ==
    \E x \in Routes : KindOf[x] \in menu.sections /\
        \/ CreateStaticRoute(r, x) \/ DeleteStaticRoute(r, x)
        \/ \E y \in Routes : UpdateStaticRoute(r, x, y)

-----------------------------------------------------------------------------
\* InitPhysicalInterfacesConfig: the ports of the kernel become the section.
InitPhysicalInterfacesConfig(addresses) ==
    LET order == SetToSeq(Ports)
    IN  file' = [file EXCEPT !.device = [i \in DOMAIN order |->
              [name |-> order[i], ip |-> addresses[order[i]], fields |-> FieldsOf(file.device, order[i])]]]

Stop ==
    /\ stops < MaxStops /\ stops' = stops + 1
    /\ lock' = None /\ save' = None
    /\ job' = [r \in Requests |-> IF r \in InFlight THEN [step |-> "killed"] ELSE job[r]]
    /\ contended' = {} /\ doubt' = {}
    /\ generator' = [r \in Requests |-> NoGenerator]
    /\ trusted' = (trusted /\ Generating = {} /\ ~ Torn)
    /\ UNCHANGED <<zebra, menu, faults>>

\* A change of an address restarts the program 5 s later; so may anything.
Restart ==
    /\ Stop
    /\ InitPhysicalInterfacesConfig(ip)
    /\ UNCHANGED <<links, master, ip>>

\* RestoreInterfaceSettings: the static addresses of the file, row after row,
\* until one cannot be set; that port is left without any.
RestoreInterfaceSettings(upTo) ==
    ip' = [p \in Ports |->
             LET i == RowOf(file.device, p)
             IN  IF i \in 1..upTo THEN file.device[i].ip ELSE None]

\* The virtual links and all addresses go with the kernel.
Reboot ==
    /\ Stop
    /\ links' = {} /\ master' = [p \in Ports |-> None]
    /\ \E upTo \in 0..Len(file.device) : RestoreInterfaceSettings(upTo)
    /\ InitPhysicalInterfacesConfig(ip')

-----------------------------------------------------------------------------
Serve(r) ==
    \/ (AskInterfaces(r) \/ ServeInterfaces(r)) /\ UNCHANGED routingVars
    \/ (AskRoutes(r) \/ ServeRoutes(r) \/ Generate(r)) /\ UNCHANGED kernelVars

\* The outcome of a request for the address of a port.
Doubted ==
    LET ended == {r \in InFlight : job[r].op = "address" /\ job'[r].step \in Ended}
        sound == {r \in ended \ contended : At(r, "ok")'}
    IN  doubt' = (doubt \cup {job[r].name : r \in ended}) \ {job[r].name : r \in sound}

NetNext ==
    \/ \E r \in Requests : Serve(r) /\ Doubted /\ UNCHANGED <<menu, stops>>
    \/ Restart \/ Reboot
NetSpec == NetInit /\ [][NetNext]_netVars

-----------------------------------------------------------------------------
(* Types of the parts that no other property covers. *)
NetTypeOK ==
    /\ DOMAIN file = Sections
    /\ Torn => lock \in InFlight /\ file = EmptyFile
    /\ contended \subseteq InFlight
    /\ master \in [Ports -> Bonds \cup Bridges \cup {None}]
    /\ \A p \in Ports : master[p] # None => CheckInterfaceExists(master[p])
    /\ \A k, l \in links : k.name = l.name => k = l
    /\ faults \in 0..MaxFaults /\ stops \in 0..MaxStops

RowsNamed(content, j) == {i \in DOMAIN content[j.section] : content[j.section][i].name = j.name}

\* What the file must say after a request that was served.
Recorded(j) ==
    LET rows == file[j.section]
        row == rows[RowOf(rows, j.name)]
    IN  IF j.section \in RouteKinds
        THEN j.op # "delete" <=> j.name \in RouteNames(rows)
        ELSE j.op # "delete" =>
             /\ RowOf(rows, j.name) # 0
             /\ IF j.section = "device" THEN row.ip = ip[j.name] /\ ip[j.name] = j.ip
                                        ELSE row.members = Members(j.name)
             /\ \/ row.fields = j.fields
                \/ j.section = "bond" /\ j.op = "update" /\ j.fields = Plain

\* What the request did not name stays, and of what it deletes one row goes.
Kept(j, before) ==
    IF j.section \in RouteKinds
    THEN RouteNames(before[j.section]) \ {j.old} \subseteq RouteNames(file[j.section])
    ELSE j.op = "delete" => Cardinality(RowsNamed(file, j)) < Cardinality(RowsNamed(before, j)) + 
                               (IF RowsNamed(before, j) = {} THEN 1 ELSE 0)

(* A request that met no other one and is answered with success has left the  *)
(* file in agreement with the kernel for what it named, and has lost no other *)
(* route: whatever earlier races, failures, restarts and reboots have left in *)
(* the file and the kernel.  The fields of a bond are the exception the code  *)
(* makes: cleared fields are compared with those of a VLAN and stay.          *)
AloneIsRecorded ==
    [][\A r \in InFlight \ contended :
         \A j \in {job[r]}, before \in {IF Torn THEN save.was ELSE file} :
            At(r, "ok")' => Recorded(j)' /\ Kept(j, before)']_netVars

(* A creation of a bond that was answered with an error has left no bond: the *)
(* deferred deletion runs on every error after the link was added, also when  *)
(* another request has removed the link and made it anew in the meantime.     *)
FailedBondIsUndone ==
    \A l \in links : l.name \in Bonds /\ l.by # None => ~ At(l.by, "failed")

(* A reboot never brings back an address that was replaced: a port comes up  *)
(* with the one it had or, when the file was being written or a restore step *)
(* failed, with none.  Exceptions are ports with a request under way and     *)
(* those whose last request failed or met another one.                       *)
NoOldAddress ==
    [][stops' # stops =>
         \A p \in Ports \ (doubt \cup {job[r].name : r \in InFlight}) :
            ip'[p] \in {ip[p], None}]_netVars

(* Once no generator is left, zebra.conf has the IPv4 routes of the file: a   *)
(* difference needs generators that overlapped, one that read the file while  *)
(* it was being written, or a stop of the program.                            *)
ZebraIsCurrent ==
    trusted /\ Generating = {} /\ ~ Torn => zebra = DumpedRoutes(file)
=============================================================================
