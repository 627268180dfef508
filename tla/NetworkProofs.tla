--------------------------- MODULE NetworkProofs ---------------------------
(***************************************************************************)
(* Theorems about NetSpec: what its requests, the lock of the file and the *)
(* goroutines that write zebra.conf keep true for every number of ports,   *)
(* links, routes and requests.                                             *)
(*                                                                         *)
(* RequestInv says what a request carries at each of its steps, which of   *)
(* them hold the lock, and which of them have met another one.  On it rest *)
(* four invariants that do not need each other: ZebraInv, KernelInv,       *)
(* BondInv and AddressInv.                                                 *)
(***************************************************************************)
EXTENDS Network, TLAPS, FiniteSetTheorems, WellFoundedInduction

LinkSections == {"device", "bond", "bridge", "vlan"}
JobFields == {"op", "name", "section", "fields", "add", "drop", "ip", "old", "all", "rows", "step"}
LinkSteps == {"adding", "joining", "undoing", "leaving", "addressing", "removing",
              "fetching", "checking", "listing"} \cup Savings

\* What a request about links and ports carries on its way.
LinkJobOK(j) ==
    /\ DOMAIN j = JobFields
    /\ j.step \in LinkSteps
    /\ j.section = SectionOf(j.name) /\ j.section \in LinkSections
    /\ j.section = "device" <=> j.op = "address"
    /\ j.op = "address" => j.name \in Ports
    /\ j.op # "address" => j.name \in Names
    /\ j.step = "adding" => j.op = "create"
    /\ j.step = "joining" => j.name \in Bonds \cup Bridges
    /\ j.step = "addressing" => j.op = "address"
    /\ j.step \in {"removing", "forgetting"} => j.op = "delete"

RouteJobOK(j) == j.section \in RouteKinds /\ j.op # "address"

JobOK(j) ==
    /\ j = [x \in DOMAIN j |-> j[x]] /\ "step" \in DOMAIN j
    /\ j.step = "routing" => RouteJobOK(j)
    /\ j.step \notin Ended \cup {"routing"} => LinkJobOK(j)

\* A request that has met no other one is the only one in flight.
RequestsOK ==
    /\ job = [r \in Requests |-> job[r]]
    /\ \A r \in Requests : JobOK(job[r])
    /\ contended \subseteq InFlight
    /\ \A r \in InFlight : r \notin contended => InFlight = {r}

IsFile(content) == content = [s \in Sections |-> content[s]]

\* The lock is held from the read of the file to the end of the write.
FileOK ==
    /\ IsFile(file)
    /\ lock \in Requests \cup {None}
    /\ Torn => /\ file = EmptyFile /\ IsFile(save.was) /\ IsFile(save.next)
               /\ job[lock].step \in Savings \cup {"routing"}

RequestInv == RequestsOK /\ FileOK

-----------------------------------------------------------------------------
\* What one step does to the requests.
Moved(r) ==
    \/ \E j : JobOK(j) /\ j.step \notin Ended /\ Begin(r, j)
    \/ /\ r \in InFlight /\ UNCHANGED contended
       /\ \E j : /\ JobOK(j) /\ j.step \notin Ended /\ job' = [job EXCEPT ![r] = j]
                 /\ j.op = job[r].op /\ j.name = job[r].name
    \/ r \in InFlight /\ \E result \in Ended : Finish(r, result)
    \/ UNCHANGED <<job, contended>>

LEMMA EndedJob ==
    ASSUME NEW result \in Ended
    PROVE  JobOK([step |-> result])
BY DEF JobOK, Ended

LEMMA MovedRequests ==
    ASSUME RequestsOK, NEW r \in Requests, Moved(r)
    PROVE  RequestsOK' /\ \A s \in Requests : s # r => job'[s] = job[s]
<1>1. CASE \E j : JobOK(j) /\ j.step \notin Ended /\ Begin(r, j)
  <2>1. PICK j : JobOK(j) /\ j.step \notin Ended /\ Begin(r, j)
    BY <1>1
  <2>2. job' = [s \in Requests |-> IF s = r THEN j ELSE job[s]]
    BY <2>1 DEF Begin, RequestsOK
  <2>3. InFlight' = InFlight \cup {r}
    BY <2>1, <2>2 DEF InFlight
  <2>4. contended' = IF InFlight = {} THEN {} ELSE InFlight \cup {r}
    BY <2>1 DEF Begin
  <2>5. \A s \in InFlight' : s \notin contended' => InFlight' = {s}
    BY <2>3, <2>4
  <2>. QED
    BY <2>1, <2>2, <2>3, <2>4, <2>5 DEF RequestsOK
<1>2. CASE /\ r \in InFlight /\ UNCHANGED contended
           /\ \E j : /\ JobOK(j) /\ j.step \notin Ended /\ job' = [job EXCEPT ![r] = j]
                     /\ j.op = job[r].op /\ j.name = job[r].name
  <2>1. PICK j : JobOK(j) /\ j.step \notin Ended /\ job' = [job EXCEPT ![r] = j]
    BY <1>2
  <2>2. job' = [s \in Requests |-> IF s = r THEN j ELSE job[s]]
    BY <2>1 DEF RequestsOK
  <2>3. InFlight' = InFlight
    BY <1>2, <2>1, <2>2 DEF InFlight
  <2>. QED
    BY <1>2, <2>1, <2>2, <2>3 DEF RequestsOK
<1>3. CASE r \in InFlight /\ \E result \in Ended : Finish(r, result)
  <2>1. PICK result \in Ended : Finish(r, result)
    BY <1>3
  <2>2. job' = [s \in Requests |-> IF s = r THEN [step |-> result] ELSE job[s]]
    BY <2>1 DEF Finish, RequestsOK
  <2>3. InFlight' = InFlight \ {r} /\ contended' = contended \ {r}
    BY <2>1, <2>2 DEF InFlight, Finish
  <2>4. JobOK([step |-> result])
    BY EndedJob
  <2>. QED
    BY <1>3, <2>2, <2>3, <2>4 DEF RequestsOK
<1>4. CASE UNCHANGED <<job, contended>>
  BY <1>4 DEF RequestsOK, InFlight
<1>. QED
  BY <1>1, <1>2, <1>3, <1>4 DEF Moved

\* Goto and EXCEPT change the step, and what they name, of a request.
LEMMA GotoMoves ==
    ASSUME RequestsOK, NEW r \in Requests, NEW step, step \in LinkSteps, Goto(r, step),
           LinkJobOK(job[r]), step \notin {"adding", "addressing"},
           step = "joining" => job[r].name \in Bonds \cup Bridges,
           step \in {"removing", "forgetting"} => job[r].op = "delete"
    PROVE  Moved(r)
<1>. DEFINE j == [job[r] EXCEPT !.step = step]
<1>1. job[r] = [x \in DOMAIN job[r] |-> job[r][x]] /\ DOMAIN job[r] = JobFields
  BY DEF RequestsOK, JobOK, LinkJobOK
<1>2. j = [x \in JobFields |-> IF x = "step" THEN step ELSE job[r][x]]
  BY <1>1
<1>3. job' = [job EXCEPT ![r] = j] /\ UNCHANGED contended
  BY DEF Goto
<1>4. j.step = step /\ j.op = job[r].op /\ j.name = job[r].name /\ j.section = job[r].section
  BY <1>2 DEF JobFields
<1>5. DOMAIN j = JobFields /\ j = [x \in DOMAIN j |-> j[x]] /\ "step" \in DOMAIN j
  BY <1>2 DEF JobFields
<1>6. step \notin Ended /\ step # "routing" /\ r \in InFlight
  BY DEF LinkSteps, Savings, Ended, LinkJobOK, InFlight
<1>. HIDE DEF j
<1>7. LinkJobOK(j)
  BY <1>4, <1>5 DEF LinkJobOK
<1>. QED
  BY <1>3, <1>4, <1>5, <1>6, <1>7 DEF Moved, JobOK

LEMMA FinishMoves ==
    ASSUME NEW r \in Requests, r \in InFlight, NEW result \in Ended, Finish(r, result)
    PROVE  Moved(r)
BY DEF Moved

LEMMA FailMoves ==
    ASSUME RequestsOK, NEW r \in Requests, Fail(r), r \in InFlight, LinkJobOK(job[r])
    PROVE  Moved(r)
<1>1. CASE Undoing(r)
  <2>1. Goto(r, "undoing")
    BY <1>1 DEF Fail
  <2>. QED
    BY <2>1, GotoMoves DEF LinkSteps
<1>2. CASE ~ Undoing(r)
  <2>1. Finish(r, "failed")
    BY <1>2 DEF Fail
  <2>. QED
    BY <2>1, FinishMoves DEF Ended
<1>. QED
  BY <1>1, <1>2

\* The names of links are no ports, and each kind of name has its section.
LEMMA NameSections ==
    /\ \A p \in Ports : SectionOf(p) = "device"
    /\ \A n \in Names : SectionOf(n) \in {"bond", "bridge", "vlan"}
    /\ \A n : SectionOf(n) = "bond" <=> n \in Bonds
    /\ \A n : SectionOf(n) = "bridge" => n \in Bridges
    /\ \A n : SectionOf(n) = "vlan" => n \in Vlans
BY KernelAssumption DEF SectionOf, Names

\* The first step of each kind of request.
StartsAs(op, n, step) ==
    /\ IF op = "address" THEN n \in Ports ELSE n \in Names
    /\ \/ step = "adding" /\ op = "create"
       \/ step = "joining" /\ n \in Bonds \cup Bridges
       \/ step = "addressing" /\ op = "address"
       \/ step = "removing" /\ op = "delete"
       \/ step = "fetching"

LEMMA AskedOK ==
    ASSUME NEW op, NEW n, NEW add, NEW drop, NEW fields, NEW address, NEW step,
           StartsAs(op, n, step)
    PROVE  /\ JobOK(Asked(op, n, add, drop, fields, address, step))
           /\ Asked(op, n, add, drop, fields, address, step).step = step
<1>1. SectionOf(n) \in LinkSections /\ (SectionOf(n) = "device" <=> op = "address")
  BY NameSections DEF LinkSections, StartsAs
<1>2. step \in LinkSteps /\ step \notin Ended /\ step # "routing"
  BY DEF LinkSteps, Ended, StartsAs
<1>. DEFINE j == Asked(op, n, add, drop, fields, address, step)
<1>3. /\ DOMAIN j = JobFields /\ j = [x \in DOMAIN j |-> j[x]] /\ "step" \in DOMAIN j
      /\ j.step = step /\ j.op = op /\ j.name = n /\ j.section = SectionOf(n)
  BY DEF Asked, JobFields
<1>. HIDE DEF j
<1>4. JobOK(j) /\ j.step = step
  BY <1>1, <1>2, <1>3 DEF JobOK, LinkJobOK, StartsAs
<1>. QED
  BY <1>4 DEF j

\* A request that is accepted: it starts, and changes nothing yet.
Accepted(r) ==
    /\ Moved(r) /\ At(r, "unasked") /\ UNCHANGED <<fileVars, kernelVars>>
    /\ \E op, n, add, drop, f, a, step :
          /\ step \in {"adding", "joining", "addressing", "removing", "fetching"}
          /\ Begin(r, Asked(op, n, add, drop, f, a, step))

LEMMA AskMoves ==
    ASSUME RequestsOK, NEW r \in Requests, AskInterfaces(r)
    PROVE  Accepted(r)
<1>0. ASSUME NEW op, NEW n, NEW add, NEW drop, NEW f, NEW a, NEW step,
             StartsAs(op, n, step),
             UNCHANGED <<fileVars, kernelVars>>,
             Begin(r, Asked(op, n, add, drop, f, a, step))
      PROVE  Accepted(r)
  <2>. DEFINE j == Asked(op, n, add, drop, f, a, step)
  <2>1. JobOK(j) /\ j.step = step
    BY <1>0, AskedOK
  <2>2. step \notin Ended
    BY <1>0 DEF Ended, StartsAs
  <2>3. Begin(r, j)
    BY <1>0
  <2>4. At(r, "unasked")
    BY <2>3 DEF Begin
  <2>. HIDE DEF j
  <2>5. Moved(r)
    BY <2>1, <2>2, <2>3 DEF Moved
  <2>. QED
    BY <1>0, <2>4, <2>5 DEF Accepted, StartsAs
<1>1. ASSUME NEW n \in Bonds \cup Bridges, NEW f, NEW ports, AskForMembers(r, n, ports, f)
      PROVE  Accepted(r)
  <2>1. Begin(r, Asked("create", n, ports, {}, f, None, "adding"))
    BY <1>1 DEF AskForMembers
  <2>2. StartsAs("create", n, "adding") /\ UNCHANGED <<fileVars, kernelVars>>
    BY <1>1 DEF StartsAs, Names, AskForMembers
  <2>. QED
    BY <1>0, <2>1, <2>2
<1>2. ASSUME NEW n \in Bonds \cup Bridges, NEW f, NEW ports, AskForOtherMembers(r, n, ports, f)
      PROVE  Accepted(r)
  <2>. DEFINE change == FetchAddRemoveFromList(n, ports)
  <2>1. Begin(r, Asked("update", n, change.add, change.drop, f, None, "joining"))
    BY <1>2 DEF AskForOtherMembers
  <2>2. StartsAs("update", n, "joining") /\ UNCHANGED <<fileVars, kernelVars>>
    BY <1>2 DEF StartsAs, Names, AskForOtherMembers
  <2>. QED
    BY <1>0, <2>1, <2>2
<1>3. ASSUME NEW n \in Vlans, NEW f, NEW parent, CreateVlanInterface(r, n, parent, f)
      PROVE  Accepted(r)
  <2>1. Begin(r, Asked("create", n, {parent}, {}, f, None, "adding"))
    BY <1>3 DEF CreateVlanInterface
  <2>2. StartsAs("create", n, "adding") /\ UNCHANGED <<fileVars, kernelVars>>
    BY <1>3 DEF StartsAs, Names, CreateVlanInterface
  <2>. QED
    BY <1>0, <2>1, <2>2
<1>4. ASSUME NEW n \in Vlans, NEW f, UpdateVlanInterface(r, n, f)
      PROVE  Accepted(r)
  <2>1. Begin(r, Asked("update", n, {}, {}, f, None, "fetching"))
    BY <1>4 DEF UpdateVlanInterface
  <2>2. StartsAs("update", n, "fetching") /\ UNCHANGED <<fileVars, kernelVars>>
    BY <1>4 DEF StartsAs, Names, UpdateVlanInterface
  <2>. QED
    BY <1>0, <2>1, <2>2
<1>5. ASSUME NEW n \in Names, AskToDelete(r, n)
      PROVE  Accepted(r)
  <2>1. Begin(r, Asked("delete", n, {}, {}, Plain, None, "removing"))
    BY <1>5 DEF AskToDelete
  <2>2. StartsAs("delete", n, "removing") /\ UNCHANGED <<fileVars, kernelVars>>
    BY <1>5 DEF StartsAs, Names, AskToDelete
  <2>. QED
    BY <1>0, <2>1, <2>2
<1>6. ASSUME NEW p \in Ports, NEW a, NEW f, UpdatePhysicalInterface(r, p, a, f)
      PROVE  Accepted(r)
  <2>1. Begin(r, Asked("address", p, {}, {}, f, a, "addressing"))
    BY <1>6 DEF UpdatePhysicalInterface
  <2>2. StartsAs("address", p, "addressing") /\ UNCHANGED <<fileVars, kernelVars>>
    BY <1>6 DEF StartsAs, UpdatePhysicalInterface
  <2>. QED
    BY <1>0, <2>1, <2>2
<1>7. ASSUME NEW n \in Bonds \cup Bridges, NEW f, NEW ports,
             \/ CreateBondedLink(r, n, ports, f) \/ UpdateBondInterface(r, n, ports, f)
             \/ CreateBridgeInterface(r, n, ports, f) \/ UpdateBridgeInterface(r, n, ports, f)
      PROVE  AskForMembers(r, n, ports, f) \/ AskForOtherMembers(r, n, ports, f)
  BY <1>7 DEF CreateBondedLink, UpdateBondInterface, CreateBridgeInterface, UpdateBridgeInterface
<1>. QED
  BY <1>1, <1>2, <1>3, <1>4, <1>5, <1>6, <1>7 DEF AskInterfaces

-----------------------------------------------------------------------------
LEMMA InFlightLink ==
    ASSUME RequestsOK, NEW r \in Requests, job[r].step \in LinkSteps
    PROVE  r \in InFlight /\ LinkJobOK(job[r])
BY DEF RequestsOK, JobOK, InFlight, LinkSteps, Savings, Ended

\* A step that reads something into the record of a request.
LEMMA ReadMoves ==
    ASSUME RequestsOK, NEW r \in Requests, job[r].step \in LinkSteps, NEW j,
           j = [x \in JobFields |-> j[x]],
           \A x \in JobFields \ {"old", "all", "rows", "step"} : j[x] = job[r][x],
           j.step \in {"checking", "listing", "storing"},
           job' = [job EXCEPT ![r] = j], UNCHANGED contended
    PROVE  Moved(r)
<1>1. r \in InFlight /\ LinkJobOK(job[r])
  BY InFlightLink
<1>2. DOMAIN j = JobFields /\ "step" \in DOMAIN j /\ j = [x \in DOMAIN j |-> j[x]]
  BY DEF JobFields
<1>3. j.op = job[r].op /\ j.name = job[r].name /\ j.section = job[r].section
  BY DEF JobFields
<1>4. LinkJobOK(j)
  BY <1>1, <1>2, <1>3 DEF LinkJobOK, LinkSteps, Savings
<1>5. j.step \notin Ended /\ j.step # "routing"
  BY DEF Ended
<1>. QED
  BY <1>1, <1>2, <1>3, <1>4, <1>5 DEF Moved, JobOK

\* The three steps that read, as changes of the record.
LEMMA ReadSteps ==
    ASSUME RequestsOK, NEW r \in Requests, FetchFields(r) \/ CheckSection(r) \/ ListPorts(r)
    PROVE  Moved(r)
<1>1. CASE FetchFields(r)
  <2>. DEFINE old == FieldsOf(file[IF job[r].section = "bond" THEN "vlan" ELSE job[r].section],
                              job[r].name)
              j == [job[r] EXCEPT !.old = old, !.step = "checking"]
  <2>1. job[r].step \in LinkSteps /\ UNCHANGED contended /\ job' = [job EXCEPT ![r] = j]
    BY <1>1 DEF FetchFields, At, LinkSteps, RequestsOK
  <2>2. DOMAIN job[r] = JobFields
    BY <2>1, InFlightLink DEF LinkJobOK
  <2>3. j = [x \in JobFields |-> j[x]] /\ j.step = "checking"
    BY <2>2 DEF JobFields
  <2>4. \A x \in JobFields \ {"old", "all", "rows", "step"} : j[x] = job[r][x]
    BY <2>2
  <2>. HIDE DEF j
  <2>. QED
    BY <2>1, <2>3, <2>4, ReadMoves
<1>2. CASE CheckSection(r)
  <2>. DEFINE all == CheckIfInterfaceTypeIsEmpty(job[r].section)
              j == [job[r] EXCEPT !.all = all, !.step = "listing"]
  <2>1. job[r].step \in LinkSteps /\ UNCHANGED contended /\ job' = [job EXCEPT ![r] = j]
    BY <1>2 DEF CheckSection, At, LinkSteps, RequestsOK
  <2>2. DOMAIN job[r] = JobFields
    BY <2>1, InFlightLink DEF LinkJobOK
  <2>3. j = [x \in JobFields |-> j[x]] /\ j.step = "listing"
    BY <2>2 DEF JobFields
  <2>4. \A x \in JobFields \ {"old", "all", "rows", "step"} : j[x] = job[r][x]
    BY <2>2
  <2>. HIDE DEF j
  <2>. QED
    BY <2>1, <2>3, <2>4, ReadMoves
<1>3. CASE ListPorts(r)
  <2>. DEFINE rows == IF job[r].all THEN ListedPorts ELSE <<DescribedPort(job[r].name)>>
              j == [job[r] EXCEPT !.step = "storing", !.rows = rows]
  <2>1. job[r].step \in LinkSteps /\ UNCHANGED contended /\ job' = [job EXCEPT ![r] = j]
    BY <1>3 DEF ListPorts, At, LinkSteps, RequestsOK
  <2>2. DOMAIN job[r] = JobFields
    BY <2>1, InFlightLink DEF LinkJobOK
  <2>3. j = [x \in JobFields |-> j[x]] /\ j.step = "storing"
    BY <2>2 DEF JobFields
  <2>4. \A x \in JobFields \ {"old", "all", "rows", "step"} : j[x] = job[r][x]
    BY <2>2
  <2>. HIDE DEF j
  <2>. QED
    BY <2>1, <2>3, <2>4, ReadMoves
<1>. QED
  BY <1>1, <1>2, <1>3

LEMMA ListingMoves ==
    ASSUME RequestsOK, NEW r \in Requests, ListLinks(r)
    PROVE  Moved(r)
<1>1. job[r].step \in LinkSteps
  BY DEF ListLinks, At, LinkSteps
<1>2. CASE Fail(r)
  BY <1>1, <1>2, FailMoves, InFlightLink
<1>3. CASE ~ Fail(r)
  <2>. DEFINE rows == IF job[r].all THEN Listed(job[r].section) ELSE <<Described(job[r].name)>>
              j == [job[r] EXCEPT !.step = "storing", !.rows = rows]
  <2>1. UNCHANGED contended /\ job' = [job EXCEPT ![r] = j]
    BY <1>3 DEF ListLinks, RequestsOK
  <2>2. DOMAIN job[r] = JobFields
    BY <1>1, InFlightLink DEF LinkJobOK
  <2>3. j = [x \in JobFields |-> j[x]] /\ j.step = "storing"
    BY <2>2 DEF JobFields
  <2>4. \A x \in JobFields \ {"old", "all", "rows", "step"} : j[x] = job[r][x]
    BY <2>2
  <2>. HIDE DEF j
  <2>. QED
    BY <1>1, <2>1, <2>3, <2>4, ReadMoves
<1>. QED
  BY <1>2, <1>3

\* The steps of a request other than reads and saves.
LEMMA KernelMoves ==
    ASSUME RequestsOK, NEW r \in Requests,
           LinkAdd(r) \/ Join(r) \/ Undo(r) \/ Leave(r) \/ SetAddress(r) \/ LinkDel(r)
    PROVE  Moved(r)
<1>1. job[r].step \in LinkSteps \ Savings
  BY DEF LinkAdd, Join, Undo, Leave, SetAddress, LinkDel, At, LinkSteps, Savings
<1>2. r \in InFlight /\ LinkJobOK(job[r])
  BY <1>1, InFlightLink
<1>3. ASSUME NEW step \in {"joining", "checking", "leaving", "fetching", "forgetting"}, Goto(r, step),
             step = "joining" => job[r].name \in Bonds \cup Bridges,
             step = "forgetting" => job[r].op = "delete"
      PROVE  Moved(r)
  <2>1. step \in LinkSteps /\ step \notin {"adding", "addressing", "removing"}
    BY DEF LinkSteps, Savings
  <2>. QED
    BY <1>2, <1>3, <2>1, GotoMoves
<1>4. ASSUME Finish(r, "failed") PROVE Moved(r)
  BY <1>2, <1>4, FinishMoves DEF Ended
<1>5. ASSUME Fail(r) PROVE Moved(r)
  BY <1>2, <1>5, FailMoves
<1>6. CASE LinkAdd(r)
  <2>1. job[r].op = "create" /\ job[r].name \in Names
    BY <1>2, <1>6 DEF LinkAdd, At, LinkJobOK
  <2>2. Finish(r, "failed") \/ Goto(r, IF job[r].name \in Vlans THEN "checking" ELSE "joining")
    BY <1>6 DEF LinkAdd
  <2>. QED
    BY <1>3, <1>4, <2>1, <2>2 DEF Names
<1>7. CASE Join(r)
  <2>1. Fail(r) \/ Goto(r, "checking") \/ Goto(r, "leaving")
    BY <1>7 DEF Join
  <2>. QED
    BY <1>3, <1>5, <2>1
<1>8. CASE Undo(r)
  BY <1>4, <1>8 DEF Undo
<1>9. CASE Leave(r)
  BY <1>3, <1>9 DEF Leave
<1>10. CASE SetAddress(r)
  <2>1. Finish(r, "failed") \/ Goto(r, "fetching")
    BY <1>10 DEF SetAddress
  <2>. QED
    BY <1>3, <1>4, <2>1
<1>11. CASE LinkDel(r)
  <2>1. At(r, "removing") /\ (Finish(r, "failed") \/ Goto(r, "forgetting"))
    BY <1>11 DEF LinkDel
  <2>2. job[r].op = "delete"
    BY <1>2, <2>1 DEF At, LinkJobOK
  <2>. QED
    BY <1>3, <1>4, <2>1, <2>2
<1>. QED
  BY <1>6, <1>7, <1>8, <1>9, <1>10, <1>11

LEMMA SaveMoves ==
    ASSUME RequestsOK, NEW r \in Requests,
           Save(r) \/ SavePanics(r) \/ SaveDone(r) \/ SaveTimesOut(r)
    PROVE  Moved(r)
<1>1. job[r].step \in Savings
  BY DEF Save, SavePanics, SaveDone, SaveTimesOut, At, Savings
<1>2. r \in InFlight /\ LinkJobOK(job[r])
  BY <1>1, InFlightLink DEF LinkSteps
<1>3. ASSUME NEW result \in Ended, Finish(r, result) PROVE Moved(r)
  BY <1>2, <1>3, FinishMoves
<1>4. ASSUME AfterStoring(r) PROVE Moved(r)
  <2>1. Goto(r, "fielding") \/ Finish(r, "ok")
    BY <1>4 DEF AfterStoring
  <2>2. "fielding" \in LinkSteps /\ "fielding" \notin {"adding", "addressing", "removing", "forgetting"}
    BY DEF LinkSteps, Savings
  <2>. QED
    BY <1>2, <1>3, <2>1, <2>2, GotoMoves DEF Ended
<1>5. ASSUME Fail(r) PROVE Moved(r)
  BY <1>2, <1>5, FailMoves
<1>6. CASE Save(r)
  BY <1>6 DEF Save, Moved
<1>7. CASE SavePanics(r)
  BY <1>3, <1>7 DEF SavePanics, Ended
<1>8. CASE SaveDone(r)
  BY <1>4, <1>8 DEF SaveDone
<1>9. CASE SaveTimesOut(r)
  <2>1. Finish(r, "ok") \/ AfterStoring(r) \/ Fail(r)
    BY <1>9 DEF SaveTimesOut
  <2>. QED
    BY <1>3, <1>4, <1>5, <2>1 DEF Ended
<1>. QED
  BY <1>6, <1>7, <1>8, <1>9

LEMMA RouteMoves ==
    ASSUME RequestsOK, NEW r \in Requests, AskRoutes(r) \/ ServeRoutes(r) \/ Generate(r)
    PROVE  Moved(r)
<1>1. ASSUME NEW op, op # "address", NEW old, NEW x \in Routes, NEW rows,
             Begin(r, RouteJob(op, old, x, rows))
      PROVE  Moved(r)
  <2>. DEFINE j == RouteJob(op, old, x, rows)
  <2>1. /\ DOMAIN j = {"op", "old", "name", "section", "rows", "step"}
        /\ j = [z \in DOMAIN j |-> j[z]]
        /\ j.op = op /\ j.section = KindOf[x] /\ j.step = "routing"
    BY DEF RouteJob
  <2>2. KindOf[x] \in RouteKinds
    BY RoutingAssumption
  <2>. HIDE DEF j
  <2>3. JobOK(j) /\ j.step \notin Ended
    BY <1>1, <2>1, <2>2 DEF JobOK, RouteJobOK, Ended
  <2>. QED
    BY <1>1, <2>3 DEF Moved, j
<1>2. CASE AskRoutes(r)
  <2>1. PICK x \in Routes : \/ CreateStaticRoute(r, x) \/ DeleteStaticRoute(r, x)
                            \/ \E y \in Routes : UpdateStaticRoute(r, x, y)
    BY <1>2 DEF AskRoutes
  <2>2. CASE CreateStaticRoute(r, x)
    BY <1>1, <2>2 DEF CreateStaticRoute
  <2>3. CASE DeleteStaticRoute(r, x)
    BY <1>1, <2>3 DEF DeleteStaticRoute
  <2>4. CASE \E y \in Routes : UpdateStaticRoute(r, x, y)
    BY <1>1, <2>4 DEF UpdateStaticRoute
  <2>. QED
    BY <2>1, <2>2, <2>3, <2>4
<1>3. CASE ServeRoutes(r)
  <2>1. CASE UpdateStaticRouteConfig(r)
    BY <2>1 DEF UpdateStaticRouteConfig, Moved
  <2>2. CASE StoreRoutes(r) \/ RoutesTimeOut(r)
    <3>1. r \in InFlight
      BY <2>2 DEF StoreRoutes, RoutesTimeOut, At, InFlight, Ended
    <3>2. Finish(r, "ok") \/ Finish(r, "failed")
      BY <2>2 DEF StoreRoutes, RoutesTimeOut
    <3>. QED
      BY <3>1, <3>2, FinishMoves DEF Ended
  <2>. QED
    BY <1>3, <2>1, <2>2 DEF ServeRoutes
<1>4. CASE Generate(r)
  BY <1>4 DEF Generate, FetchRouteConfig, WriteZebra, storeVars, Moved
<1>. QED
  BY <1>2, <1>3, <1>4

LEMMA ServeMoves ==
    ASSUME RequestsOK, NEW r \in Requests, Serve(r)
    PROVE  Moved(r)
<1>1. CASE AskInterfaces(r)
  BY <1>1, AskMoves DEF Accepted
<1>2. CASE ServeInterfaces(r)
  BY <1>2, KernelMoves, ReadSteps, ListingMoves, SaveMoves DEF ServeInterfaces
<1>3. CASE AskRoutes(r) \/ ServeRoutes(r) \/ Generate(r)
  BY <1>3, RouteMoves
<1>. QED
  BY <1>1, <1>2, <1>3 DEF Serve

\* The file and its lock in one step: only the holder of the lock moves it.
Quiet(r) == UNCHANGED fileVars /\ (lock # r \/ UNCHANGED job)

LEMMA AskQuiet ==
    ASSUME RequestInv, NEW r \in Requests, AskInterfaces(r) \/ AskRoutes(r)
    PROVE  Quiet(r)
<1>1. At(r, "unasked") /\ UNCHANGED fileVars
  <2>1. CASE AskInterfaces(r)
    BY <2>1, AskMoves DEF Accepted, RequestInv
  <2>2. CASE AskRoutes(r)
    BY <2>2 DEF AskRoutes, CreateStaticRoute, DeleteStaticRoute, UpdateStaticRoute, Begin
  <2>. QED
    BY <2>1, <2>2
<1>2. lock # r
  BY <1>1, StoreAssumption DEF RequestInv, FileOK, Torn, At, Savings
<1>. QED
  BY <1>1, <1>2 DEF Quiet

LEMMA StepQuiet ==
    ASSUME RequestInv, NEW r \in Requests, ServeInterfaces(r), ~ Save(r), ~ SaveDone(r)
    PROVE  Quiet(r)
<1>1. CASE SavePanics(r) \/ SaveTimesOut(r)
  <2>1. UNCHANGED fileVars /\ lock # r
    BY <1>1, StoreAssumption DEF SavePanics, SaveTimesOut, LockTimedOut
  <2>. QED
    BY <2>1 DEF Quiet
<1>2. CASE ~ (SavePanics(r) \/ SaveTimesOut(r))
  <2>1. UNCHANGED fileVars /\ job[r].step \notin Savings \cup {"routing"}
    <3>1. \/ LinkAdd(r) \/ Join(r) \/ Undo(r) \/ Leave(r) \/ SetAddress(r) \/ LinkDel(r)
          \/ FetchFields(r) \/ CheckSection(r) \/ ListLinks(r) \/ ListPorts(r)
      BY <1>2 DEF ServeInterfaces
    <3>2. UNCHANGED fileVars
      BY <3>1 DEF LinkAdd, Join, Undo, Leave, SetAddress, LinkDel, FetchFields, CheckSection,
                  ListLinks, ListPorts
    <3>3. job[r].step \notin Savings \cup {"routing"}
      BY <3>1 DEF LinkAdd, Join, Undo, Leave, SetAddress, LinkDel, FetchFields, CheckSection,
                  ListLinks, ListPorts, At, Savings
    <3>. QED
      BY <3>2, <3>3
  <2>2. lock # r
    BY <2>1, StoreAssumption DEF RequestInv, FileOK, Torn
  <2>. QED
    BY <2>1, <2>2 DEF Quiet
<1>. QED
  BY <1>1, <1>2

LEMMA RoutesQuiet ==
    ASSUME RequestInv, NEW r \in Requests, ServeRoutes(r) \/ Generate(r),
           ~ UpdateStaticRouteConfig(r), ~ StoreRoutes(r)
    PROVE  Quiet(r)
<1>1. CASE RoutesTimeOut(r)
  BY <1>1 DEF RoutesTimeOut, LockTimedOut, Quiet
<1>2. CASE Generate(r)
  BY <1>2 DEF Generate, FetchRouteConfig, WriteZebra, storeVars, Quiet
<1>. QED
  BY <1>1, <1>2 DEF ServeRoutes

\* The four steps that are not quiet.
Truncates(r) == Save(r) \/ UpdateStaticRouteConfig(r)
Writes(r) == SaveDone(r) \/ StoreRoutes(r)

LEMMA ServeQuiet ==
    ASSUME RequestInv, NEW r \in Requests, Serve(r)
    PROVE  Quiet(r) \/ Truncates(r) \/ Writes(r)
BY AskQuiet, StepQuiet, RoutesQuiet DEF Serve, Truncates, Writes, ServeRoutes

LEMMA QuietFile ==
    ASSUME RequestInv, NEW r \in Requests, Quiet(r), \A s \in Requests : s # r => job'[s] = job[s]
    PROVE  FileOK'
<1>1. Torn => job'[lock] = job[lock]
  BY DEF Quiet, RequestInv, FileOK, Torn
<1>. QED
  BY <1>1 DEF Quiet, fileVars, RequestInv, FileOK, Torn

LEMMA TruncatedFile ==
    ASSUME RequestInv, NEW r \in Requests, Truncates(r)
    PROVE  /\ FileOK' /\ ~ Torn /\ UNCHANGED <<job, contended>>
           /\ lock' = r /\ save'.was = file /\ file' = EmptyFile
           /\ job[r].section \in Sections /\ job[r].step \in Savings \cup {"routing"}
           /\ \A s \in Sections : s # job[r].section => save'.next[s] = file[s]
<1>1. PICK rows : LockAndTruncate(r, job[r].section, rows)
  BY DEF Truncates, Save, UpdateStaticRouteConfig
<1>2. UNCHANGED <<job, contended>> /\ job[r].step \in Savings \cup {"routing"}
  BY DEF Truncates, Save, UpdateStaticRouteConfig, At
<1>3. job[r].section \in Sections
  BY <1>2 DEF RequestInv, RequestsOK, JobOK, LinkJobOK, RouteJobOK, Savings, Ended, LinkSections,
              Sections
<1>4. lock = None /\ lock' = r /\ file' = EmptyFile
  BY <1>1 DEF LockAndTruncate
<1>5. save'.was = file /\ save'.next = [file EXCEPT ![job[r].section] = rows]
  BY <1>1 DEF LockAndTruncate
<1>6. IsFile(save'.next) /\ IsFile(save'.was) /\ IsFile(file')
  BY <1>4, <1>5 DEF RequestInv, FileOK, IsFile, EmptyFile
<1>7. FileOK'
  BY <1>2, <1>4, <1>6, StoreAssumption DEF FileOK, Torn, IsFile
<1>8. \A s \in Sections : s # job[r].section => save'.next[s] = file[s]
  BY <1>5 DEF RequestInv, FileOK, IsFile
<1>. QED
  BY <1>2, <1>3, <1>4, <1>5, <1>7, <1>8 DEF Torn

LEMMA WrittenFile ==
    ASSUME RequestInv, NEW r \in Requests, Writes(r)
    PROVE  FileOK' /\ lock = r /\ Torn /\ ~ Torn' /\ file' = save.next
<1>1. WriteAndUnlock(r)
  BY DEF Writes, SaveDone, StoreRoutes
<1>2. lock = r /\ file' = save.next /\ lock' = None
  BY <1>1 DEF WriteAndUnlock
<1>3. Torn /\ IsFile(save.next)
  BY <1>2, StoreAssumption DEF Torn, RequestInv, FileOK
<1>. QED
  BY <1>2, <1>3 DEF FileOK, Torn, IsFile

LEMMA ServeRequests ==
    ASSUME RequestInv, NEW r \in Requests, Serve(r)
    PROVE  RequestInv' /\ Moved(r) /\ \A s \in Requests : s # r => job'[s] = job[s]
<1>1. Moved(r)
  BY ServeMoves DEF RequestInv
<1>2. RequestsOK' /\ \A s \in Requests : s # r => job'[s] = job[s]
  BY <1>1, MovedRequests DEF RequestInv
<1>3. FileOK'
  BY <1>2, ServeQuiet, QuietFile, TruncatedFile, WrittenFile
<1>. QED
  BY <1>1, <1>2, <1>3 DEF RequestInv

\* A stop ends every request and leaves the sections but one as they are.
LEMMA StopRequests ==
    ASSUME RequestInv, Restart \/ Reboot
    PROVE  /\ RequestInv' /\ Stop /\ InFlight' = {} /\ ~ Torn'
           /\ \A s \in Sections \ {"device"} : file'[s] = file[s]
           /\ \A r \in Requests : job'[r] = job[r] \/ job'[r] = [step |-> "killed"]
<1>1. Stop
  BY DEF Restart, Reboot
<1>2. PICK addresses : InitPhysicalInterfacesConfig(addresses)
  BY DEF Restart, Reboot
<1>3. PICK rows : file' = [file EXCEPT !.device = rows]
  BY <1>2 DEF InitPhysicalInterfacesConfig
<1>4. IsFile(file') /\ \A s \in Sections \ {"device"} : file'[s] = file[s]
  BY <1>3 DEF RequestInv, FileOK, IsFile
<1>5. /\ job' = [r \in Requests |-> IF r \in InFlight THEN [step |-> "killed"] ELSE job[r]]
      /\ contended' = {} /\ lock' = None
  BY <1>1 DEF Stop
<1>6. JobOK([step |-> "killed"])
  BY EndedJob DEF Ended
<1>7. \A r \in Requests : job'[r].step \in Ended
  BY <1>5 DEF InFlight, Ended
<1>8. RequestsOK'
  BY <1>5, <1>6, <1>7 DEF RequestInv, RequestsOK, InFlight
<1>9. FileOK' /\ ~ Torn'
  BY <1>4, <1>5 DEF FileOK, Torn, IsFile
<1>. QED
  BY <1>1, <1>4, <1>5, <1>7, <1>8, <1>9 DEF RequestInv, InFlight

LEMMA InitRequests ==
    ASSUME NetInit
    PROVE  RequestInv /\ InFlight = {} /\ ~ Torn
<1>1. job = [r \in Requests |-> [step |-> "unasked"]]
  BY DEF NetInit
<1>2. JobOK([step |-> "unasked"])
  BY EndedJob DEF Ended
<1>3. InFlight = {}
  BY <1>1 DEF InFlight, Ended
<1>4. RequestsOK
  BY <1>1, <1>2, <1>3 DEF RequestsOK, NetInit
<1>5. PICK bonds, bridges, ports :
           file = [EmptyFile EXCEPT !.bond = bonds, !.bridge = bridges, !.device = ports]
  BY DEF NetInit
<1>6. IsFile(file)
  BY <1>5 DEF EmptyFile, IsFile
<1>7. FileOK /\ ~ Torn
  BY <1>6 DEF FileOK, Torn, NetInit
<1>. QED
  BY <1>3, <1>4, <1>7 DEF RequestInv

\* One step is a step of a request, a restart or a reboot.
LEMMA NextRequests ==
    ASSUME RequestInv, [NetNext]_netVars
    PROVE  RequestInv'
<1>1. ASSUME NEW r \in Requests, Serve(r) PROVE RequestInv'
  BY <1>1, ServeRequests
<1>2. CASE Restart \/ Reboot
  BY <1>2, StopRequests
<1>3. CASE UNCHANGED netVars
  BY <1>3 DEF netVars, storeVars, fileVars, RequestInv, RequestsOK, FileOK, InFlight, Torn, IsFile
<1>. QED
  BY <1>1, <1>2, <1>3 DEF NetNext

(* A request of UpdateConfig and its kin carries what its next step needs,  *)
(* only one that is at a save holds mu, and one that has met no other is    *)
(* alone; while mu is held the file is the one the holder will replace.     *)
THEOREM RequestsKeepOrder == NetSpec => []RequestInv
<1>1. NetInit => RequestInv
  BY InitRequests
<1>2. RequestInv /\ [NetNext]_netVars => RequestInv'
  BY NextRequests
<1>. QED
  BY <1>1, <1>2, PTL DEF NetSpec

-----------------------------------------------------------------------------
\* What the file says, or said before the save under way.
Content == IF Torn THEN save.was ELSE file

GeneratorsOK ==
    /\ generator = [g \in Requests |-> generator[g]]
    /\ \A g \in Requests :
          /\ DOMAIN generator[g] = {"step", "routes", "alone"}
          /\ generator[g] = [x \in DOMAIN generator[g] |-> generator[g][x]]
          /\ generator[g].step \in {"none", "started", "fetched"}
          /\ generator[g].alone \in BOOLEAN

\* A save of links leaves the routes alone; a generator that nothing disturbed
\* is the only one and has read what the file still says; and so has the last
\* one, when it was not disturbed either.
ZebraInv ==
    /\ GeneratorsOK
    /\ Torn /\ job[lock].step \in Savings => DumpedRoutes(save.next) = DumpedRoutes(save.was)
    /\ \A g \in Requests : generator[g].alone =>
          /\ Generating = {g}
          /\ generator[g].step = "fetched" => generator[g].routes = DumpedRoutes(Content)
    /\ trusted /\ Generating = {} => zebra = DumpedRoutes(Content)

\* Only the IPv4 section counts.
LEMMA SameRoutes ==
    ASSUME NEW was, NEW new, was["ipv4_unicast"] = new["ipv4_unicast"]
    PROVE  DumpedRoutes(was) = DumpedRoutes(new)
BY DEF DumpedRoutes

LEMMA ZebraKept ==
    ASSUME ZebraInv, UNCHANGED routingVars, DumpedRoutes(Content)' = DumpedRoutes(Content),
           (Torn /\ job[lock].step \in Savings => DumpedRoutes(save.next) = DumpedRoutes(save.was))'
    PROVE  ZebraInv'
<1>1. Generating' = Generating /\ GeneratorsOK'
  BY DEF routingVars, Generating, ZebraInv, GeneratorsOK
<1>2. zebra' = zebra /\ trusted' = trusted /\ generator' = generator
  BY DEF routingVars
<1>. QED
  BY <1>1, <1>2 DEF ZebraInv

LEMMA QuietZebra ==
    ASSUME RequestInv, ZebraInv, NEW r \in Requests, Quiet(r), UNCHANGED routingVars,
           \A s \in Requests : s # r => job'[s] = job[s]
    PROVE  ZebraInv'
<1>1. UNCHANGED <<file, lock, save>> /\ (Torn => job'[lock] = job[lock])
  BY DEF Quiet, fileVars, RequestInv, FileOK, Torn
<1>2. Content' = Content /\ Torn' = Torn
  BY <1>1 DEF Content, Torn
<1>. QED
  BY <1>1, <1>2, ZebraKept DEF ZebraInv

LEMMA TruncateZebra ==
    ASSUME RequestInv, ZebraInv, NEW r \in Requests, Truncates(r), UNCHANGED routingVars
    PROVE  ZebraInv'
<1>1. Content' = Content
  BY TruncatedFile, StoreAssumption DEF Content, Torn
<1>2. ASSUME job[r].step \in Savings PROVE DumpedRoutes(save'.next) = DumpedRoutes(save'.was)
  <2>1. job[r].section # "ipv4_unicast"
    BY <1>2, InFlightLink DEF RequestInv, LinkSteps, LinkJobOK, LinkSections
  <2>2. save'.next["ipv4_unicast"] = save'.was["ipv4_unicast"]
    BY <2>1, TruncatedFile DEF Sections, RouteKinds
  <2>. QED
    BY <2>2, SameRoutes
<1>3. lock' = r /\ job' = job
  BY TruncatedFile
<1>4. DumpedRoutes(Content)' = DumpedRoutes(Content)
  BY <1>1 DEF DumpedRoutes, RouteNames
<1>5. (Torn /\ job[lock].step \in Savings => DumpedRoutes(save.next) = DumpedRoutes(save.was))'
  BY <1>2, <1>3 DEF DumpedRoutes, RouteNames
<1>. QED
  BY <1>4, <1>5, ZebraKept

LEMMA SavedZebra ==
    ASSUME RequestInv, ZebraInv, NEW r \in Requests, SaveDone(r), UNCHANGED routingVars
    PROVE  ZebraInv'
<1>1. lock = r /\ Torn /\ ~ Torn' /\ file' = save.next
  BY WrittenFile DEF Writes
<1>2. job[lock].step \in Savings
  BY <1>1 DEF SaveDone
<1>3. DumpedRoutes(save.next) = DumpedRoutes(save.was)
  BY <1>1, <1>2 DEF ZebraInv
<1>4. Content' = save.next /\ Content = save.was
  BY <1>1 DEF Content
<1>5. DumpedRoutes(Content)' = DumpedRoutes(Content)
  BY <1>3, <1>4
<1>. QED
  BY <1>1, <1>5, ZebraKept

LEMMA StoredZebra ==
    ASSUME RequestInv, ZebraInv, NEW r \in Requests, StoreRoutes(r)
    PROVE  ZebraInv'
<1>. DEFINE new == [step |-> "started", routes |-> {}, alone |-> Generating = {}]
<1>1. generator' = [g \in Requests |-> IF g = r THEN new ELSE [generator[g] EXCEPT !.alone = FALSE]]
  BY DEF StoreRoutes, Disturbed
<1>2. \A g \in Requests : g # r =>
          generator'[g] = [x \in {"step", "routes", "alone"} |->
                              IF x = "alone" THEN FALSE ELSE generator[g][x]]
  BY <1>1 DEF ZebraInv, GeneratorsOK
<1>3. /\ DOMAIN new = {"step", "routes", "alone"} /\ new = [x \in DOMAIN new |-> new[x]]
      /\ new.step = "started" /\ new.alone = (Generating = {})
  OBVIOUS
<1>4. generator'[r] = new
  BY <1>1
<1>. HIDE DEF new
<1>5. \A g \in Requests : g # r => generator'[g].step = generator[g].step /\ ~ generator'[g].alone
  BY <1>2
<1>6. GeneratorsOK'
  <2>1. ASSUME NEW g \in Requests, g # r
        PROVE  /\ DOMAIN generator'[g] = {"step", "routes", "alone"}
               /\ generator'[g] = [x \in DOMAIN generator'[g] |-> generator'[g][x]]
               /\ generator'[g].step \in {"none", "started", "fetched"}
               /\ generator'[g].alone \in BOOLEAN
    <3>1. generator'[g] = [x \in {"step", "routes", "alone"} |->
                              IF x = "alone" THEN FALSE ELSE generator[g][x]]
      BY <1>2, <2>1
    <3>. QED
      BY <3>1, <2>1 DEF ZebraInv, GeneratorsOK
  <2>2. generator' = [g \in Requests |-> generator'[g]]
    BY <1>1
  <2>. QED
    BY <1>3, <1>4, <2>1, <2>2 DEF GeneratorsOK
<1>7. Generating' = Generating \cup {r}
  BY <1>3, <1>4, <1>5 DEF Generating
<1>8. \A g \in Requests : generator'[g].alone => g = r /\ Generating' = {r} /\ generator'[g].step = "started"
  BY <1>3, <1>4, <1>5, <1>7
<1>9. ~ Torn'
  BY WrittenFile DEF Writes
<1>. QED
  BY <1>6, <1>7, <1>8, <1>9 DEF ZebraInv

LEMMA GeneratedZebra ==
    ASSUME RequestInv, ZebraInv, NEW g \in Requests, Generate(g)
    PROVE  ZebraInv'
<1>1. UNCHANGED <<file, lock, save, job>>
  BY DEF Generate, FetchRouteConfig, WriteZebra, storeVars, fileVars
<1>2. Content' = Content /\ Torn' = Torn
  BY <1>1 DEF Content, Torn
<1>3. DumpedRoutes(Content)' = DumpedRoutes(Content)
  BY <1>2 DEF DumpedRoutes, RouteNames
<1>4. (Torn /\ job[lock].step \in Savings => DumpedRoutes(save.next) = DumpedRoutes(save.was))'
  BY <1>1, <1>2 DEF ZebraInv
<1>5. CASE FetchRouteConfig(g)
  <2>. DEFINE new == [generator[g] EXCEPT !.step = "fetched", !.routes = DumpedRoutes(file),
                                          !.alone = @ /\ ~ Torn]
  <2>1. generator' = [h \in Requests |-> IF h = g THEN new ELSE generator[h]]
    BY <1>5 DEF FetchRouteConfig, ZebraInv, GeneratorsOK
  <2>2. /\ DOMAIN new = {"step", "routes", "alone"} /\ new = [x \in DOMAIN new |-> new[x]]
        /\ new.step = "fetched" /\ new.routes = DumpedRoutes(file)
        /\ new.alone = (generator[g].alone /\ ~ Torn)
    BY DEF ZebraInv, GeneratorsOK
  <2>. HIDE DEF new
  <2>3. GeneratorsOK'
    BY <2>1, <2>2 DEF ZebraInv, GeneratorsOK
  <2>4. Generating' = Generating
    BY <1>5, <2>1, <2>2 DEF Generating, FetchRouteConfig
  <2>5. g \in Generating
    BY <1>5 DEF Generating, FetchRouteConfig
  <2>6. \A h \in Requests : generator'[h].alone =>
          /\ Generating = {h}
          /\ generator'[h].step = "fetched" => generator'[h].routes = DumpedRoutes(Content)
    <3>1. generator'[g].alone => Generating = {g} /\ new.routes = DumpedRoutes(Content)
      BY <2>1, <2>2 DEF ZebraInv, Content
    <3>. QED
      BY <2>1, <3>1 DEF ZebraInv
  <2>. QED
    BY <1>3, <1>4, <2>3, <2>4, <2>5, <2>6 DEF ZebraInv
<1>6. CASE WriteZebra(g)
  <2>1. generator' = [h \in Requests |->
                        IF h = g THEN NoGenerator ELSE [generator[h] EXCEPT !.alone = FALSE]]
    BY <1>6 DEF WriteZebra, Disturbed
  <2>2. \A h \in Requests : h # g =>
          generator'[h] = [x \in {"step", "routes", "alone"} |->
                              IF x = "alone" THEN FALSE ELSE generator[h][x]]
    BY <2>1 DEF ZebraInv, GeneratorsOK
  <2>3. \A h \in Requests : ~ generator'[h].alone
    BY <2>1, <2>2 DEF NoGenerator
  <2>4. GeneratorsOK'
    <3>1. ASSUME NEW h \in Requests, h # g
          PROVE  /\ DOMAIN generator'[h] = {"step", "routes", "alone"}
                 /\ generator'[h] = [x \in DOMAIN generator'[h] |-> generator'[h][x]]
                 /\ generator'[h].step \in {"none", "started", "fetched"}
                 /\ generator'[h].alone \in BOOLEAN
      <4>1. generator'[h] = [x \in {"step", "routes", "alone"} |->
                                IF x = "alone" THEN FALSE ELSE generator[h][x]]
        BY <2>2, <3>1
      <4>. QED
        BY <4>1, <3>1 DEF ZebraInv, GeneratorsOK
    <3>2. /\ DOMAIN NoGenerator = {"step", "routes", "alone"}
          /\ NoGenerator = [x \in DOMAIN NoGenerator |-> NoGenerator[x]]
          /\ NoGenerator.step = "none" /\ NoGenerator.alone \in BOOLEAN
      BY DEF NoGenerator
    <3>3. generator'[g] = NoGenerator /\ generator' = [h \in Requests |-> generator'[h]]
      BY <2>1
    <3>. QED
      BY <3>1, <3>2, <3>3 DEF GeneratorsOK
  <2>5. trusted' = generator[g].alone /\ zebra' = generator[g].routes /\ generator[g].step = "fetched"
    BY <1>6 DEF WriteZebra
  <2>6. trusted' => zebra' = DumpedRoutes(Content)
    BY <2>5 DEF ZebraInv
  <2>. QED
    BY <1>3, <1>4, <2>3, <2>4, <2>6 DEF ZebraInv
<1>. QED
  BY <1>5, <1>6 DEF Generate

LEMMA StoppedZebra ==
    ASSUME RequestInv, ZebraInv, Restart \/ Reboot
    PROVE  ZebraInv'
<1>1. Stop /\ ~ Torn' /\ \A s \in Sections \ {"device"} : file'[s] = file[s]
  BY StopRequests
<1>2. file'["ipv4_unicast"] = file["ipv4_unicast"]
  BY <1>1 DEF Sections, RouteKinds
<1>3. DumpedRoutes(file') = DumpedRoutes(file)
  BY <1>2, SameRoutes
<1>4. /\ generator' = [g \in Requests |-> NoGenerator] /\ zebra' = zebra
      /\ trusted' = (trusted /\ Generating = {} /\ ~ Torn)
  BY <1>1 DEF Stop
<1>5. GeneratorsOK' /\ \A g \in Requests : ~ generator'[g].alone
  BY <1>4 DEF GeneratorsOK, NoGenerator
<1>6. trusted' => zebra' = DumpedRoutes(file')
  BY <1>3, <1>4 DEF ZebraInv, Content
<1>7. trusted' => zebra' = DumpedRoutes(Content)'
  BY <1>1, <1>6 DEF Content, DumpedRoutes, RouteNames
<1>. QED
  BY <1>1, <1>5, <1>7 DEF ZebraInv

LEMMA InitZebra ==
    ASSUME NetInit
    PROVE  ZebraInv
<1>1. generator = [g \in Requests |-> NoGenerator] /\ zebra = {} /\ ~ Torn
  BY DEF NetInit, Torn
<1>2. GeneratorsOK /\ \A g \in Requests : ~ generator[g].alone
  BY <1>1 DEF GeneratorsOK, NoGenerator
<1>3. PICK bonds, bridges, ports :
           file = [EmptyFile EXCEPT !.bond = bonds, !.bridge = bridges, !.device = ports]
  BY DEF NetInit
<1>4. file["ipv4_unicast"] = <<>>
  BY <1>3 DEF EmptyFile, Sections, RouteKinds
<1>5. DOMAIN <<>> = {}
  OBVIOUS
<1>6. DumpedRoutes(Content) = {}
  BY <1>1, <1>4, <1>5 DEF Content, DumpedRoutes, RouteNames
<1>. QED
  BY <1>1, <1>2, <1>6 DEF ZebraInv

LEMMA NextZebra ==
    ASSUME RequestInv, ZebraInv, [NetNext]_netVars
    PROVE  ZebraInv'
<1>1. ASSUME NEW r \in Requests, Serve(r) PROVE ZebraInv'
  <2>1. \A s \in Requests : s # r => job'[s] = job[s]
    BY <1>1, ServeRequests
  <2>2. CASE StoreRoutes(r)
    BY <2>2, StoredZebra
  <2>3. CASE Generate(r)
    BY <2>3, GeneratedZebra
  <2>4. CASE ~ StoreRoutes(r) /\ ~ Generate(r)
    <3>1. UNCHANGED routingVars
      BY <1>1, <2>4 DEF Serve, AskRoutes, CreateStaticRoute, DeleteStaticRoute, UpdateStaticRoute,
                       ServeRoutes, UpdateStaticRouteConfig, RoutesTimeOut
    <3>. QED
      BY <1>1, <2>1, <2>4, <3>1, ServeQuiet, QuietZebra, TruncateZebra, SavedZebra DEF Writes
  <2>. QED
    BY <2>2, <2>3, <2>4
<1>2. CASE Restart \/ Reboot
  BY <1>2, StoppedZebra
<1>3. CASE UNCHANGED netVars
  <2>1. UNCHANGED <<file, lock, save, job, generator, zebra, trusted>>
    BY <1>3 DEF netVars, storeVars, fileVars, routingVars
  <2>2. Content' = Content /\ Torn' = Torn
    BY <2>1 DEF Content, Torn
  <2>. QED
    BY <2>1, <2>2, ZebraKept DEF ZebraInv, routingVars
<1>. QED
  BY <1>1, <1>2, <1>3 DEF NetNext

\* Whatever the requests, saves, generators, restarts and reboots: zebra.conf
\* has the IPv4 routes of the file once no generator is left, unless the last
\* one was overtaken, read the file while it was being written, or was killed.
THEOREM ZebraHasTheRoutes == NetSpec => []ZebraIsCurrent
<1>1. NetInit => RequestInv /\ ZebraInv
  BY InitRequests, InitZebra
<1>2. RequestInv /\ ZebraInv /\ [NetNext]_netVars => (RequestInv /\ ZebraInv)'
  BY NextRequests, NextZebra
<1>3. RequestInv /\ ZebraInv => ZebraIsCurrent
  BY DEF ZebraInv, ZebraIsCurrent, Content
<1>. QED
  BY <1>1, <1>2, <1>3, PTL DEF NetSpec

-----------------------------------------------------------------------------
\* SetToSeq lists the elements of a finite set.
LEMMA ListOf ==
    ASSUME NEW S, IsFiniteSet(S)
    PROVE  SetToSeq(S) \in Seq(S) /\ (S # {} => DOMAIN SetToSeq(S) # {})
<1>. DEFINE n == Cardinality(S)
<1>1. n \in Nat /\ ExistsBijection(1..n, S) /\ (n = 0 <=> S = {})
  BY FS_CardinalityType, FS_EmptySet
<1>. HIDE DEF n
<1>2. \E f \in [1..n -> S] : IsInjective(f)
  BY <1>1 DEF ExistsBijection, Bijection, Injection, IsInjective
<1>3. SetToSeq(S) \in [1..n -> S]
  BY <1>2 DEF SetToSeq, n
<1>4. SetToSeq(S) \in Seq(S) /\ DOMAIN SetToSeq(S) = 1..n
  BY <1>1, <1>3
<1>. QED
  BY <1>1, <1>4

\* The ports are in links of the kernel, and a VLAN is no link for ports: a
\* removal takes away its VLANs, never a link that has ports.
LinksOK ==
    /\ \A k, l \in links : k.name = l.name => k = l
    /\ \A l \in links : l.name \in Names /\ (l.name \notin Vlans => l.parent = None)

MastersOK ==
    /\ master \in [Ports -> Bonds \cup Bridges \cup {None}]
    /\ \A p \in Ports : master[p] # None => CheckInterfaceExists(master[p])

KernelInv == LinksOK /\ MastersOK

CountsOK == faults \in 0..MaxFaults /\ stops \in 0..MaxStops

LEMMA LinkAdded ==
    ASSUME RequestInv, KernelInv, NEW r \in Requests, LinkAdd(r)
    PROVE  KernelInv'
<1>. DEFINE n == job[r].name
            l == [name |-> n, by |-> r,
                  parent |-> IF n \in Vlans THEN CHOOSE m \in job[r].add : TRUE ELSE None]
<1>1. n \in Names
  BY InFlightLink DEF RequestInv, LinkAdd, At, LinkSteps, LinkJobOK
<1>2. /\ UNCHANGED master
      /\ UNCHANGED links \/ (links' = links \cup {l} /\ ~ CheckInterfaceExists(n))
  BY DEF LinkAdd
<1>3. l.name = n /\ (n \notin Vlans => l.parent = None)
  OBVIOUS
<1>. HIDE DEF n, l
<1>4. LinksOK'
  BY <1>1, <1>2, <1>3 DEF KernelInv, LinksOK, CheckInterfaceExists
<1>5. MastersOK'
  BY <1>2 DEF KernelInv, MastersOK, CheckInterfaceExists
<1>. QED
  BY <1>4, <1>5 DEF KernelInv

LEMMA LinkRemoved ==
    ASSUME KernelInv, NEW n \in Names, links' = WithoutLink(n), master' = Released(n)
    PROVE  KernelInv'
<1>1. links' \subseteq links
  BY DEF WithoutLink
<1>2. LinksOK'
  BY <1>1 DEF KernelInv, LinksOK
<1>3. master' \in [Ports -> Bonds \cup Bridges \cup {None}]
  BY DEF Released, KernelInv, MastersOK
<1>4. ASSUME NEW p \in Ports, master'[p] # None PROVE CheckInterfaceExists(master[p])'
  <2>1. master'[p] = master[p] /\ master[p] # n
    BY <1>4 DEF Released
  <2>2. PICK l \in links : l.name = master[p]
    BY <1>4, <2>1 DEF KernelInv, MastersOK, CheckInterfaceExists
  <2>3. l.name \in Bonds \cup Bridges
    BY <1>4, <2>1, <2>2 DEF KernelInv, MastersOK
  <2>4. l.parent # n
    BY <2>3, KernelAssumption DEF KernelInv, LinksOK
  <2>5. l \in links'
    BY <2>1, <2>2, <2>4 DEF WithoutLink
  <2>. QED
    BY <2>1, <2>2, <2>5 DEF CheckInterfaceExists
<1>. QED
  BY <1>2, <1>3, <1>4 DEF KernelInv, MastersOK

LEMMA PortsMoved ==
    ASSUME KernelInv, UNCHANGED links, NEW done, NEW n \in Bonds \cup Bridges \cup {None},
           n # None => CheckInterfaceExists(n),
           master' = [p \in Ports |-> IF p \in done THEN n ELSE master[p]]
    PROVE  KernelInv'
BY DEF KernelInv, LinksOK, MastersOK, CheckInterfaceExists

LEMMA ServeKernel ==
    ASSUME RequestInv, KernelInv, NEW r \in Requests, ServeInterfaces(r)
    PROVE  KernelInv'
<1>. DEFINE n == job[r].name
<1>1. CASE LinkAdd(r)
  BY <1>1, LinkAdded
<1>2. CASE Join(r)
  <2>1. n \in Bonds \cup Bridges
    BY <1>2, InFlightLink DEF RequestInv, Join, At, LinkSteps, LinkJobOK
  <2>2. UNCHANGED links
    BY <1>2 DEF Join
  <2>3. \/ UNCHANGED master
        \/ CheckInterfaceExists(n) /\ \E done : master' = [p \in Ports |-> IF p \in done THEN n ELSE master[p]]
    BY <1>2 DEF Join
  <2>4. CASE UNCHANGED master
    BY <2>2, <2>4 DEF KernelInv, LinksOK, MastersOK, CheckInterfaceExists
  <2>. QED
    BY <2>1, <2>2, <2>3, <2>4, PortsMoved
<1>3. CASE Undo(r) \/ LinkDel(r)
  <2>1. \/ UNCHANGED <<links, master>>
        \/ CheckInterfaceExists(n) /\ links' = WithoutLink(n) /\ master' = Released(n)
    BY <1>3 DEF Undo, LinkDel, CheckInterfaceExists
  <2>2. CheckInterfaceExists(n) => n \in Names
    BY DEF CheckInterfaceExists, KernelInv, LinksOK
  <2>3. CASE UNCHANGED <<links, master>>
    BY <2>3 DEF KernelInv, LinksOK, MastersOK, CheckInterfaceExists
  <2>. QED
    BY <2>1, <2>2, <2>3, LinkRemoved
<1>4. CASE Leave(r)
  BY <1>4, PortsMoved DEF Leave
<1>5. CASE ~ (LinkAdd(r) \/ Join(r) \/ Undo(r) \/ LinkDel(r) \/ Leave(r))
  <2>1. UNCHANGED <<links, master>>
    BY <1>5 DEF ServeInterfaces, SetAddress, FetchFields, CheckSection, ListLinks, ListPorts,
                Save, SavePanics, SaveDone, SaveTimesOut, kernelVars
  <2>. QED
    BY <2>1 DEF KernelInv, LinksOK, MastersOK, CheckInterfaceExists
<1>. QED
  BY <1>1, <1>2, <1>3, <1>4, <1>5

LEMMA ServeCounts ==
    ASSUME CountsOK, NEW r \in Requests, Serve(r), UNCHANGED stops
    PROVE  CountsOK'
<1>1. UNCHANGED faults \/ (faults < MaxFaults /\ faults' = faults + 1)
  <2>1. CASE AskInterfaces(r)
    BY <2>1 DEF AskInterfaces, CreateBondedLink, UpdateBondInterface, CreateBridgeInterface,
                UpdateBridgeInterface, AskForMembers, AskForOtherMembers, CreateVlanInterface,
                UpdateVlanInterface, AskToDelete, UpdatePhysicalInterface, kernelVars
  <2>2. CASE ServeInterfaces(r)
    BY <2>2 DEF ServeInterfaces, LinkAdd, Join, Undo, Leave, SetAddress, LinkDel, FetchFields,
                CheckSection, ListLinks, ListPorts, Save, SavePanics, SaveDone, SaveTimesOut, kernelVars
  <2>3. CASE UNCHANGED kernelVars
    BY <2>3 DEF kernelVars
  <2>. QED
    BY <2>1, <2>2, <2>3 DEF Serve
<1>. QED
  BY <1>1, KernelAssumption DEF CountsOK

LEMMA InitKernel ==
    ASSUME NetInit
    PROVE  KernelInv /\ CountsOK
<1>1. master \in [Ports -> Bonds \cup Bridges \cup {None}]
  BY NetAssumption DEF NetInit
<1>2. links = {[name |-> n, by |-> None, parent |-> None] : n \in {master[p] : p \in Ports} \ {None}}
  BY DEF NetInit
<1>3. LinksOK
  <2>1. \A l \in links : l.name \in Bonds \cup Bridges /\ l.parent = None
    BY <1>1, <1>2
  <2>2. \A l \in links : l = [name |-> l.name, by |-> None, parent |-> None]
    BY <1>2
  <2>. QED
    BY <2>1, <2>2 DEF LinksOK, Names
<1>4. ASSUME NEW p \in Ports, master[p] # None PROVE CheckInterfaceExists(master[p])
  <2>1. [name |-> master[p], by |-> None, parent |-> None] \in links
    BY <1>2, <1>4
  <2>. QED
    BY <2>1 DEF CheckInterfaceExists
<1>5. CountsOK
  BY KernelAssumption, NetAssumption DEF CountsOK, NetInit
<1>. QED
  BY <1>1, <1>3, <1>4, <1>5 DEF KernelInv, MastersOK

LEMMA NextKernel ==
    ASSUME RequestInv, KernelInv, CountsOK, [NetNext]_netVars
    PROVE  KernelInv' /\ CountsOK'
<1>1. ASSUME NEW r \in Requests, Serve(r), UNCHANGED stops PROVE KernelInv' /\ CountsOK'
  <2>1. CountsOK'
    BY <1>1, ServeCounts
  <2>2. CASE ServeInterfaces(r)
    BY <2>1, <2>2, ServeKernel
  <2>3. CASE UNCHANGED kernelVars
    BY <2>1, <2>3 DEF kernelVars, KernelInv, LinksOK, MastersOK, CheckInterfaceExists
  <2>4. UNCHANGED kernelVars \/ ServeInterfaces(r)
    BY <1>1, AskMoves DEF Serve, Accepted, RequestInv
  <2>. QED
    BY <2>2, <2>3, <2>4
<1>2. CASE Restart \/ Reboot
  <2>1. CountsOK'
    BY <1>2, NetAssumption DEF Restart, Reboot, Stop, CountsOK
  <2>2. CASE Restart
    BY <2>1, <2>2 DEF Restart, KernelInv, LinksOK, MastersOK, CheckInterfaceExists
  <2>3. CASE Reboot
    <3>1. links' = {} /\ master' = [p \in Ports |-> None]
      BY <2>3 DEF Reboot
    <3>. QED
      BY <2>1, <3>1 DEF KernelInv, LinksOK, MastersOK
  <2>. QED
    BY <1>2, <2>2, <2>3
<1>3. CASE UNCHANGED netVars
  BY <1>3 DEF netVars, kernelVars, KernelInv, LinksOK, MastersOK, CountsOK, CheckInterfaceExists
<1>. QED
  BY <1>1, <1>2, <1>3 DEF NetNext

\* The lock has a holder in flight and the file is empty meanwhile; each port
\* is in a link that exists, and no name is two links: two creations of one
\* name, a creation racing a deletion and a removal with its VLANs included.
THEOREM NetTypeCorrect == NetSpec => []NetTypeOK
<1>1. NetInit => RequestInv /\ KernelInv /\ CountsOK
  BY InitRequests, InitKernel
<1>2. RequestInv /\ KernelInv /\ CountsOK /\ [NetNext]_netVars
           => (RequestInv /\ KernelInv /\ CountsOK)'
  BY NextRequests, NextKernel
<1>3. RequestInv /\ KernelInv /\ CountsOK => NetTypeOK
  <2>1. RequestInv => (Torn => lock \in InFlight /\ file = EmptyFile)
    BY DEF RequestInv, FileOK, Torn, InFlight, Savings, Ended
  <2>2. RequestInv => DOMAIN file = Sections /\ contended \subseteq InFlight
    BY DEF RequestInv, FileOK, IsFile, RequestsOK
  <2>. QED
    BY <2>1, <2>2 DEF KernelInv, LinksOK, MastersOK, CountsOK, NetTypeOK
<1>. QED
  BY <1>1, <1>2, <1>3, PTL DEF NetSpec

-----------------------------------------------------------------------------
\* What the creation of a bond has come to while its link is there: it was
\* served or killed, or is on its way and will be undone if it fails.
Making(j, n) ==
    \/ j.step \in {"ok", "killed"}
    \/ /\ j.step \in {"joining", "checking", "listing", "storing", "fielding", "undoing"}
       /\ j.op = "create" /\ j.section = "bond" /\ j.name = n
       /\ j.step = "storing" => j.rows # <<>>

BondInv ==
    \A l \in links : l.name \in Bonds /\ l.by # None =>
        l.by \in Requests /\ Making(job[l.by], l.name)

\* A creation on its way, with a new step and what it read.
LEMMA MakingOn ==
    ASSUME NEW j, NEW k, NEW n, Making(j, n), j.step \notin Ended,
           k.op = j.op /\ k.section = j.section /\ k.name = j.name,
           \/ k.step \in {"checking", "listing", "fielding", "undoing"}
           \/ k.step = "storing" /\ k.rows # <<>>
    PROVE  Making(k, n)
BY DEF Making, Ended

LEMMA MakingGoes ==
    ASSUME RequestsOK, NEW r \in Requests, NEW n, Making(job[r], n), job[r].step \notin Ended,
           NEW step \in {"checking", "fielding", "undoing"}, Goto(r, step)
    PROVE  Making(job'[r], n)
<1>. DEFINE j == [job[r] EXCEPT !.step = step]
<1>1. job[r].step \in LinkSteps
  BY DEF Making, Ended, LinkSteps, Savings
<1>2. DOMAIN job[r] = JobFields
  BY <1>1, InFlightLink DEF LinkJobOK
<1>3. job'[r] = j
  BY DEF Goto, RequestsOK
<1>4. j.step = step /\ j.op = job[r].op /\ j.section = job[r].section /\ j.name = job[r].name
  BY <1>2 DEF JobFields
<1>. HIDE DEF j
<1>. QED
  BY <1>3, <1>4, MakingOn

LEMMA MakingFails ==
    ASSUME RequestsOK, NEW r \in Requests, NEW n, Making(job[r], n), job[r].step \notin Ended, Fail(r)
    PROVE  Making(job'[r], n)
<1>1. Undoing(r)
  BY DEF Undoing, Making, Ended
<1>2. Goto(r, "undoing")
  BY <1>1 DEF Fail
<1>. QED
  BY <1>2, MakingGoes

\* A bond that is listed to fill its section is one of several, or the only one.
LEMMA ListedBonds ==
    ASSUME NEW n \in Bonds, CheckInterfaceExists(n)
    PROVE  Listed("bond") # <<>>
<1>. DEFINE S == {m \in Names : SectionOf(m) = "bond" /\ CheckInterfaceExists(m)}
            own == SetToSeq(S)
<1>1. n \in S
  BY NameSections DEF Names
<1>2. S \subseteq Bonds
  BY NameSections
<1>3. IsFiniteSet(S)
  BY <1>2, KernelAssumption, FS_Subset
<1>. HIDE DEF S
<1>4. DOMAIN own # {}
  BY <1>1, <1>3, ListOf
<1>. HIDE DEF own
<1>5. DOMAIN <<>> = {}
  OBVIOUS
<1>6. Listed("bond") = [i \in DOMAIN own |-> Described(own[i])]
  BY DEF Listed, own, S
<1>. QED
  BY <1>4, <1>5, <1>6

LEMMA MakingListed ==
    ASSUME RequestsOK, NEW r \in Requests, NEW n \in Bonds, CheckInterfaceExists(n),
           Making(job[r], n), job[r].step \notin Ended, ListLinks(r)
    PROVE  Making(job'[r], n)
<1>1. CASE Fail(r)
  BY <1>1, MakingFails
<1>2. CASE ~ Fail(r)
  <2>. DEFINE rows == IF job[r].all THEN Listed(job[r].section) ELSE <<Described(job[r].name)>>
              j == [job[r] EXCEPT !.step = "storing", !.rows = rows]
  <2>1. job[r].section = "bond"
    BY DEF Making, Ended
  <2>2. rows # <<>>
    BY <2>1, ListedBonds
  <2>3. job'[r] = j
    BY <1>2 DEF ListLinks, RequestsOK
  <2>4. DOMAIN job[r] = JobFields
    BY InFlightLink DEF LinkJobOK, ListLinks, At, LinkSteps
  <2>. HIDE DEF rows
  <2>5. /\ j.step = "storing" /\ j.rows = rows
        /\ j.op = job[r].op /\ j.section = job[r].section /\ j.name = job[r].name
    BY <2>4 DEF JobFields
  <2>. HIDE DEF j
  <2>. QED
    BY <2>2, <2>3, <2>5, MakingOn
<1>. QED
  BY <1>1, <1>2

LEMMA MakingReads ==
    ASSUME RequestsOK, NEW r \in Requests, NEW n, Making(job[r], n), job[r].step \notin Ended,
           CheckSection(r)
    PROVE  Making(job'[r], n)
<1>. DEFINE all == CheckIfInterfaceTypeIsEmpty(job[r].section)
            j == [job[r] EXCEPT !.all = all, !.step = "listing"]
<1>1. job'[r] = j
  BY DEF CheckSection, RequestsOK
<1>2. DOMAIN job[r] = JobFields
  BY InFlightLink DEF LinkJobOK, CheckSection, At, LinkSteps
<1>3. j.step = "listing" /\ j.op = job[r].op /\ j.section = job[r].section /\ j.name = job[r].name
  BY <1>2 DEF JobFields
<1>. HIDE DEF j
<1>. QED
  BY <1>1, <1>3, MakingOn

LEMMA MakingSaved ==
    ASSUME RequestInv, NEW r \in Requests, NEW n, Making(job[r], n), job[r].step \notin Ended,
           Save(r) \/ SavePanics(r) \/ SaveDone(r) \/ SaveTimesOut(r)
    PROVE  Making(job'[r], n)
<1>1. job[r].op = "create" /\ job[r].section = "bond" /\ job[r].step # "forgetting"
  BY DEF Making, Ended
<1>2. ASSUME AfterStoring(r) PROVE Making(job'[r], n)
  <2>1. CASE Goto(r, "fielding")
    BY <2>1, MakingGoes DEF RequestInv
  <2>2. CASE Finish(r, "ok")
    BY <2>2 DEF Finish, RequestInv, RequestsOK, Making
  <2>. QED
    BY <1>2, <2>1, <2>2 DEF AfterStoring
<1>3. CASE Save(r)
  BY <1>3 DEF Save
<1>4. CASE SavePanics(r)
  BY <1>4 DEF SavePanics, Panics, At, Making, Ended
<1>5. CASE SaveDone(r)
  BY <1>2, <1>5 DEF SaveDone
<1>6. CASE SaveTimesOut(r)
  <2>1. Fail(r)
    BY <1>1, <1>6 DEF SaveTimesOut, At
  <2>. QED
    BY <2>1, MakingFails DEF RequestInv
<1>. QED
  BY <1>3, <1>4, <1>5, <1>6

\* A step of the creation itself goes on with it, or undoes it.
LEMMA MakingStep ==
    ASSUME RequestInv, NEW r \in Requests, NEW n \in Bonds, CheckInterfaceExists(n),
           Making(job[r], n), ServeInterfaces(r), ~ Undo(r)
    PROVE  Making(job'[r], n)
<1>1. job[r].step \notin Ended
  BY DEF ServeInterfaces, LinkAdd, Join, Leave, SetAddress, LinkDel, FetchFields, CheckSection,
         ListLinks, ListPorts, Save, SavePanics, SaveDone, SaveTimesOut, At, Savings, Ended
<1>2. /\ job[r].step \in {"joining", "checking", "listing", "storing", "fielding", "undoing"}
      /\ job[r].op = "create" /\ job[r].section = "bond" /\ job[r].name = n
  BY <1>1 DEF Making, Ended
<1>3. CASE Join(r)
  <2>1. Fail(r) \/ Goto(r, "checking")
    BY <1>2, <1>3 DEF Join
  <2>. QED
    BY <1>1, <2>1, MakingFails, MakingGoes DEF RequestInv
<1>4. CASE CheckSection(r)
  BY <1>1, <1>4, MakingReads DEF RequestInv
<1>5. CASE ListLinks(r)
  BY <1>1, <1>5, MakingListed DEF RequestInv
<1>6. CASE Save(r) \/ SavePanics(r) \/ SaveDone(r) \/ SaveTimesOut(r)
  BY <1>1, <1>6, MakingSaved
<1>7. ~ (LinkAdd(r) \/ Leave(r) \/ SetAddress(r) \/ LinkDel(r) \/ FetchFields(r) \/ ListPorts(r))
  BY <1>2 DEF LinkAdd, Leave, SetAddress, LinkDel, FetchFields, ListPorts, At
<1>. QED
  BY <1>3, <1>4, <1>5, <1>6, <1>7 DEF ServeInterfaces

LEMMA BondKept ==
    ASSUME BondInv, links' \subseteq links,
           \A l \in links' : l.name \in Bonds /\ l.by \in Requests /\ Making(job[l.by], l.name) =>
               Making(job'[l.by], l.name)
    PROVE  BondInv'
BY DEF BondInv

LEMMA BondAdded ==
    ASSUME RequestInv, BondInv, NEW r \in Requests, LinkAdd(r)
    PROVE  BondInv'
<1>. DEFINE n == job[r].name
            l == [name |-> n, by |-> r,
                  parent |-> IF n \in Vlans THEN CHOOSE m \in job[r].add : TRUE ELSE None]
<1>1. At(r, "adding") /\ job[r].op = "create" /\ job[r].section = SectionOf(n)
  BY InFlightLink DEF RequestInv, LinkAdd, At, LinkSteps, LinkJobOK
<1>2. \A k \in links : k.name \in Bonds /\ k.by # None => k.by # r
  BY <1>1 DEF BondInv, Making, At
<1>3. \A s \in Requests : s # r => job'[s] = job[s]
  BY ServeMoves, MovedRequests DEF RequestInv, Serve, ServeInterfaces, LinkAdd, Goto, Finish, RequestsOK
<1>4. CASE links' = links
  BY <1>2, <1>3, <1>4 DEF BondInv
<1>5. CASE links' = links \cup {l} /\ Goto(r, IF n \in Vlans THEN "checking" ELSE "joining")
  <2>1. ASSUME n \in Bonds PROVE Making(job'[r], n)
    <3>. DEFINE j == [job[r] EXCEPT !.step = "joining"]
    <3>1. n \notin Vlans /\ SectionOf(n) = "bond"
      BY <2>1, KernelAssumption, NameSections
    <3>2. job'[r] = j
      BY <1>5, <3>1 DEF Goto, RequestInv, RequestsOK
    <3>3. DOMAIN job[r] = JobFields
      BY <1>1, InFlightLink DEF RequestInv, LinkJobOK, At, LinkSteps
    <3>4. j.step = "joining" /\ j.op = "create" /\ j.section = "bond" /\ j.name = n
      BY <1>1, <3>1, <3>3 DEF JobFields
    <3>. HIDE DEF j
    <3>. QED
      BY <3>2, <3>4 DEF Making
  <2>2. l.name = n /\ l.by = r
    OBVIOUS
  <2>. HIDE DEF l, n
  <2>. QED
    BY <1>2, <1>3, <1>5, <2>1, <2>2 DEF BondInv
<1>. QED
  BY <1>4, <1>5 DEF LinkAdd

LEMMA BondUndone ==
    ASSUME RequestInv, BondInv, NEW r \in Requests, Undo(r)
    PROVE  BondInv'
<1>1. links' \subseteq links
  BY DEF Undo, WithoutLink
<1>2. \A s \in Requests : s # r => job'[s] = job[s]
  BY DEF Undo, Finish, RequestInv, RequestsOK
<1>3. \A l \in links' : l.name \in Bonds /\ l.by \in Requests /\ Making(job[l.by], l.name) => l.by # r
  <2>1. SUFFICES ASSUME NEW l \in links', l.name \in Bonds, l.by = r, Making(job[r], l.name)
                 PROVE  FALSE
    OBVIOUS
  <2>2. l.name = job[r].name
    BY <2>1 DEF Undo, At, Making
  <2>3. links' = WithoutLink(job[r].name)
    BY <1>1, <2>1, <2>2 DEF Undo
  <2>. QED
    BY <2>1, <2>2, <2>3 DEF WithoutLink
<1>. QED
  BY <1>1, <1>2, <1>3, BondKept

LEMMA ServeBonds ==
    ASSUME RequestInv, BondInv, NEW r \in Requests, Serve(r)
    PROVE  BondInv'
<1>1. \A s \in Requests : s # r => job'[s] = job[s]
  BY ServeRequests
<1>2. CASE LinkAdd(r)
  BY <1>2, BondAdded
<1>3. CASE Undo(r)
  BY <1>3, BondUndone
<1>4. CASE ServeInterfaces(r) /\ ~ LinkAdd(r) /\ ~ Undo(r)
  <2>1. links' \subseteq links
    BY <1>4 DEF ServeInterfaces, Join, Leave, SetAddress, LinkDel, FetchFields, CheckSection, ListLinks,
                ListPorts, Save, SavePanics, SaveDone, SaveTimesOut, kernelVars, WithoutLink
  <2>2. ASSUME NEW l \in links', l.name \in Bonds, l.by = r, Making(job[r], l.name)
        PROVE  Making(job'[r], l.name)
    <3>1. CheckInterfaceExists(l.name)
      BY <2>1, <2>2 DEF CheckInterfaceExists
    <3>. QED
      BY <1>4, <2>2, <3>1, MakingStep
  <2>. QED
    BY <1>1, <2>1, <2>2, BondKept
<1>5. CASE ~ ServeInterfaces(r)
  <2>1. UNCHANGED links
    BY <1>5, AskMoves DEF Serve, Accepted, RequestInv, kernelVars
  <2>2. UNCHANGED job \/ (job[r].step \in {"unasked", "routing"})
    BY <1>5, AskMoves DEF Serve, Accepted, RequestInv, At, AskRoutes, CreateStaticRoute,
       DeleteStaticRoute, UpdateStaticRoute, Begin, ServeRoutes, UpdateStaticRouteConfig,
       StoreRoutes, RoutesTimeOut, Generate, FetchRouteConfig, WriteZebra, storeVars
  <2>3. \A l \in links' : l.name \in Bonds /\ l.by \in Requests /\ Making(job[l.by], l.name) =>
            Making(job'[l.by], l.name)
    BY <1>1, <2>2 DEF Making
  <2>. QED
    BY <2>1, <2>3, BondKept
<1>. QED
  BY <1>2, <1>3, <1>4, <1>5

LEMMA NextBonds ==
    ASSUME RequestInv, BondInv, [NetNext]_netVars
    PROVE  BondInv'
<1>1. ASSUME NEW r \in Requests, Serve(r) PROVE BondInv'
  BY <1>1, ServeBonds
<1>2. CASE Restart \/ Reboot
  <2>1. links' \subseteq links
    BY <1>2 DEF Restart, Reboot
  <2>2. \A r \in Requests : job'[r] = job[r] \/ job'[r] = [step |-> "killed"]
    BY <1>2, StopRequests
  <2>. QED
    BY <2>1, <2>2, BondKept DEF Making
<1>3. CASE UNCHANGED netVars
  BY <1>3 DEF netVars, storeVars, kernelVars, BondInv
<1>. QED
  BY <1>1, <1>2, <1>3 DEF NetNext

\* However a creation of a bond fails after the link was added, also on a lock
\* that stays taken and whoever changes the bond meanwhile, no bond it made is
\* left; another request's bond of the same name stays.
THEOREM FailedBondsAreUndone == NetSpec => []FailedBondIsUndone
<1>1. NetInit => RequestInv /\ BondInv
  <2>1. NetInit => \A l \in links : l.by = None
    BY DEF NetInit
  <2>. QED
    BY <2>1, InitRequests DEF BondInv
<1>2. RequestInv /\ BondInv /\ [NetNext]_netVars => (RequestInv /\ BondInv)'
  BY NextRequests, NextBonds
<1>3. RequestInv /\ BondInv => FailedBondIsUndone
  BY DEF BondInv, FailedBondIsUndone, Making, At
<1>. QED
  BY <1>1, <1>2, <1>3, PTL DEF NetSpec

-----------------------------------------------------------------------------
\* The first row of a name is the one that counts.
First(rows, i, n) ==
    i \in DOMAIN rows /\ rows[i].name = n /\ \A k \in DOMAIN rows : rows[k].name = n => i <= k

Agrees(rows, p, a) == \A i \in DOMAIN rows : First(rows, i, p) => rows[i].ip = a

DeviceRows(rows) == \E S : rows \in Seq(S) /\ \A x \in S : {"name", "ip"} \subseteq DOMAIN x

\* A nonempty set of numbers has a least one.
LEMMA LeastOf ==
    ASSUME NEW D, D \subseteq Nat, D # {}
    PROVE  Min(D) \in D /\ \A e \in D : Min(D) <= e
<1>1. PICK R : R = OpToRel(<, Nat)
  OBVIOUS
<1>2. IsWellFoundedOn(R, Nat)
  BY <1>1, NatLessThanWellFounded
<1>3. PICK d \in D : \A e \in D : ~ (<<e, d>> \in R)
  BY <1>2, WFMin
<1>4. \A x, y \in D : y < x => <<y, x>> \in R
  BY <1>1 DEF OpToRel
<1>5. ASSUME NEW e \in D PROVE d <= e
  <2>1. ~ (e < d)
    BY <1>3, <1>4
  <2>2. d \in Nat /\ e \in Nat
    OBVIOUS
  <2>. QED
    BY <2>1, <2>2
<1>. QED
  BY <1>5 DEF Min

LEMMA RowIsFirst ==
    ASSUME NEW rows, DeviceRows(rows), NEW n
    PROVE  /\ RowOf(rows, n) # 0 => First(rows, RowOf(rows, n), n)
           /\ RowOf(rows, n) = 0 => \A i \in DOMAIN rows : rows[i].name # n
<1>. DEFINE I == {i \in 1..Len(rows) : rows[i].name = n}
<1>1. Len(rows) \in Nat /\ DOMAIN rows = 1..Len(rows)
  BY DEF DeviceRows
<1>2. RowOf(rows, n) = IF I # {} THEN Min(I) ELSE 0
  BY DEF RowOf, SelectInSeq
<1>3. I \subseteq Nat /\ 0 \notin I
  BY <1>1
<1>4. I # {} => Min(I) \in I /\ \A k \in I : Min(I) <= k
  BY <1>3, LeastOf
<1>5. CASE I = {}
  BY <1>1, <1>2, <1>5
<1>6. CASE I # {}
  <2>1. RowOf(rows, n) \in I /\ \A k \in I : RowOf(rows, n) <= k
    BY <1>2, <1>4, <1>6
  <2>. QED
    BY <1>1, <1>3, <2>1 DEF First
<1>. QED
  BY <1>5, <1>6

\* A row that takes the place of the first of its name, or comes last.
LEMMA StoredAgrees ==
    ASSUME NEW rows, DeviceRows(rows), NEW n, NEW x, x.name = n, {"name", "ip"} \subseteq DOMAIN x,
           NEW p, NEW a, IF p = n THEN x.ip = a ELSE Agrees(rows, p, a)
    PROVE  DeviceRows(Stored(rows, n, <<x>>)) /\ Agrees(Stored(rows, n, <<x>>), p, a)
<1>. DEFINE new == Stored(rows, n, <<x>>)
            k == RowOf(rows, n)
<1>1. PICK S : rows \in Seq(S) /\ \A y \in S : {"name", "ip"} \subseteq DOMAIN y
  BY DEF DeviceRows
<1>2. Len(rows) \in Nat /\ DOMAIN rows = 1..Len(rows)
  BY <1>1
<1>3. PICK T : T = S \cup {x}
  OBVIOUS
<1>4. rows \in Seq(T) /\ x \in T /\ \A y \in T : {"name", "ip"} \subseteq DOMAIN y
  BY <1>1, <1>3
<1>5. CASE k = 0
  <2>1. new = Append(rows, x)
    <3>1. new = rows \o <<x>>
      BY <1>5 DEF Stored
    <3>. QED
      BY <1>4, <3>1
  <2>2. new \in Seq(T)
    BY <1>4, <2>1
  <2>3. /\ DOMAIN new = 1..(Len(rows) + 1) /\ new[Len(rows) + 1] = x
        /\ \A i \in DOMAIN rows : new[i] = rows[i]
    BY <1>2, <1>4, <2>1
  <2>4. \A i \in DOMAIN rows : rows[i].name # n
    BY <1>5, RowIsFirst
  <2>. HIDE DEF new
  <2>5. ASSUME NEW i \in DOMAIN new, First(new, i, p) PROVE new[i].ip = a
    <3>1. CASE i \in DOMAIN rows
      <4>1. p # n /\ First(rows, i, p)
        BY <1>2, <2>3, <2>4, <2>5, <3>1 DEF First
      <4>. QED
        BY <2>3, <3>1, <4>1 DEF Agrees
    <3>2. CASE i = Len(rows) + 1
      BY <2>3, <2>5, <3>2 DEF First
    <3>. QED
      BY <1>2, <2>3, <3>1, <3>2
  <2>6. DeviceRows(new)
    BY <1>4, <2>2 DEF DeviceRows
  <2>7. Agrees(new, p, a)
    BY <2>5 DEF Agrees
  <2>. QED
    BY <2>6, <2>7 DEF new
<1>6. CASE k # 0
  <2>1. First(rows, k, n)
    BY <1>6, RowIsFirst
  <2>. HIDE DEF k
  <2>2. new = [rows EXCEPT ![k] = x]
    BY <1>6 DEF Stored, ReplaceAt, k
  <2>3. new \in Seq(T) /\ DOMAIN new = DOMAIN rows
    BY <1>4, <2>1, <2>2 DEF First
  <2>4. new[k] = x /\ \A i \in DOMAIN rows : i # k => new[i] = rows[i]
    BY <1>2, <2>1, <2>2 DEF First
  <2>. HIDE DEF new
  <2>5. ASSUME NEW i \in DOMAIN new, First(new, i, p) PROVE new[i].ip = a
    <3>1. \A j \in DOMAIN rows : new[j].name = rows[j].name
      BY <2>1, <2>4 DEF First
    <3>2. First(rows, i, p)
      BY <2>3, <2>5, <3>1 DEF First
    <3>3. CASE p = n
      <4>1. i = k
        BY <1>2, <2>1, <3>2, <3>3 DEF First
      <4>. QED
        BY <2>4, <3>3, <4>1
    <3>4. CASE p # n
      BY <2>1, <2>3, <2>4, <3>2, <3>4 DEF First, Agrees
    <3>. QED
      BY <3>3, <3>4
  <2>6. DeviceRows(new)
    BY <1>4, <2>3 DEF DeviceRows
  <2>7. Agrees(new, p, a)
    BY <2>5 DEF Agrees
  <2>. QED
    BY <2>6, <2>7 DEF new
<1>. QED
  BY <1>5, <1>6

\* New fields change neither names nor addresses.
LEMMA FieldsAgree ==
    ASSUME NEW rows, DeviceRows(rows), NEW n, NEW f
    PROVE  /\ DeviceRows(WithFields(rows, n, f))
           /\ \A p, a : Agrees(rows, p, a) => Agrees(WithFields(rows, n, f), p, a)
<1>. DEFINE new == WithFields(rows, n, f)
            With(x) == IF x.name = n THEN [x EXCEPT !.fields = f] ELSE x
<1>1. PICK S : rows \in Seq(S) /\ \A y \in S : {"name", "ip"} \subseteq DOMAIN y
  BY DEF DeviceRows
<1>2. new = [i \in DOMAIN rows |-> With(rows[i])]
  BY DEF WithFields
<1>3. \A x \in S : /\ With(x).name = x.name /\ With(x).ip = x.ip
                   /\ {"name", "ip"} \subseteq DOMAIN With(x)
  BY <1>1
<1>. HIDE DEF new, With
<1>4. PICK T : T = {With(x) : x \in S}
  OBVIOUS
<1>5. new \in Seq(T)
  BY <1>1, <1>2, <1>4
<1>6. DeviceRows(new)
  BY <1>3, <1>4, <1>5 DEF DeviceRows
<1>7. ASSUME NEW i \in DOMAIN rows PROVE new[i].name = rows[i].name /\ new[i].ip = rows[i].ip
  <2>1. rows[i] \in S
    BY <1>1
  <2>. QED
    BY <1>2, <1>3, <2>1
<1>8. DOMAIN new = DOMAIN rows
  BY <1>2
<1>9. ASSUME NEW p, NEW a, Agrees(rows, p, a) PROVE Agrees(new, p, a)
  BY <1>7, <1>8, <1>9 DEF Agrees, First
<1>. QED
  BY <1>6, <1>9 DEF new

\* A listing of the ports has the address of each.
LEMMA ListAgrees ==
    ASSUME NEW order, order = SetToSeq(Ports), NEW rows, DOMAIN rows = DOMAIN order,
           rows = [i \in DOMAIN rows |-> rows[i]], NEW a,
           \A i \in DOMAIN rows : /\ {"name", "ip"} \subseteq DOMAIN rows[i]
                                  /\ rows[i].ip = a[rows[i].name]
    PROVE  DeviceRows(rows) /\ \A p : Agrees(rows, p, a[p])
<1>1. PICK S : S = {rows[i] : i \in DOMAIN rows}
  OBVIOUS
<1>2. order \in Seq(Ports)
  BY ListOf, KernelAssumption
<1>3. rows \in Seq(S)
  BY <1>1, <1>2
<1>. QED
  BY <1>1, <1>3 DEF DeviceRows, Agrees, First

-----------------------------------------------------------------------------
Addressing(r) == r \in InFlight /\ job[r].op = "address"

\* No request for the port is under way, and the last one left no doubt.
Clean(p) == p \notin doubt /\ \A r \in Requests : Addressing(r) => job[r].name # p

\* The rows an address request is about to store.
RowsOK(r) ==
    /\ DeviceRows(job[r].rows)
    /\ job[r].all \/ \E x : /\ job[r].rows = <<x>> /\ x.name = job[r].name
                            /\ {"name", "ip"} \subseteq DOMAIN x
    /\ \A p \in Ports : Clean(p) => Agrees(job[r].rows, p, ip[p])

\* A request that met no other one: what it holds, has under way or has stored
\* agrees with the kernel for its own port.
AloneAgrees(r) ==
    LET p == job[r].name
    IN  /\ lock = r => Agrees(save.next.device, p, ip[p])
        /\ lock # r /\ At(r, "storing") => Agrees(job[r].rows, p, ip[p])
        /\ lock # r /\ At(r, "fielding") => Agrees(file.device, p, ip[p])

FileAgrees ==
    /\ DeviceRows(file.device)
    /\ \A p \in Ports : Clean(p) => Agrees(file.device, p, ip[p])

SaveAgrees ==
    /\ DeviceRows(save.next.device)
    /\ \A p \in Ports : Clean(p) => Agrees(save.next.device, p, ip[p])

\* The file, and what is on its way to it, has the address of each clean port.
AddressInv ==
    /\ ip = [p \in Ports |-> ip[p]]
    /\ FileAgrees
    /\ Torn => SaveAgrees
    /\ \A r \in Requests : Addressing(r) /\ At(r, "storing") => RowsOK(r)
    /\ \A r \in Requests : Addressing(r) /\ r \notin contended => AloneAgrees(r)

\* A request for an address that ends with success and met no other one.
EndsSound(r) == Addressing(r) /\ r \notin contended /\ At(r, "ok")'

\* What a request that goes on keeps, and what no step of it leaves.
LEMMA MovedJob ==
    ASSUME RequestsOK, NEW r \in Requests, Moved(r)
    PROVE  /\ r \in InFlight /\ job'[r].step \notin Ended =>
                  job'[r].op = job[r].op /\ job'[r].name = job[r].name
           /\ UNCHANGED job => UNCHANGED contended
<1>1. CASE \E j : JobOK(j) /\ j.step \notin Ended /\ Begin(r, j)
  <2>1. PICK j : JobOK(j) /\ j.step \notin Ended /\ Begin(r, j)
    BY <1>1
  <2>2. job[r].step = "unasked" /\ job'[r] = j
    BY <2>1 DEF Begin, At, RequestsOK
  <2>. QED
    BY <2>1, <2>2 DEF InFlight, Ended
<1>2. CASE /\ r \in InFlight /\ UNCHANGED contended
           /\ \E j : /\ JobOK(j) /\ j.step \notin Ended /\ job' = [job EXCEPT ![r] = j]
                     /\ j.op = job[r].op /\ j.name = job[r].name
  BY <1>2 DEF RequestsOK
<1>3. CASE r \in InFlight /\ \E result \in Ended : Finish(r, result)
  <2>1. job'[r].step \in Ended
    BY <1>3 DEF Finish, RequestsOK
  <2>. QED
    BY <1>3, <2>1 DEF InFlight
<1>4. CASE UNCHANGED <<job, contended>>
  BY <1>4
<1>. QED
  BY <1>1, <1>2, <1>3, <1>4 DEF Moved

\* A port becomes clean only by such a request for it.
LEMMA CleanStep ==
    ASSUME RequestInv, NEW r \in Requests, Serve(r), Doubted, NEW p, Clean(p)'
    PROVE  Clean(p) \/ (EndsSound(r) /\ job[r].name = p)
<1>. DEFINE ended == {s \in InFlight : job[s].op = "address" /\ job'[s].step \in Ended}
            sound == {s \in ended \ contended : At(s, "ok")'}
<1>1. doubt' = (doubt \cup {job[s].name : s \in ended}) \ {job[s].name : s \in sound}
  BY DEF Doubted
<1>2. Moved(r) /\ \A s \in Requests : s # r => job'[s] = job[s]
  BY ServeRequests
<1>3. \A s \in sound : s = r
  BY <1>2 DEF InFlight, At, Ended
<1>4. \A s \in sound : EndsSound(s)
  BY DEF EndsSound, Addressing
<1>5. CASE \E s \in sound : job[s].name = p
  BY <1>3, <1>4, <1>5
<1>6. CASE \A s \in sound : job[s].name # p
  <2>1. p \notin doubt /\ \A s \in ended : job[s].name # p
    BY <1>1, <1>6 DEF Clean
  <2>2. ASSUME NEW s \in Requests, Addressing(s), job[s].name = p PROVE FALSE
    <3>1. s \in InFlight /\ job[s].op = "address"
      BY <2>2 DEF Addressing
    <3>2. job'[s].step \notin Ended
      BY <2>1, <2>2, <3>1
    <3>3. job'[s].op = job[s].op /\ job'[s].name = job[s].name
      <4>1. CASE s # r
        BY <1>2, <4>1
      <4>2. CASE s = r
        BY <1>2, <3>1, <3>2, <4>2, MovedJob DEF RequestInv
      <4>. QED
        BY <4>1, <4>2
    <3>. QED
      BY <2>2, <3>1, <3>2, <3>3 DEF Clean, Addressing, InFlight
  <2>. QED
    BY <2>1, <2>2 DEF Clean
<1>. QED
  BY <1>5, <1>6

\* A step of a request leaves no other one in flight that met none, unless it
\* is that of a generator.
LEMMA AloneStep ==
    ASSUME RequestInv, NEW r \in Requests, Serve(r), ~ UNCHANGED job,
           NEW s \in Requests, s \in InFlight', s \notin contended'
    PROVE  s = r
<1>1. RequestInv' /\ Moved(r) /\ \A q \in Requests : q # r => job'[q] = job[q]
  BY ServeRequests
<1>2. SUFFICES ASSUME s # r PROVE FALSE
  OBVIOUS
<1>3. InFlight' = {s}
  BY <1>1 DEF RequestInv, RequestsOK
<1>4. s \in InFlight
  BY <1>1, <1>2 DEF InFlight
<1>5. r \in InFlight /\ \E result \in Ended : Finish(r, result)
  <2>1. r \notin InFlight'
    BY <1>2, <1>3
  <2>2. job'[r].step \in Ended
    BY <2>1 DEF InFlight
  <2>. QED
    BY <1>1, <2>2 DEF Moved, Begin, RequestInv, RequestsOK
<1>6. s \notin contended
  BY <1>2, <1>5 DEF Finish
<1>. QED
  BY <1>2, <1>4, <1>5, <1>6 DEF RequestInv, RequestsOK

\* A step that leaves the file, the lock and the addresses, reads no rows of
\* ports, and ends no address request that met no other one with success.
Calm(r) ==
    /\ UNCHANGED fileVars /\ UNCHANGED ip
    /\ UNCHANGED job \/ lock # r
    /\ UNCHANGED job \/ ~ (Addressing(r)' /\ At(r, "storing")')
    /\ UNCHANGED job \/ r \in contended' \/ ~ (Addressing(r)' /\ At(r, "fielding")')
    /\ ~ EndsSound(r)

LEMMA CalmAddresses ==
    ASSUME RequestInv, AddressInv, NEW r \in Requests, Serve(r), Doubted, Calm(r)
    PROVE  AddressInv'
<1>1. RequestInv' /\ Moved(r) /\ \A s \in Requests : s # r => job'[s] = job[s]
  BY ServeRequests
<1>2. \A p \in Ports : Clean(p)' => Clean(p)
  BY CleanStep DEF Calm
<1>3. file' = file /\ lock' = lock /\ save' = save /\ ip' = ip /\ Torn' = Torn
  BY DEF Calm, fileVars, Torn
<1>4. FileAgrees' /\ (Torn => SaveAgrees)'
  BY <1>2, <1>3 DEF AddressInv, FileAgrees, SaveAgrees
<1>5. ASSUME NEW s \in Requests, Addressing(s)', At(s, "storing")' PROVE RowsOK(s)'
  <2>1. job'[s] = job[s]
    BY <1>1, <1>5 DEF Calm
  <2>2. Addressing(s) /\ At(s, "storing")
    BY <1>5, <2>1 DEF Addressing, At, InFlight
  <2>3. RowsOK(s)
    BY <2>2 DEF AddressInv
  <2>. QED
    BY <1>2, <1>3, <2>1, <2>3 DEF RowsOK
<1>6. ASSUME NEW s \in Requests, Addressing(s)', s \notin contended' PROVE AloneAgrees(s)'
  <2>1. CASE UNCHANGED job
    <3>1. Addressing(s) /\ UNCHANGED contended
      <4>1. UNCHANGED contended
        BY <1>1, <2>1, MovedJob DEF RequestInv
      <4>. QED
        BY <1>6, <2>1, <4>1 DEF Addressing, InFlight
    <3>2. AloneAgrees(s)
      BY <1>6, <3>1 DEF AddressInv
    <3>. QED
      BY <1>3, <2>1, <3>2 DEF AloneAgrees, At
  <2>2. CASE ~ UNCHANGED job
    <3>1. s = r
      BY <1>6, <2>2, AloneStep DEF Addressing
    <3>. QED
      BY <1>3, <1>6, <2>2, <3>1 DEF Calm, AloneAgrees
  <2>. QED
    BY <2>1, <2>2
<1>7. ip' = [p \in Ports |-> ip'[p]]
  BY <1>3 DEF AddressInv
<1>. QED
  BY <1>4, <1>5, <1>6, <1>7 DEF AddressInv

\* Quiet steps, by the step they lead to.
LEMMA CalmStep ==
    ASSUME NEW r \in Requests, Quiet(r), UNCHANGED ip,
           job'[r].step \notin {"storing", "fielding", "ok"}
    PROVE  Calm(r)
BY DEF Calm, Quiet, At, EndsSound

LEMMA AskCalm ==
    ASSUME RequestInv, NEW r \in Requests,
           AskInterfaces(r) \/ (AskRoutes(r) /\ UNCHANGED kernelVars)
    PROVE  Calm(r)
<1>1. Quiet(r)
  BY AskQuiet
<1>2. CASE AskInterfaces(r)
  <2>1. Accepted(r)
    BY <1>2, AskMoves DEF RequestInv
  <2>2. PICK op, n, add, drop, f, a, step :
           /\ step \in {"adding", "joining", "addressing", "removing", "fetching"}
           /\ Begin(r, Asked(op, n, add, drop, f, a, step))
    BY <2>1 DEF Accepted
  <2>3. job'[r].step = step
    BY <2>2 DEF Begin, Asked, RequestInv, RequestsOK
  <2>. QED
    BY <1>1, <2>1, <2>2, <2>3, CalmStep DEF Accepted, kernelVars
<1>3. CASE AskRoutes(r) /\ UNCHANGED kernelVars
  <2>1. \E op, old, x, rows : Begin(r, RouteJob(op, old, x, rows))
    BY <1>3 DEF AskRoutes, CreateStaticRoute, DeleteStaticRoute, UpdateStaticRoute
  <2>2. job'[r].step = "routing"
    BY <2>1 DEF Begin, RouteJob, RequestInv, RequestsOK
  <2>. QED
    BY <1>1, <1>3, <2>2, CalmStep DEF kernelVars
<1>. QED
  BY <1>2, <1>3

LEMMA GotoStep ==
    ASSUME RequestsOK, NEW r \in Requests, NEW step, Goto(r, step)
    PROVE  job'[r].step = step
<1>1. "step" \in DOMAIN job[r]
  BY DEF RequestsOK, JobOK
<1>. QED
  BY <1>1 DEF Goto, RequestsOK

LEMMA FinishStep ==
    ASSUME RequestsOK, NEW r \in Requests, NEW result, Finish(r, result)
    PROVE  job'[r].step = result
BY DEF Finish, RequestsOK

LEMMA FailStep ==
    ASSUME RequestsOK, NEW r \in Requests, Fail(r)
    PROVE  job'[r].step \in {"undoing", "failed"}
BY GotoStep, FinishStep DEF Fail

LEMMA KernelCalm ==
    ASSUME RequestInv, NEW r \in Requests,
           \/ LinkAdd(r) \/ Join(r) \/ Undo(r) \/ Leave(r) \/ LinkDel(r)
           \/ FetchFields(r) \/ CheckSection(r) \/ SavePanics(r)
    PROVE  Calm(r)
<1>1. Quiet(r) /\ UNCHANGED ip
  <2>1. ~ Save(r) /\ ~ SaveDone(r)
    <3>1. CASE SavePanics(r)
      BY <3>1, StoreAssumption DEF SavePanics, Save, SaveDone, WriteAndUnlock
    <3>2. CASE ~ SavePanics(r)
      BY <3>2 DEF LinkAdd, Join, Undo, Leave, LinkDel, FetchFields, CheckSection, Save, SaveDone, At, Savings
    <3>. QED
      BY <3>1, <3>2
  <2>2. UNCHANGED ip
    BY DEF LinkAdd, Join, Undo, Leave, LinkDel, FetchFields, CheckSection, SavePanics, kernelVars
  <2>. QED
    BY <2>1, <2>2, StepQuiet DEF ServeInterfaces
<1>2. ASSUME FetchFields(r) PROVE job'[r].step = "checking"
  <2>. DEFINE old == FieldsOf(file[IF job[r].section = "bond" THEN "vlan" ELSE job[r].section],
                              job[r].name)
  <2>1. job'[r] = [job[r] EXCEPT !.old = old, !.step = "checking"]
    BY <1>2 DEF FetchFields, RequestInv, RequestsOK
  <2>2. "step" \in DOMAIN job[r]
    BY DEF RequestInv, RequestsOK, JobOK
  <2>. QED
    BY <2>1, <2>2
<1>3. ASSUME CheckSection(r) PROVE job'[r].step = "listing"
  <2>. DEFINE all == CheckIfInterfaceTypeIsEmpty(job[r].section)
  <2>1. job'[r] = [job[r] EXCEPT !.all = all, !.step = "listing"]
    BY <1>3 DEF CheckSection, RequestInv, RequestsOK
  <2>2. "step" \in DOMAIN job[r]
    BY DEF RequestInv, RequestsOK, JobOK
  <2>. QED
    BY <2>1, <2>2
<1>4. ASSUME LinkAdd(r) \/ Join(r) \/ Undo(r) \/ Leave(r) \/ LinkDel(r) \/ SavePanics(r)
      PROVE  job'[r].step \notin {"storing", "fielding", "ok"}
  <2>1. \/ Finish(r, "failed") \/ Fail(r)
        \/ \E step \in {"joining", "checking", "leaving", "fetching", "forgetting"} : Goto(r, step)
    BY <1>4 DEF LinkAdd, Join, Undo, Leave, LinkDel, SavePanics
  <2>2. job'[r].step \in {"failed", "undoing", "joining", "checking", "leaving", "fetching", "forgetting"}
    BY <2>1, GotoStep, FinishStep, FailStep DEF RequestInv
  <2>. QED
    BY <2>2
<1>. QED
  BY <1>1, <1>2, <1>3, <1>4, CalmStep

\* Links are listed for no address request.
LEMMA ListCalm ==
    ASSUME RequestInv, NEW r \in Requests, ListLinks(r)
    PROVE  Calm(r)
<1>1. Quiet(r) /\ UNCHANGED ip
  BY StepQuiet DEF ListLinks, Save, SaveDone, At, Savings, ServeInterfaces, kernelVars
<1>2. ~ Addressing(r)'
  <2>1. job[r].op # "address" /\ r \in InFlight
    BY InFlightLink DEF RequestInv, ListLinks, At, LinkSteps
  <2>2. Moved(r)
    BY ListingMoves DEF RequestInv
  <2>3. r \in InFlight' => job'[r].op = job[r].op
    BY <2>1, <2>2, MovedJob DEF RequestInv, InFlight
  <2>. QED
    BY <2>1, <2>3 DEF Addressing
<1>3. ~ EndsSound(r)
  BY DEF EndsSound, Addressing, ListLinks
<1>. QED
  BY <1>1, <1>2, <1>3 DEF Calm, Quiet

\* A request that waits for the lock has met its holder.
LEMMA TimeoutCalm ==
    ASSUME RequestInv, NEW r \in Requests,
           SaveTimesOut(r) \/ (RoutesTimeOut(r) /\ UNCHANGED kernelVars)
    PROVE  Calm(r)
<1>1. UNCHANGED fileVars /\ lock # r /\ Torn /\ UNCHANGED ip
  BY DEF SaveTimesOut, RoutesTimeOut, LockTimedOut, kernelVars, Torn
<1>2. r \in InFlight /\ lock \in InFlight
  BY <1>1 DEF RequestInv, FileOK, InFlight, Ended, Savings, SaveTimesOut, RoutesTimeOut, At, Torn
<1>3. r \in contended
  BY <1>1, <1>2 DEF RequestInv, RequestsOK
<1>4. ~ EndsSound(r)
  BY <1>3 DEF EndsSound
<1>5. ASSUME Goto(r, "fielding") PROVE Calm(r)
  <2>1. job'[r].step = "fielding" /\ contended' = contended
    BY <1>5, GotoStep DEF RequestInv, Goto
  <2>. QED
    BY <1>1, <1>3, <1>4, <2>1 DEF Calm, At
<1>6. ASSUME job'[r].step \in {"ok", "failed", "undoing"} PROVE Calm(r)
  BY <1>1, <1>4, <1>6 DEF Calm, At
<1>7. Finish(r, "ok") \/ Finish(r, "failed") \/ Fail(r) \/ Goto(r, "fielding")
  BY DEF SaveTimesOut, RoutesTimeOut, AfterStoring
<1>. QED
  BY <1>5, <1>6, <1>7, FinishStep, FailStep DEF RequestInv

\* A change of an address leaves its port in doubt or its request under way.
LEMMA SetAddresses ==
    ASSUME RequestInv, AddressInv, NEW r \in Requests, SetAddress(r), Serve(r), Doubted
    PROVE  AddressInv'
<1>. DEFINE q == job[r].name
<1>1. RequestInv' /\ Moved(r) /\ \A s \in Requests : s # r => job'[s] = job[s]
  BY ServeRequests
<1>2. Addressing(r) /\ job[r].step = "addressing"
  BY InFlightLink DEF RequestInv, SetAddress, At, LinkSteps, LinkJobOK, Addressing
<1>3. file' = file /\ lock' = lock /\ save' = save /\ Torn' = Torn
  BY DEF SetAddress, fileVars, Torn
<1>4. job'[r].step \in {"fetching", "failed"}
  BY GotoStep, FinishStep DEF SetAddress, RequestInv
<1>5. ~ EndsSound(r)
  BY <1>4 DEF EndsSound, At
<1>6. \A p \in Ports : Clean(p)' => Clean(p) /\ p # q
  BY <1>2, <1>5, CleanStep DEF Clean
<1>7. ip' = [p \in Ports |-> ip'[p]] /\ \A p \in Ports : p # q => ip'[p] = ip[p]
  BY DEF SetAddress, AddressInv
<1>8. FileAgrees' /\ (Torn => SaveAgrees)'
  BY <1>3, <1>6, <1>7 DEF AddressInv, FileAgrees, SaveAgrees
<1>9. ASSUME NEW s \in Requests, Addressing(s)', At(s, "storing")' PROVE RowsOK(s)'
  <2>1. s # r /\ job'[s] = job[s]
    BY <1>1, <1>4, <1>9 DEF At
  <2>2. RowsOK(s)
    BY <1>9, <2>1 DEF AddressInv, Addressing, At, InFlight
  <2>. QED
    BY <1>6, <1>7, <2>1, <2>2 DEF RowsOK
<1>10. ASSUME NEW s \in Requests, Addressing(s)', s \notin contended' PROVE AloneAgrees(s)'
  <2>1. s = r
    <3>1. ~ UNCHANGED job
      BY <1>2, <1>4
    <3>. QED
      BY <1>10, <3>1, AloneStep DEF Addressing
  <2>2. lock # r
    BY <1>2, StoreAssumption DEF RequestInv, FileOK, Torn, Savings
  <2>. QED
    BY <1>3, <1>4, <2>1, <2>2 DEF AloneAgrees, At
<1>. QED
  BY <1>7, <1>8, <1>9, <1>10 DEF AddressInv

\* What is listed is what the kernel has now.
LEMMA ListAddresses ==
    ASSUME RequestInv, AddressInv, NEW r \in Requests, ListPorts(r), Serve(r), Doubted
    PROVE  AddressInv'
<1>. DEFINE q == job[r].name
            rows == IF job[r].all THEN ListedPorts ELSE <<DescribedPort(q)>>
            j == [job[r] EXCEPT !.step = "storing", !.rows = rows]
<1>1. RequestInv' /\ Moved(r) /\ \A s \in Requests : s # r => job'[s] = job[s]
  BY ServeRequests
<1>2. Addressing(r) /\ DOMAIN job[r] = JobFields /\ job[r].step = "listing"
  BY InFlightLink DEF RequestInv, ListPorts, At, LinkSteps, LinkJobOK, Addressing
<1>3. /\ file' = file /\ lock' = lock /\ save' = save /\ Torn' = Torn /\ ip' = ip
      /\ contended' = contended
  BY DEF ListPorts, fileVars, kernelVars, Torn
<1>4. job'[r] = j
  BY DEF ListPorts, RequestInv, RequestsOK
<1>. HIDE DEF rows
<1>5. j.step = "storing" /\ j.rows = rows /\ j.name = q /\ j.all = job[r].all /\ j.op = "address"
  BY <1>2 DEF JobFields, Addressing
<1>. HIDE DEF j
<1>6. \A p \in Ports : Clean(p)' => Clean(p) /\ p # q
  <2>1. ~ EndsSound(r)
    BY <1>4, <1>5 DEF EndsSound, At
  <2>. QED
    BY <1>2, <2>1, CleanStep DEF Clean
<1>7. FileAgrees' /\ (Torn => SaveAgrees)'
  BY <1>3, <1>6 DEF AddressInv, FileAgrees, SaveAgrees
<1>8. ASSUME job[r].all PROVE DeviceRows(rows) /\ \A p : Agrees(rows, p, ip[p])
  <2>1. PICK order : order = SetToSeq(Ports)
    OBVIOUS
  <2>2. rows = [i \in DOMAIN order |-> DescribedPort(order[i])]
    BY <1>8, <2>1 DEF rows, ListedPorts
  <2>3. \A i \in DOMAIN rows : /\ {"name", "ip"} \subseteq DOMAIN rows[i]
                               /\ rows[i].ip = ip[rows[i].name]
    BY <2>2 DEF DescribedPort
  <2>4. DOMAIN rows = DOMAIN order /\ rows = [i \in DOMAIN rows |-> rows[i]]
    BY <2>2
  <2>. QED
    BY <2>1, <2>3, <2>4, ListAgrees
<1>9. ASSUME ~ job[r].all
      PROVE  /\ DeviceRows(rows) /\ Agrees(rows, q, ip[q])
             /\ \A p \in Ports : p # q => Agrees(rows, p, ip[p])
             /\ \E x : rows = <<x>> /\ x.name = q /\ {"name", "ip"} \subseteq DOMAIN x
  <2>. DEFINE x == DescribedPort(q)
  <2>1. x.name = q /\ x.ip = ip[q] /\ {"name", "ip"} \subseteq DOMAIN x
    BY DEF DescribedPort
  <2>. HIDE DEF x
  <2>2. rows = <<x>>
    BY <1>9 DEF rows, x
  <2>3. rows \in Seq({x}) /\ DOMAIN rows = {1} /\ rows[1] = x
    BY <2>2
  <2>4. DeviceRows(rows)
    BY <2>1, <2>3 DEF DeviceRows
  <2>5. Agrees(rows, q, ip[q]) /\ \A p \in Ports : p # q => Agrees(rows, p, ip[p])
    BY <2>1, <2>3 DEF Agrees, First
  <2>. QED
    BY <2>1, <2>2, <2>4, <2>5
<1>10. Agrees(rows, q, ip[q]) /\ \A p \in Ports : p # q => Agrees(rows, p, ip[p])
  BY <1>8, <1>9
<1>11. ASSUME NEW s \in Requests, Addressing(s)', At(s, "storing")' PROVE RowsOK(s)'
  <2>1. CASE s = r
    BY <1>3, <1>4, <1>5, <1>6, <1>8, <1>9, <1>10, <2>1 DEF RowsOK
  <2>2. CASE s # r
    <3>1. job'[s] = job[s]
      BY <1>1, <2>2
    <3>2. RowsOK(s)
      BY <1>11, <3>1 DEF AddressInv, Addressing, At, InFlight
    <3>. QED
      BY <1>3, <1>6, <3>1, <3>2 DEF RowsOK
  <2>. QED
    BY <2>1, <2>2
<1>12. ASSUME NEW s \in Requests, Addressing(s)', s \notin contended' PROVE AloneAgrees(s)'
  <2>1. s = r
    <3>1. ~ UNCHANGED job
      BY <1>2, <1>4, <1>5
    <3>. QED
      BY <1>12, <3>1, AloneStep DEF Addressing
  <2>2. lock # r
    BY <1>2, StoreAssumption DEF RequestInv, FileOK, Torn, Savings
  <2>. QED
    BY <1>3, <1>4, <1>5, <1>10, <2>1, <2>2 DEF AloneAgrees, At
<1>13. ip' = [p \in Ports |-> ip'[p]]
  BY <1>3 DEF AddressInv
<1>. QED
  BY <1>7, <1>11, <1>12, <1>13 DEF AddressInv

\* The section of ports as a save will leave it.
LEMMA NewSectionAgrees ==
    ASSUME RequestInv, AddressInv, NEW r \in Requests, Save(r), job[r].section = "device"
    PROVE  /\ DeviceRows(NewSection(r))
           /\ \A p \in Ports : Clean(p) => Agrees(NewSection(r), p, ip[p])
           /\ r \notin contended => Agrees(NewSection(r), job[r].name, ip[job[r].name])
<1>. DEFINE rows == file.device
            q == job[r].name
            new == NewSection(r)
<1>1. /\ Addressing(r) /\ lock # r
      /\ job[r].step = "storing" \/ job[r].step = "fielding"
  <2>1. LinkJobOK(job[r]) /\ r \in InFlight
    BY InFlightLink DEF RequestInv, Save, LinkSteps
  <2>2. job[r].op = "address" /\ job[r].step # "forgetting"
    BY <2>1 DEF LinkJobOK
  <2>3. lock # r
    BY StoreAssumption DEF Save, LockAndTruncate
  <2>. QED
    BY <2>1, <2>2, <2>3 DEF Addressing, Save, Savings
<1>2. DeviceRows(rows) /\ \A p \in Ports : Clean(p) => p # q /\ Agrees(rows, p, ip[p])
  BY <1>1 DEF AddressInv, FileAgrees, Clean, Addressing
<1>3. CASE job[r].step = "storing"
  <2>1. RowsOK(r) /\ (r \notin contended => Agrees(job[r].rows, q, ip[q]))
    BY <1>1, <1>3 DEF AddressInv, AloneAgrees, At
  <2>2. CASE job[r].all
    <3>1. new = job[r].rows
      BY <1>1, <1>3, <2>2 DEF NewSection, Addressing
    <3>. QED
      BY <2>1, <3>1 DEF RowsOK
  <2>3. CASE ~ job[r].all
    <3>1. PICK x : job[r].rows = <<x>> /\ x.name = q /\ {"name", "ip"} \subseteq DOMAIN x
      BY <2>1, <2>3 DEF RowsOK
    <3>2. new = Stored(rows, q, <<x>>)
      BY <1>1, <1>3, <2>3, <3>1 DEF NewSection, Addressing
    <3>3. r \notin contended => x.ip = ip[q]
      <4>1. First(<<x>>, 1, q) /\ 1 \in DOMAIN <<x>>
        BY <3>1 DEF First
      <4>. QED
        BY <2>1, <3>1, <4>1 DEF Agrees
    <3>. HIDE DEF new, rows
    <3>4. DeviceRows(new)
      BY <1>2, <3>1, <3>2, StoredAgrees
    <3>5. \A p \in Ports : Clean(p) => Agrees(new, p, ip[p])
      BY <1>2, <3>1, <3>2, StoredAgrees
    <3>6. r \notin contended => Agrees(new, q, ip[q])
      BY <1>2, <3>1, <3>2, <3>3, StoredAgrees
    <3>. QED
      BY <3>4, <3>5, <3>6 DEF new
  <2>. QED
    BY <2>2, <2>3
<1>4. CASE job[r].step = "fielding"
  <2>1. new = WithFields(rows, q, job[r].fields)
    BY <1>4 DEF NewSection
  <2>2. r \notin contended => Agrees(rows, q, ip[q])
    BY <1>1, <1>4 DEF AddressInv, AloneAgrees, At
  <2>. HIDE DEF new, rows
  <2>3. DeviceRows(new) /\ \A p, a : Agrees(rows, p, a) => Agrees(new, p, a)
    BY <1>2, <2>1, FieldsAgree
  <2>. QED
    BY <1>2, <2>2, <2>3 DEF new
<1>. QED
  BY <1>1, <1>3, <1>4

\* The section of ports as the file will have it after any save.
LEMMA NextDevice ==
    ASSUME RequestInv, AddressInv, NEW r \in Requests, Truncates(r)
    PROVE  /\ DeviceRows(save'.next.device)
           /\ \A p \in Ports : Clean(p) => Agrees(save'.next.device, p, ip[p])
           /\ Addressing(r) /\ r \notin contended =>
                  Agrees(save'.next.device, job[r].name, ip[job[r].name])
<1>1. CASE job[r].section = "device"
  <2>1. Save(r)
    BY <1>1 DEF Truncates, UpdateStaticRouteConfig, At, RequestInv, RequestsOK, JobOK, RouteJobOK, RouteKinds
  <2>2. save'.next = [file EXCEPT !["device"] = NewSection(r)]
    BY <1>1, <2>1 DEF Save, LockAndTruncate
  <2>3. save'.next["device"] = NewSection(r)
    BY <2>2 DEF RequestInv, FileOK, IsFile, Sections
  <2>. QED
    BY <1>1, <2>1, <2>3, NewSectionAgrees
<1>2. CASE job[r].section # "device"
  <2>1. save'.next["device"] = file["device"]
    BY <1>2, TruncatedFile DEF Sections
  <2>2. ~ Addressing(r)
    <3>1. job[r].step \in Savings \cup {"routing"}
      BY TruncatedFile
    <3>2. CASE job[r].step = "routing"
      BY <3>2 DEF RequestInv, RequestsOK, JobOK, RouteJobOK, Addressing
    <3>3. CASE job[r].step \in Savings
      BY <1>2, <3>3, InFlightLink DEF RequestInv, LinkSteps, LinkJobOK, Addressing
    <3>. QED
      BY <3>1, <3>2, <3>3
  <2>. QED
    BY <2>1, <2>2 DEF AddressInv, FileAgrees
<1>. QED
  BY <1>1, <1>2

LEMMA NoRows ==
    /\ DeviceRows(EmptyFile.device)
    /\ \A p, a : Agrees(EmptyFile.device, p, a)
<1>1. EmptyFile.device = <<>>
  BY DEF EmptyFile, Sections
<1>2. DOMAIN <<>> = {} /\ <<>> \in Seq({})
  OBVIOUS
<1>. QED
  BY <1>1, <1>2 DEF DeviceRows, Agrees

LEMMA TruncatedAddresses ==
    ASSUME RequestInv, AddressInv, NEW r \in Requests, Truncates(r), UNCHANGED ip, Serve(r), Doubted
    PROVE  AddressInv'
<1>1. /\ UNCHANGED <<job, contended>> /\ lock' = r /\ file' = EmptyFile
      /\ job[r].step \in Savings \cup {"routing"}
  BY TruncatedFile
<1>2. \A p \in Ports : Clean(p)' => Clean(p)
  <2>1. ~ EndsSound(r)
    BY <1>1 DEF EndsSound, At, Savings
  <2>. QED
    BY <2>1, CleanStep
<1>3. FileAgrees' /\ (Torn => SaveAgrees)'
  BY <1>1, <1>2, NextDevice, NoRows DEF FileAgrees, SaveAgrees
<1>4. InFlight' = InFlight
  BY <1>1 DEF InFlight
<1>5. ASSUME NEW s \in Requests, Addressing(s)', At(s, "storing")' PROVE RowsOK(s)'
  <2>1. RowsOK(s)
    BY <1>1, <1>4, <1>5 DEF AddressInv, Addressing, At
  <2>. QED
    BY <1>1, <1>2, <2>1 DEF RowsOK
<1>6. ASSUME NEW s \in Requests, Addressing(s)', s \notin contended' PROVE AloneAgrees(s)'
  <2>1. Addressing(s) /\ s \notin contended
    BY <1>1, <1>4, <1>6 DEF Addressing
  <2>2. r \in InFlight
    BY <1>1 DEF InFlight, Savings, Ended
  <2>3. s = r
    BY <2>1, <2>2 DEF RequestInv, RequestsOK, Addressing
  <2>4. Agrees(save'.next.device, job[r].name, ip[job[r].name])
    BY <2>1, <2>3, NextDevice
  <2>. QED
    BY <1>1, <2>3, <2>4 DEF AloneAgrees
<1>7. ip' = [p \in Ports |-> ip'[p]]
  BY DEF AddressInv
<1>. QED
  BY <1>3, <1>5, <1>6, <1>7 DEF AddressInv

LEMMA WrittenAddresses ==
    ASSUME RequestInv, AddressInv, NEW r \in Requests, Writes(r), UNCHANGED ip, Serve(r), Doubted
    PROVE  AddressInv'
<1>1. lock = r /\ Torn /\ ~ Torn' /\ file' = save.next /\ lock' = None
  BY WrittenFile DEF Torn
<1>2. RequestInv' /\ Moved(r) /\ \A s \in Requests : s # r => job'[s] = job[s]
  BY ServeRequests
<1>3. job'[r].step \in {"fielding", "ok"} /\ ~ UNCHANGED job /\ r \in InFlight
  <2>1. CASE StoreRoutes(r)
    <3>1. job'[r].step = "ok"
      BY <2>1, FinishStep DEF StoreRoutes, RequestInv
    <3>. QED
      BY <2>1, <3>1 DEF StoreRoutes, At, InFlight, Ended
  <2>2. CASE SaveDone(r)
    <3>1. job[r].step \in Savings /\ r \in InFlight
      BY <2>2 DEF SaveDone, Savings, InFlight, Ended
    <3>2. CASE At(r, "storing") /\ Goto(r, "fielding")
      <4>1. job'[r].step = "fielding"
        BY <3>2, GotoStep DEF RequestInv
      <4>. QED
        BY <3>1, <3>2, <4>1 DEF At
    <3>3. CASE Finish(r, "ok")
      <4>1. job'[r].step = "ok"
        BY <3>3, FinishStep DEF RequestInv
      <4>. QED
        BY <3>1, <4>1 DEF Savings
    <3>. QED
      BY <2>2, <3>2, <3>3 DEF SaveDone, AfterStoring
  <2>. QED
    BY <2>1, <2>2 DEF Writes
<1>4. SaveAgrees
  BY <1>1 DEF AddressInv
<1>5. ASSUME Addressing(r), r \notin contended
      PROVE  Agrees(save.next.device, job[r].name, ip[job[r].name])
  BY <1>1, <1>5 DEF AddressInv, AloneAgrees
<1>6. \A p \in Ports : Clean(p)' => Agrees(save.next.device, p, ip[p])
  <2>1. ASSUME NEW p \in Ports, Clean(p)' PROVE Agrees(save.next.device, p, ip[p])
    <3>1. CASE Clean(p)
      BY <1>4, <3>1 DEF SaveAgrees
    <3>2. CASE EndsSound(r) /\ job[r].name = p
      BY <1>5, <3>2 DEF EndsSound
    <3>. QED
      BY <2>1, <3>1, <3>2, CleanStep
  <2>. QED
    BY <2>1
<1>7. FileAgrees'
  BY <1>1, <1>4, <1>6 DEF SaveAgrees, FileAgrees
<1>8. ASSUME NEW s \in Requests, Addressing(s)', At(s, "storing")' PROVE RowsOK(s)'
  <2>1. s # r /\ job'[s] = job[s]
    BY <1>2, <1>3, <1>8 DEF At
  <2>2. RowsOK(s) /\ s \in InFlight
    BY <1>8, <2>1 DEF AddressInv, Addressing, At, InFlight
  <2>3. ~ EndsSound(r)
    BY <1>3, <2>1, <2>2 DEF EndsSound, Addressing, RequestInv, RequestsOK
  <2>4. \A p \in Ports : Clean(p)' => Clean(p)
    BY <2>3, CleanStep
  <2>. QED
    BY <2>1, <2>2, <2>4 DEF RowsOK
<1>9. ASSUME NEW s \in Requests, Addressing(s)', s \notin contended' PROVE AloneAgrees(s)'
  <2>1. s = r
    BY <1>3, <1>9, AloneStep DEF Addressing
  <2>2. job'[r].step = "fielding"
    BY <1>3, <1>9, <2>1 DEF Addressing, InFlight, Ended
  <2>3. job'[r].op = job[r].op /\ job'[r].name = job[r].name
    BY <1>2, <1>3, <2>2, MovedJob DEF RequestInv, Ended
  <2>4. Addressing(r) /\ r \notin contended
    <3>1. r \notin contended
      <4>1. contended' = contended \/ \E result \in Ended : Finish(r, result)
        BY <1>2, <1>3 DEF Moved, Begin, At, InFlight, Ended
      <4>2. ~ \E result \in Ended : Finish(r, result)
        BY <2>2, FinishStep DEF RequestInv, Ended
      <4>. QED
        BY <1>9, <2>1, <4>1, <4>2
    <3>. QED
      BY <1>3, <1>9, <2>1, <2>3, <3>1 DEF Addressing
  <2>5. Agrees(file'.device, job'[r].name, ip'[job'[r].name])
    BY <1>1, <1>5, <2>3, <2>4
  <2>6. lock' # r
    BY <1>1, StoreAssumption
  <2>. QED
    BY <2>1, <2>2, <2>5, <2>6 DEF AloneAgrees, At
<1>10. ip' = [p \in Ports |-> ip'[p]]
  BY DEF AddressInv
<1>. QED
  BY <1>1, <1>7, <1>8, <1>9, <1>10 DEF AddressInv

LEMMA StoppedAddresses ==
    ASSUME RequestInv, AddressInv, Restart \/ Reboot
    PROVE  AddressInv'
<1>1. RequestInv' /\ InFlight' = {} /\ ~ Torn'
  BY StopRequests
<1>2. \A r \in Requests : ~ Addressing(r)'
  BY <1>1 DEF Addressing
<1>3. ip' = [p \in Ports |-> ip'[p]] /\ InitPhysicalInterfacesConfig(ip')
  <2>1. CASE Restart
    BY <2>1 DEF Restart, InitPhysicalInterfacesConfig, AddressInv
  <2>2. CASE Reboot
    BY <2>2 DEF Reboot, RestoreInterfaceSettings
  <2>. QED
    BY <2>1, <2>2
<1>4. PICK order : order = SetToSeq(Ports)
  OBVIOUS
<1>5. PICK rows : rows = [i \in DOMAIN order |-> [name |-> order[i], ip |-> ip'[order[i]],
                                                   fields |-> FieldsOf(file.device, order[i])]]
  OBVIOUS
<1>6. file' = [file EXCEPT !.device = rows]
  BY <1>3, <1>4, <1>5 DEF InitPhysicalInterfacesConfig
<1>7. file'.device = rows
  BY <1>6 DEF RequestInv, FileOK, IsFile, Sections
<1>8. \A i \in DOMAIN rows : /\ {"name", "ip"} \subseteq DOMAIN rows[i]
                             /\ rows[i].ip = ip'[rows[i].name]
  BY <1>5
<1>9. DOMAIN rows = DOMAIN order /\ rows = [i \in DOMAIN rows |-> rows[i]]
  BY <1>5
<1>10. DeviceRows(rows) /\ \A p : Agrees(rows, p, ip'[p])
  BY <1>4, <1>8, <1>9, ListAgrees
<1>11. FileAgrees'
  BY <1>7, <1>10 DEF FileAgrees
<1>. QED
  BY <1>1, <1>2, <1>3, <1>11 DEF AddressInv

LEMMA InitAddresses ==
    ASSUME NetInit
    PROVE  AddressInv
<1>1. RequestInv /\ InFlight = {} /\ ~ Torn
  BY InitRequests
<1>2. ip = [p \in Ports |-> ip[p]]
  BY NetAssumption DEF NetInit
<1>3. PICK order : order = SetToSeq(Ports)
  OBVIOUS
<1>4. PICK rows : rows = [i \in DOMAIN order |->
                            [name |-> order[i], ip |-> ip[order[i]], fields |-> OldFields]]
  OBVIOUS
<1>5. PICK bonds, bridges :
           file = [EmptyFile EXCEPT !.bond = bonds, !.bridge = bridges, !.device = rows]
  BY <1>3, <1>4 DEF NetInit
<1>6. file.device = rows
  BY <1>5 DEF EmptyFile, Sections
<1>7. \A i \in DOMAIN rows : /\ {"name", "ip"} \subseteq DOMAIN rows[i]
                             /\ rows[i].ip = ip[rows[i].name]
  BY <1>4
<1>8. DOMAIN rows = DOMAIN order /\ rows = [i \in DOMAIN rows |-> rows[i]]
  BY <1>4
<1>9. DeviceRows(rows) /\ \A p : Agrees(rows, p, ip[p])
  BY <1>3, <1>7, <1>8, ListAgrees
<1>10. FileAgrees
  BY <1>6, <1>9 DEF FileAgrees
<1>. QED
  BY <1>1, <1>2, <1>10 DEF AddressInv, Addressing

LEMMA ServeAddresses ==
    ASSUME RequestInv, AddressInv, NEW r \in Requests, Serve(r), Doubted
    PROVE  AddressInv'
<1>1. ASSUME Calm(r) PROVE AddressInv'
  BY <1>1, CalmAddresses
<1>2. CASE AskInterfaces(r) \/ (AskRoutes(r) /\ UNCHANGED kernelVars)
  BY <1>1, <1>2, AskCalm
<1>3. CASE ServeInterfaces(r)
  <2>1. CASE Save(r) \/ SaveDone(r)
    <3>1. UNCHANGED ip
      BY <2>1 DEF Save, SaveDone, kernelVars
    <3>. QED
      BY <2>1, <3>1, TruncatedAddresses, WrittenAddresses DEF Truncates, Writes
  <2>2. CASE SetAddress(r) \/ ListPorts(r)
    BY <2>2, SetAddresses, ListAddresses
  <2>3. CASE SaveTimesOut(r) \/ ListLinks(r)
    BY <1>1, <2>3, TimeoutCalm, ListCalm
  <2>4. CASE \/ LinkAdd(r) \/ Join(r) \/ Undo(r) \/ Leave(r) \/ LinkDel(r)
             \/ FetchFields(r) \/ CheckSection(r) \/ SavePanics(r)
    BY <1>1, <2>4, KernelCalm
  <2>. QED
    BY <1>3, <2>1, <2>2, <2>3, <2>4 DEF ServeInterfaces
<1>4. CASE ServeRoutes(r) /\ UNCHANGED kernelVars
  <2>1. UNCHANGED ip
    BY <1>4 DEF kernelVars
  <2>2. CASE RoutesTimeOut(r)
    BY <1>1, <1>4, <2>2, TimeoutCalm
  <2>. QED
    BY <1>4, <2>1, <2>2, TruncatedAddresses, WrittenAddresses DEF ServeRoutes, Truncates, Writes
<1>5. CASE Generate(r) /\ UNCHANGED kernelVars
  <2>1. UNCHANGED <<fileVars, ip, job, contended>>
    BY <1>5 DEF Generate, FetchRouteConfig, WriteZebra, storeVars, kernelVars
  <2>2. ~ EndsSound(r)
    BY <2>1 DEF EndsSound, Addressing, InFlight, At, Ended
  <2>. QED
    BY <1>1, <2>1, <2>2 DEF Calm
<1>. QED
  BY <1>2, <1>3, <1>4, <1>5 DEF Serve

LEMMA NextAddresses ==
    ASSUME RequestInv, AddressInv, [NetNext]_netVars
    PROVE  AddressInv'
<1>1. ASSUME NEW r \in Requests, Serve(r), Doubted PROVE AddressInv'
  BY <1>1, ServeAddresses
<1>2. CASE Restart \/ Reboot
  BY <1>2, StoppedAddresses
<1>3. CASE UNCHANGED netVars
  <2>1. /\ file' = file /\ lock' = lock /\ save' = save /\ job' = job /\ ip' = ip
        /\ contended' = contended /\ doubt' = doubt
    BY <1>3 DEF netVars, storeVars, fileVars, kernelVars
  <2>. QED
    BY <2>1 DEF AddressInv, FileAgrees, SaveAgrees, RowsOK, AloneAgrees, Clean, Addressing, InFlight,
                At, Torn
<1>. QED
  BY <1>1, <1>2, <1>3 DEF NetNext

\* A reboot gives a port the address of its first row, or none.
LEMMA RestoredAddress ==
    ASSUME RequestInv, AddressInv, NetNext, stops' # stops,
           NEW p \in Ports, p \notin doubt \cup {job[r].name : r \in InFlight}
    PROVE  ip'[p] \in {ip[p], None}
<1>1. CASE Restart
  BY <1>1 DEF Restart
<1>2. CASE Reboot
  <2>1. PICK upTo \in 0..Len(file.device) : RestoreInterfaceSettings(upTo)
    BY <1>2 DEF Reboot
  <2>. DEFINE i == RowOf(file.device, p)
  <2>2. ip'[p] = IF i \in 1..upTo THEN file.device[i].ip ELSE None
    BY <2>1 DEF RestoreInterfaceSettings
  <2>3. Clean(p)
    BY DEF Clean, Addressing
  <2>4. DeviceRows(file.device) /\ Agrees(file.device, p, ip[p])
    BY <2>3 DEF AddressInv, FileAgrees
  <2>5. i # 0 => First(file.device, i, p)
    BY <2>4, RowIsFirst
  <2>. HIDE DEF i
  <2>6. i \in 1..upTo => file.device[i].ip = ip[p]
    BY <2>4, <2>5 DEF Agrees, First
  <2>. QED
    BY <2>2, <2>6
<1>3. CASE \E r \in Requests : Serve(r) /\ Doubted /\ UNCHANGED <<menu, stops>>
  BY <1>3
<1>. QED
  BY <1>1, <1>2, <1>3 DEF NetNext

\* Whatever requests, races, panics, failures, lock timeouts, restarts and
\* reboots came before: a reboot never brings back an address that a request
\* has replaced, on a port whose last request ended well and met no other one.
THEOREM OldAddressesStayAway == NetSpec => NoOldAddress
<1>1. NetInit => RequestInv /\ AddressInv
  BY InitRequests, InitAddresses
<1>2. RequestInv /\ AddressInv /\ [NetNext]_netVars => (RequestInv /\ AddressInv)'
  BY NextRequests, NextAddresses
<1>3. RequestInv /\ AddressInv /\ [NetNext]_netVars =>
          [stops' # stops =>
              \A p \in Ports \ (doubt \cup {job[r].name : r \in InFlight}) :
                  ip'[p] \in {ip[p], None}]_netVars
  BY RestoredAddress
<1>. QED
  BY <1>1, <1>2, <1>3, PTL DEF NetSpec, NoOldAddress
=============================================================================
