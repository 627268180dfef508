----------------------- MODULE HighAvailabilityProofs -----------------------
(***************************************************************************)
(* Theorems about HighAvailability, for any number of ports and requests   *)
(* and any failures: a time of a last sync is the time of a sync, an       *)
(* appliance keeps its role and the address of its dedicated port, and a   *)
(* sync that met nobody leaves the pair in agreement.                      *)
(***************************************************************************)
EXTENDS HighAvailability, FiniteSetTheorems, TLAPS

IsHa(h) == DOMAIN h = {"role", "dedicated", "monitored", "synced"}

\* An HA section, and a file, whose time was earned.
EarnedHa(h, e) == IsHa(h) /\ h.synced \in e \cup {0}
EarnedContent(c, e) == DOMAIN c = {"ha", "rows"} /\ EarnedHa(c.ha, e)

IsJob(j) ==
    /\ DOMAIN j = {"op", "step", "by", "on", "ha", "content", "todo", "id", "orphan",
                   "stale", "alone"}
    /\ j.step # "idle" /\ j.by \in Appliances /\ j.on \in Appliances

\* The steps of a sync after the peer has answered.
Answered(j) == \/ j.step \in {"stamping", "telling"}
               \/ j.step = "storing" /\ j.op = "sync"

\* Every copy of a time that a request carries is earned, and a request that is
\* about to stamp has earned its own.
EarnedJob(j, e, m) ==
    /\ IsJob(j) /\ EarnedHa(j.ha, e) /\ EarnedContent(j.content, e)
    /\ j.step = "storing" => j.op \in {"create", "disable", "sync", "tell"}
    /\ Answered(j) => j.id \in e
    /\ j.step = "merging" => EarnedContent(m[j.on], e)

StampInv ==
    /\ file = [a \in Appliances |-> file[a]] /\ merged = [a \in Appliances |-> merged[a]]
    /\ job = [r \in Requests |-> job[r]]
    /\ \A a \in Appliances : EarnedContent(file[a], earned)
    /\ \A r \in Requests : job[r] = Idle \/ EarnedJob(job[r], earned, merged)

-----------------------------------------------------------------------------
LEMMA PeerIsAppliance == ASSUME NEW a \in Appliances PROVE PeerOf(a) \in Appliances
<1>1. \E b \in Appliances : b # a
  BY HaAssumption
<1>. QED
  BY <1>1 DEF PeerOf

\* More syncs may be answered, and a request keeps what it carries.
LEMMA EarnedMore ==
    ASSUME NEW j, NEW e, NEW f, e \subseteq f, NEW m, NEW n,
           j.step = "merging" => n[j.on] = m[j.on] \/ EarnedContent(n[j.on], f)
    PROVE  /\ EarnedHa(j, e) => EarnedHa(j, f)
           /\ EarnedContent(j, e) => EarnedContent(j, f)
           /\ EarnedJob(j, e, m) => EarnedJob(j, f, n)
BY DEF EarnedHa, EarnedContent, EarnedJob

\* A change of what the properties do not depend on.
LEMMA MarkedJob ==
    ASSUME NEW j, NEW e, NEW m, EarnedJob(j, e, m)
    PROVE  /\ EarnedJob([j EXCEPT !.stale = TRUE], e, m)
           /\ EarnedJob([j EXCEPT !.alone = FALSE], e, m)
           /\ EarnedJob([j EXCEPT !.orphan = TRUE], e, m)
<1>1. ASSUME NEW k, k.op = j.op, k.step = j.step, k.by = j.by, k.on = j.on, k.ha = j.ha,
             k.content = j.content, k.id = j.id, IsJob(k)
      PROVE  EarnedJob(k, e, m)
  BY <1>1 DEF EarnedJob, Answered
<1>. DEFINE k1 == [j EXCEPT !.stale = TRUE]
            k2 == [j EXCEPT !.alone = FALSE]
            k3 == [j EXCEPT !.orphan = TRUE]
<1>2. IsJob(j)
  BY DEF EarnedJob
<1>3. /\ k1.op = j.op /\ k1.step = j.step /\ k1.by = j.by /\ k1.on = j.on /\ k1.ha = j.ha
      /\ k1.content = j.content /\ k1.id = j.id /\ IsJob(k1)
  BY <1>2 DEF IsJob
<1>4. /\ k2.op = j.op /\ k2.step = j.step /\ k2.by = j.by /\ k2.on = j.on /\ k2.ha = j.ha
      /\ k2.content = j.content /\ k2.id = j.id /\ IsJob(k2)
  BY <1>2 DEF IsJob
<1>5. /\ k3.op = j.op /\ k3.step = j.step /\ k3.by = j.by /\ k3.on = j.on /\ k3.ha = j.ha
      /\ k3.content = j.content /\ k3.id = j.id /\ IsJob(k3)
  BY <1>2 DEF IsJob
<1>. HIDE DEF k1, k2, k3
<1>6. EarnedJob(k1, e, m) /\ EarnedJob(k2, e, m) /\ EarnedJob(k3, e, m)
  BY <1>1, <1>3, <1>4, <1>5
<1>. QED
  BY <1>6 DEF k1, k2, k3

LEMMA OvertakenJobs ==
    ASSUME StampInv, NEW a, NEW r \in Requests
    PROVE  /\ Overtaken(a, r) = [s \in Requests |-> Overtaken(a, r)[s]]
           /\ Overtaken(a, r)[r] = job[r]
           /\ \A s \in Requests : Overtaken(a, r)[s] = Idle
                                  \/ EarnedJob(Overtaken(a, r)[s], earned, merged)
<1>1. \A s \in Requests : Overtaken(a, r)[s] \in {job[s], [job[s] EXCEPT !.stale = TRUE]}
  BY DEF Overtaken
<1>2. ASSUME NEW s \in Requests, job[s] = Idle
      PROVE  Overtaken(a, r)[s] = Idle
  BY <1>2 DEF Overtaken, InFlight, Idle
<1>. QED
  BY <1>1, <1>2, MarkedJob DEF StampInv, Overtaken

\* The step of one request: the others at most get a mark.
LEMMA JobStep ==
    ASSUME StampInv, NEW r \in Requests, NEW jobs,
           jobs = job \/ \E a \in Appliances : jobs = Overtaken(a, r),
           NEW k, job' = [jobs EXCEPT ![r] = k],
           k = Idle \/ EarnedJob(k, earned', merged'),
           file' = [a \in Appliances |-> file'[a]], merged' = [a \in Appliances |-> merged'[a]],
           \A a \in Appliances : EarnedContent(file'[a], earned'),
           earned \subseteq earned',
           \A a \in Appliances : merged'[a] = merged[a] \/ EarnedContent(merged'[a], earned')
    PROVE  StampInv'
<1>1. /\ jobs = [s \in Requests |-> jobs[s]]
      /\ \A s \in Requests : jobs[s] = Idle \/ EarnedJob(jobs[s], earned, merged)
  BY OvertakenJobs DEF StampInv
<1>2. ASSUME NEW s \in Requests
      PROVE  job'[s] = Idle \/ EarnedJob(job'[s], earned', merged')
  <2>1. CASE s = r
    BY <1>1, <2>1
  <2>2. CASE s # r
    <3>1. job'[s] = jobs[s]
      BY <1>1, <2>2
    <3>2. CASE EarnedJob(jobs[s], earned, merged)
      <4>1. jobs[s].on \in Appliances
        BY <3>2 DEF EarnedJob, IsJob
      <4>. QED
        BY <3>1, <3>2, <4>1, EarnedMore
    <3>. QED
      BY <1>1, <3>1, <3>2
  <2>. QED
    BY <2>1, <2>2
<1>3. job' = [s \in Requests |-> job'[s]]
  BY <1>1
<1>. QED
  BY <1>2, <1>3 DEF StampInv

LEMMA BusyJob ==
    ASSUME StampInv, NEW r \in Requests, job[r].step # "idle"
    PROVE  EarnedJob(job[r], earned, merged) /\ IsJob(job[r]) /\ On(r) \in Appliances
BY DEF StampInv, Idle, EarnedJob, IsJob, On

LEMMA EarnedConstants ==
    ASSUME NEW e
    PROVE  EarnedHa(NoHa, e) /\ EarnedContent(EmptyContent, e)
BY DEF EarnedHa, EarnedContent, NoHa, EmptyContent, IsHa

LEMMA MergedIsEarned ==
    ASSUME NEW own, NEW received, NEW e, EarnedContent(received, e)
    PROVE  EarnedContent(Merged(own, received), e)
BY DEF EarnedContent, EarnedHa, IsHa, Merged

-----------------------------------------------------------------------------
(* Requests of an operator.                                                *)

LEMMA BeginStamps ==
    ASSUME StampInv, NEW r \in Requests, NEW a \in Appliances, NEW op, NEW step, NEW ha,
           EarnedHa(ha, earned), step \in {"storing", "comparing"},
           op \in {"create", "disable"} \/ step = "comparing",
           Begin(r, a, op, step, ha)
    PROVE  StampInv'
<1>. DEFINE alone == InFlight = {}
            k == [op |-> op, step |-> step, by |-> a, on |-> a, ha |-> ha,
                  content |-> EmptyContent, todo |-> {}, id |-> asked + 1,
                  orphan |-> FALSE, stale |-> FALSE, alone |-> alone]
<1>1. /\ UNCHANGED <<file, merged, earned>>
      /\ job' = [s \in Requests |->
                 IF s = r THEN k
                 ELSE IF s \in InFlight THEN [job[s] EXCEPT !.alone = FALSE] ELSE job[s]]
  BY DEF Begin
<1>2. EarnedJob(k, earned, merged)
  <2>1. /\ k.op = op /\ k.step = step /\ k.by = a /\ k.on = a /\ k.ha = ha
        /\ k.content = EmptyContent
        /\ DOMAIN k = {"op", "step", "by", "on", "ha", "content", "todo", "id", "orphan",
                       "stale", "alone"}
    OBVIOUS
  <2>. HIDE DEF k
  <2>. QED
    BY <2>1, EarnedConstants DEF EarnedJob, IsJob, Answered
<1>. HIDE DEF k
<1>3. ASSUME NEW s \in Requests
      PROVE  job'[s] = Idle \/ EarnedJob(job'[s], earned, merged)
  <2>1. CASE s = r
    BY <1>1, <1>2, <2>1
  <2>2. CASE s # r /\ s \in InFlight
    BY <1>1, <2>2, BusyJob, MarkedJob DEF InFlight
  <2>3. CASE s # r /\ s \notin InFlight
    BY <1>1, <2>3 DEF StampInv
  <2>. QED
    BY <2>1, <2>2, <2>3
<1>4. job' = [s \in Requests |-> job'[s]]
  BY <1>1
<1>. QED
  BY <1>1, <1>3, <1>4 DEF StampInv

LEMMA AskStamps ==
    ASSUME StampInv, NEW r \in Requests, Ask(r)
    PROVE  StampInv'
<1>1. ASSUME NEW a \in Appliances, NEW role, NEW chosen, AskToCreate(r, a, role, chosen)
      PROVE  StampInv'
  <2>. DEFINE monitored == IF role = "backup" THEN <<>>
                           ELSE [p \in DOMAIN chosen |-> [base |-> chosen[p], virtual |-> ip[a][p]]]
              ha == [role |-> role, dedicated |-> Dedicated, synced |-> file[a].ha.synced,
                     monitored |-> monitored]
  <2>1. EarnedHa(ha, earned)
    <3>1. file[a].ha.synced \in earned \cup {0}
      BY DEF StampInv, EarnedContent, EarnedHa
    <3>. HIDE DEF monitored
    <3>. QED
      BY <3>1 DEF EarnedHa, IsHa
  <2>2. Begin(r, a, "create", "storing", ha)
    BY <1>1 DEF AskToCreate
  <2>. HIDE DEF ha
  <2>. QED
    BY <2>1, <2>2, BeginStamps
<1>2. ASSUME NEW a \in Appliances, AskToDisable(r, a) \/ AskToSync(r, a)
      PROVE  StampInv'
  BY <1>2, BeginStamps, EarnedConstants DEF AskToDisable, AskToSync
<1>. QED
  BY <1>1, <1>2 DEF Ask

-----------------------------------------------------------------------------
(* The steps of a request.                                                 *)

\* A step that touches no file: the request keeps what it carries.
LEMMA QuietStamps ==
    ASSUME StampInv, NEW r \in Requests, NEW k, job' = [job EXCEPT ![r] = k],
           k = Idle \/ EarnedJob(k, earned', merged), UNCHANGED <<file, merged>>,
           earned \subseteq earned'
    PROVE  StampInv'
<1>1. \A a \in Appliances : EarnedContent(file[a], earned')
  BY EarnedMore DEF StampInv, EarnedContent, EarnedHa
<1>2. k = Idle \/ EarnedJob(k, earned', merged')
  OBVIOUS
<1>3. /\ file' = [a \in Appliances |-> file'[a]] /\ merged' = [a \in Appliances |-> merged'[a]]
      /\ \A a \in Appliances : EarnedContent(file'[a], earned')
      /\ \A a \in Appliances : merged'[a] = merged[a]
  BY <1>1 DEF StampInv
<1>. QED
  BY <1>2, <1>3, JobStep

\* A step that puts an earned file, or an HA section, into the place of another.
LEMMA FileStamps ==
    ASSUME StampInv, NEW r \in Requests, NEW a \in Appliances, NEW k,
           job' = [Overtaken(a, r) EXCEPT ![r] = k],
           k = Idle \/ EarnedJob(k, earned, merged),
           NEW c, file' = [file EXCEPT ![a] = c], EarnedContent(c, earned),
           UNCHANGED <<merged, earned>>
    PROVE  StampInv'
<1>1. /\ file' = [b \in Appliances |-> file'[b]] /\ merged' = [b \in Appliances |-> merged'[b]]
      /\ \A b \in Appliances : EarnedContent(file'[b], earned')
      /\ \A b \in Appliances : merged'[b] = merged[b]
  BY DEF StampInv
<1>2. k = Idle \/ EarnedJob(k, earned', merged')
  OBVIOUS
<1>. QED
  BY <1>1, <1>2, JobStep

LEMMA BackJob ==
    ASSUME NEW j, IsJob(j), NEW step, step # "idle", NEW a \in Appliances
    PROVE  /\ Back(j, step, a).step = step /\ Back(j, step, a).on = a
           /\ Back(j, step, a).id = j.id /\ Back(j, step, a).op = j.op
           /\ Back(j, step, a).ha = NoHa /\ Back(j, step, a).content = EmptyContent
           /\ IsJob(Back(j, step, a))
BY DEF IsJob, Back

\* The step of a job, on an appliance, with or without an HA section.
LEMMA MovedJob ==
    ASSUME NEW j, NEW e, NEW m, EarnedJob(j, e, m),
           NEW step, step \notin {"idle", "storing", "stamping", "telling", "merging"},
           NEW a \in Appliances
    PROVE  /\ EarnedJob([j EXCEPT !.step = step], e, m)
           /\ EarnedJob(Back(j, step, a), e, m)
           /\ EarnedJob([j EXCEPT !.step = step, !.op = "local"], e, m)
<1>1. ASSUME NEW k, k.step = step, k.ha = j.ha, k.content = j.content, IsJob(k)
      PROVE  EarnedJob(k, e, m)
  BY <1>1 DEF EarnedJob, Answered
<1>2. IsJob(j)
  BY DEF EarnedJob
<1>. DEFINE k1 == [j EXCEPT !.step = step]
            k2 == Back(j, step, a)
            k3 == [j EXCEPT !.step = step, !.op = "local"]
<1>3. k1.step = step /\ k1.ha = j.ha /\ k1.content = j.content /\ IsJob(k1)
  BY <1>2 DEF IsJob
<1>4. k2.step = step /\ k2.ha = NoHa /\ k2.content = EmptyContent /\ IsJob(k2)
  BY <1>2, BackJob
<1>5. k3.step = step /\ k3.ha = j.ha /\ k3.content = j.content /\ IsJob(k3)
  BY <1>2 DEF IsJob
<1>. HIDE DEF k1, k2, k3
<1>6. EarnedJob(k1, e, m) /\ EarnedJob(k3, e, m)
  BY <1>1, <1>3, <1>5
<1>7. EarnedJob(k2, e, m)
  BY <1>4, EarnedConstants DEF EarnedJob, Answered
<1>. QED
  BY <1>6, <1>7 DEF k1, k2, k3

\* A job that moves on with other data of its own.
LEMMA CarriedJob ==
    ASSUME NEW j, NEW e, NEW m, EarnedJob(j, e, m),
           NEW k, IsJob(k), k.step \notin {"storing", "stamping", "telling", "merging"},
           EarnedHa(k.ha, e), EarnedContent(k.content, e)
    PROVE  EarnedJob(k, e, m)
BY DEF EarnedJob, Answered

LEMMA UpdateConfigStamps ==
    ASSUME StampInv, NEW r \in Requests, UpdateConfig(r)
    PROVE  StampInv'
<1>. DEFINE a == On(r)
            j == job[r]
            c == [file[a] EXCEPT !.ha = j.ha]
            jobs == Overtaken(a, r)
<1>1. /\ j.step = "storing" /\ UNCHANGED <<merged, earned>>
      /\ file' = [file EXCEPT ![a] = c]
  BY DEF UpdateConfig, At
<1>2. EarnedJob(j, earned, merged) /\ IsJob(j) /\ a \in Appliances
  BY <1>1, BusyJob
<1>3. EarnedContent(c, earned)
  BY <1>2 DEF StampInv, EarnedContent, EarnedJob
<1>4. jobs = [s \in Requests |-> jobs[s]] /\ jobs[r] = j
  BY OvertakenJobs
<1>5. CASE j.op = "tell"
  <2>. DEFINE back == Back(j, "fetching", j.by)
              k == IF j.orphan THEN Idle ELSE [back EXCEPT !.op = "local"]
  <2>1. EarnedJob(back, earned, merged) /\ back.step = "fetching"
    <3>1. j.by \in Appliances
      BY <1>2 DEF IsJob
    <3>. HIDE DEF j
    <3>2. EarnedJob(back, earned, merged)
      BY <1>2, <3>1, MovedJob
    <3>3. back.step = "fetching"
      BY <1>2, <3>1, BackJob
    <3>. QED
      BY <3>2, <3>3
  <2>2. back # Idle
    BY <2>1 DEF Idle
  <2>. HIDE DEF back
  <2>3. k = Idle \/ EarnedJob(k, earned, merged)
    <3>1. [back EXCEPT !.op = "local"] = [back EXCEPT !.step = "fetching", !.op = "local"]
      BY <2>1 DEF EarnedJob, IsJob
    <3>. QED
      BY <2>1, <3>1, <1>2, MovedJob
  <2>4. job' = [jobs EXCEPT ![r] = k]
    <3>1. job' = [Return(jobs, r, "fetching", j.by) EXCEPT ![r] =
                    IF @ = Idle THEN @ ELSE [@ EXCEPT !.op = "local"]]
      BY <1>5 DEF UpdateConfig
    <3>2. Return(jobs, r, "fetching", j.by) = [jobs EXCEPT ![r] = IF j.orphan THEN Idle ELSE back]
      BY <1>4 DEF Return, back
    <3>. QED
      BY <1>4, <2>2, <3>1, <3>2
  <2>. HIDE DEF k
  <2>. QED
    BY <1>1, <1>2, <1>3, <2>3, <2>4, FileStamps
<1>6. CASE j.op # "tell"
  <2>. DEFINE k == [j EXCEPT !.step = AfterSaving(r), !.ha = NoHa]
  <2>1. job' = [jobs EXCEPT ![r] = k]
    BY <1>4, <1>6 DEF UpdateConfig
  <2>2. EarnedJob(k, earned, merged)
    <3>1. CASE j.op \in {"create", "disable"}
      <4>1. AfterSaving(r) \in {"generating", "resetting"}
        BY <3>1 DEF AfterSaving
      <4>2. k.step = AfterSaving(r) /\ k.ha = NoHa /\ k.content = j.content /\ IsJob(k)
        BY <1>2, <4>1 DEF IsJob
      <4>. HIDE DEF k
      <4>. QED
        BY <1>2, <4>1, <4>2, EarnedConstants, CarriedJob DEF EarnedJob
    <3>2. CASE j.op = "sync"
      <4>1. AfterSaving(r) = "telling" /\ j.id \in earned
        BY <1>1, <1>2, <3>2 DEF AfterSaving, EarnedJob, Answered
      <4>2. /\ k.step = "telling" /\ k.id = j.id /\ k.ha = NoHa /\ k.content = j.content
            /\ IsJob(k)
        BY <1>2, <4>1 DEF IsJob
      <4>. HIDE DEF k
      <4>. QED
        BY <1>2, <4>1, <4>2, EarnedConstants DEF EarnedJob
    <3>. QED
      BY <1>1, <1>2, <1>6, <3>1, <3>2 DEF EarnedJob
  <2>. HIDE DEF k
  <2>. QED
    BY <1>1, <1>2, <1>3, <2>1, <2>2, FileStamps
<1>. QED
  BY <1>5, <1>6

LEMMA SyncStamps ==
    ASSUME StampInv, NEW r \in Requests,
           \/ ResetKeepAlived(r) \/ CompareDeviceInfo(r) \/ SendConfigToOtherDevice(r)
           \/ HaCopyConfig(r)
    PROVE  StampInv'
<1>. DEFINE j == job[r]
<1>1. CASE ResetKeepAlived(r)
  BY <1>1, QuietStamps DEF ResetKeepAlived
<1>2. CASE CompareDeviceInfo(r)
  <2>. DEFINE k == IF CompareDeviceInfoFromAnotherAppliance(PeerOf(On(r)))
                   THEN [j EXCEPT !.step = "sending"] ELSE Idle
  <2>1. /\ j.step = "comparing" /\ UNCHANGED <<file, merged, earned>>
        /\ job' = [job EXCEPT ![r] = k]
    BY <1>2 DEF CompareDeviceInfo, At
  <2>2. k = Idle \/ EarnedJob(k, earned, merged)
    BY <2>1, BusyJob, MovedJob
  <2>. HIDE DEF k
  <2>. QED
    BY <2>1, <2>2, QuietStamps
<1>3. CASE SendConfigToOtherDevice(r)
  <2>. DEFINE k == [j EXCEPT !.step = "copying", !.on = PeerOf(j.on), !.content = file[On(r)]]
  <2>1. /\ j.step = "sending" /\ UNCHANGED <<file, merged, earned>>
        /\ job' = [job EXCEPT ![r] = k]
    BY <1>3 DEF SendConfigToOtherDevice, At
  <2>2. EarnedJob(j, earned, merged) /\ IsJob(j) /\ On(r) \in Appliances
    BY <2>1, BusyJob
  <2>3. PeerOf(j.on) \in Appliances
    BY <2>2, PeerIsAppliance DEF On
  <2>4. /\ k.step = "copying" /\ k.ha = j.ha /\ k.content = file[On(r)] /\ IsJob(k)
    BY <2>2, <2>3 DEF IsJob
  <2>. HIDE DEF k
  <2>5. EarnedJob(k, earned, merged)
    BY <2>2, <2>4, CarriedJob DEF StampInv, EarnedJob
  <2>. QED
    BY <2>1, <2>5, QuietStamps
<1>4. CASE HaCopyConfig(r)
  <2>. DEFINE a == On(r)
              back == Back(j, "merging", a)
              k == IF j.orphan THEN Idle ELSE back
  <2>1. /\ j.step = "copying" /\ UNCHANGED <<file, earned>>
        /\ merged' = [merged EXCEPT ![a] = j.content]
        /\ job' = [job EXCEPT ![r] = k]
    BY <1>4 DEF HaCopyConfig, At, Return
  <2>2. EarnedJob(j, earned, merged) /\ IsJob(j) /\ a \in Appliances
    BY <2>1, BusyJob
  <2>3. /\ back.step = "merging" /\ back.on = a /\ back.ha = NoHa /\ back.content = EmptyContent
        /\ IsJob(back)
    BY <2>2, BackJob
  <2>4. merged'[a] = j.content
    BY <2>1, <2>2 DEF StampInv
  <2>. HIDE DEF back
  <2>5. k = Idle \/ EarnedJob(k, earned', merged')
    BY <2>1, <2>2, <2>3, <2>4, EarnedConstants DEF EarnedJob, Answered
  <2>6. /\ file' = [b \in Appliances |-> file'[b]] /\ merged' = [b \in Appliances |-> merged'[b]]
        /\ \A b \in Appliances : EarnedContent(file'[b], earned')
        /\ \A b \in Appliances : merged'[b] = merged[b] \/ EarnedContent(merged'[b], earned')
        /\ earned \subseteq earned'
    BY <2>1, <2>2 DEF StampInv, EarnedJob
  <2>. HIDE DEF k
  <2>. QED
    BY <2>1, <2>5, <2>6, JobStep
<1>. QED
  BY <1>1, <1>2, <1>3, <1>4

LEMMA MergeStamps ==
    ASSUME StampInv, NEW r \in Requests, SyncBackup(r) \/ WriteInterfaceConfigFile(r)
    PROVE  StampInv'
<1>. DEFINE j == job[r]
            a == On(r)
<1>1. CASE SyncBackup(r)
  <2>. DEFINE content == Merged(file[a], merged[a])
              torn == Torn(a)
              k == [j EXCEPT !.step = "torn", !.stale = torn, !.content = content]
  <2>1. /\ j.step = "merging" /\ UNCHANGED <<merged, earned>>
        /\ \/ job' = [job EXCEPT ![r] = Idle] /\ UNCHANGED file
           \/ /\ job' = [Overtaken(a, r) EXCEPT ![r].step = "torn", ![r].stale = torn,
                                                ![r].content = content]
              /\ file' = [file EXCEPT ![a] = EmptyContent]
    BY <1>1 DEF SyncBackup, At
  <2>2. EarnedJob(j, earned, merged) /\ IsJob(j) /\ a \in Appliances
    BY <2>1, BusyJob
  <2>3. EarnedContent(content, earned)
    BY <2>1, <2>2, MergedIsEarned DEF EarnedJob, On
  <2>. HIDE DEF content, torn
  <2>4. k.step = "torn" /\ k.ha = j.ha /\ k.content = content /\ IsJob(k)
    BY <2>2 DEF IsJob
  <2>5. Overtaken(a, r)[r] = j
    BY OvertakenJobs
  <2>6. CASE job' = [job EXCEPT ![r] = Idle] /\ UNCHANGED file
    BY <2>1, <2>6, QuietStamps
  <2>7. CASE /\ job' = [Overtaken(a, r) EXCEPT ![r] = k]
             /\ file' = [file EXCEPT ![a] = EmptyContent]
    <3>. HIDE DEF k
    <3>1. EarnedJob(k, earned, merged)
      BY <2>2, <2>3, <2>4, CarriedJob DEF EarnedJob
    <3>. QED
      BY <2>1, <2>2, <2>7, <3>1, EarnedConstants, FileStamps
  <2>. QED
    BY <2>1, <2>5, <2>6, <2>7
<1>2. CASE WriteInterfaceConfigFile(r)
  <2>. DEFINE back == Back(j, "fetching", a)
              k == IF j.orphan THEN Idle ELSE back
  <2>1. /\ j.step = "torn" /\ UNCHANGED <<merged, earned>>
        /\ file' = [file EXCEPT ![a] = j.content]
        /\ job' = Return(Overtaken(a, r), r, "fetching", a)
    BY <1>2 DEF WriteInterfaceConfigFile, At
  <2>2. EarnedJob(j, earned, merged) /\ IsJob(j) /\ a \in Appliances
    BY <2>1, BusyJob
  <2>3. job' = [Overtaken(a, r) EXCEPT ![r] = k]
    BY <2>1, OvertakenJobs DEF Return
  <2>4. k = Idle \/ EarnedJob(k, earned, merged)
    BY <2>2, MovedJob
  <2>. HIDE DEF k
  <2>. QED
    BY <2>1, <2>2, <2>3, <2>4, FileStamps DEF EarnedJob
<1>. QED
  BY <1>1, <1>2

LEMMA AddressStamps ==
    ASSUME StampInv, NEW r \in Requests,
           FetchConfigs(r) \/ (\E p \in Ports : SetIpAfterSyncBackup(r, p)) \/ CreateHaConfig(r)
    PROVE  StampInv'
<1>. DEFINE j == job[r]
            a == On(r)
<1>1. CASE FetchConfigs(r)
  <2>. DEFINE ports == DOMAIN file[a].rows \ {file[a].ha.dedicated}
              step == IF ports = {} THEN "generating" ELSE "addressing"
              k == [j EXCEPT !.content = file[a], !.todo = ports, !.step = step]
  <2>1. /\ j.step = "fetching" /\ UNCHANGED <<file, merged, earned>>
        /\ job' = [job EXCEPT ![r] = k]
    BY <1>1 DEF FetchConfigs, At
  <2>2. EarnedJob(j, earned, merged) /\ IsJob(j) /\ a \in Appliances
    BY <2>1, BusyJob
  <2>3. step \in {"generating", "addressing"}
    OBVIOUS
  <2>. HIDE DEF ports, step
  <2>4. k.step = step /\ k.ha = j.ha /\ k.content = file[a] /\ IsJob(k)
    BY <2>2, <2>3 DEF IsJob
  <2>. HIDE DEF k
  <2>5. EarnedJob(k, earned, merged)
    BY <2>2, <2>3, <2>4, CarriedJob DEF StampInv, EarnedJob
  <2>. QED
    BY <2>1, <2>5, QuietStamps
<1>2. ASSUME NEW p \in Ports, SetIpAfterSyncBackup(r, p)
      PROVE  StampInv'
  <2>. DEFINE rows == [q \in DOMAIN file[a].rows \cup {p} |->
                         IF q = p THEN ip'[a][p] ELSE file[a].rows[q]]
              c == [file[a] EXCEPT !.rows = rows]
              step == IF j.todo = {p} THEN "generating" ELSE j.step
              k == [j EXCEPT !.todo = j.todo \ {p}, !.step = step]
  <2>1. /\ j.step = "addressing" /\ UNCHANGED <<merged, earned>>
        /\ file' = [file EXCEPT ![a] = c]
        /\ job' = [Overtaken(a, r) EXCEPT ![r].todo = @ \ {p}, ![r].step = IF j.todo = {p} THEN "generating" ELSE @]
    BY <1>2 DEF SetIpAfterSyncBackup, At
  <2>2. EarnedJob(j, earned, merged) /\ IsJob(j) /\ a \in Appliances
    BY <2>1, BusyJob
  <2>3. job' = [Overtaken(a, r) EXCEPT ![r] = k]
    BY <2>1, OvertakenJobs
  <2>. HIDE DEF rows
  <2>4. EarnedContent(c, earned)
    BY <2>2 DEF StampInv, EarnedContent
  <2>5. step \in {"generating", "addressing"}
    BY <2>1
  <2>. HIDE DEF step
  <2>6. k.step = step /\ k.ha = j.ha /\ k.content = j.content /\ IsJob(k)
    BY <2>2, <2>5 DEF IsJob
  <2>. HIDE DEF c, k
  <2>7. EarnedJob(k, earned, merged)
    BY <2>2, <2>5, <2>6, CarriedJob DEF EarnedJob
  <2>. QED
    BY <2>1, <2>2, <2>3, <2>4, <2>7, FileStamps
<1>3. CASE CreateHaConfig(r)
  <2>. DEFINE k == [j EXCEPT !.step = "writing", !.content = file[a]]
  <2>1. /\ j.step = "generating" /\ UNCHANGED <<file, merged, earned>>
        /\ job' = [job EXCEPT ![r] = IF file[a].ha.dedicated = None THEN Idle ELSE k]
    BY <1>3 DEF CreateHaConfig, At
  <2>2. EarnedJob(j, earned, merged) /\ IsJob(j) /\ a \in Appliances
    BY <2>1, BusyJob
  <2>3. k.step = "writing" /\ k.ha = j.ha /\ k.content = file[a] /\ IsJob(k)
    BY <2>2 DEF IsJob
  <2>. HIDE DEF k
  <2>4. EarnedJob(k, earned, merged)
    BY <2>2, <2>3, CarriedJob DEF StampInv, EarnedJob
  <2>. QED
    BY <2>1, <2>4, QuietStamps
<1>. QED
  BY <1>1, <1>2, <1>3

\* The peer ends its work: the sync has earned its time.
LEMMA WriteHaStamps ==
    ASSUME StampInv, NEW r \in Requests, WriteHa(r)
    PROVE  StampInv'
<1>. DEFINE j == job[r]
            back == Back(j, "stamping", j.by)
            k == IF j.op = "sync" /\ ~ j.orphan THEN back ELSE Idle
<1>1. /\ j.step = "writing" /\ UNCHANGED <<file, merged>>
      /\ job' = [job EXCEPT ![r] = k]
      /\ earned' = IF j.op = "sync" THEN earned \cup {j.id} ELSE earned
  BY DEF WriteHa, At, Return
<1>2. EarnedJob(j, earned, merged) /\ IsJob(j)
  BY <1>1, BusyJob
<1>3. /\ back.step = "stamping" /\ back.id = j.id /\ back.ha = NoHa /\ back.content = EmptyContent
      /\ IsJob(back)
  BY <1>2, BackJob DEF IsJob
<1>. HIDE DEF back
<1>4. k = Idle \/ EarnedJob(k, earned', merged)
  BY <1>1, <1>3, EarnedConstants DEF EarnedJob
<1>. HIDE DEF k
<1>. QED
  BY <1>1, <1>4, QuietStamps

LEMMA StampStamps ==
    ASSUME StampInv, NEW r \in Requests, StampOwn(r) \/ UpdateLastSyncedAt(r)
    PROVE  StampInv'
<1>. DEFINE j == job[r]
<1>1. j.step \in {"stamping", "telling"}
  BY DEF StampOwn, UpdateLastSyncedAt, At
<1>2. EarnedJob(j, earned, merged) /\ IsJob(j) /\ On(r) \in Appliances /\ j.id \in earned
  BY <1>1, BusyJob DEF EarnedJob, Answered
<1>3. PeerOf(On(r)) \in Appliances
  BY <1>2, PeerIsAppliance
<1>4. ASSUME NEW a \in Appliances, NEW op \in {"sync", "tell"}, Stamp(r, a, op)
      PROVE  StampInv'
  <2>. DEFINE torn == Torn(a)
              ha == [file[a].ha EXCEPT !.synced = j.id]
              k == [j EXCEPT !.step = "storing", !.on = a, !.op = op, !.stale = torn, !.ha = ha]
  <2>1. job' = [job EXCEPT ![r] = k] /\ UNCHANGED <<file, merged, earned>>
    BY <1>4 DEF Stamp
  <2>2. EarnedHa(ha, earned)
    BY <1>2 DEF StampInv, EarnedContent, EarnedHa, IsHa
  <2>. HIDE DEF torn, ha
  <2>3. /\ k.step = "storing" /\ k.op = op /\ k.id = j.id /\ k.ha = ha /\ k.content = j.content
        /\ IsJob(k)
    BY <1>2 DEF IsJob
  <2>. HIDE DEF k
  <2>4. EarnedJob(k, earned, merged)
    BY <1>2, <2>2, <2>3 DEF EarnedJob
  <2>. QED
    BY <2>1, <2>4, QuietStamps
<1>. QED
  BY <1>2, <1>3, <1>4 DEF StampOwn, UpdateLastSyncedAt

LEMMA ServeStamps ==
    ASSUME StampInv, NEW r \in Requests, Serve(r)
    PROVE  StampInv'
BY UpdateConfigStamps, SyncStamps, MergeStamps, AddressStamps, WriteHaStamps, StampStamps DEF Serve

-----------------------------------------------------------------------------
(* Failures.                                                               *)

LEMMA FailStamps ==
    ASSUME StampInv, NEW r \in Requests, NEW p \in Ports, Fail(r) \/ LoseAnswer(r) \/ SetIpUnsaved(r, p)
    PROVE  StampInv'
<1>. DEFINE j == job[r]
<1>1. /\ j.step # "idle" /\ UNCHANGED <<file, merged, earned>>
  BY DEF Fail, LoseAnswer, SetIpUnsaved, Unlucky, InFlight, At
<1>2. EarnedJob(j, earned, merged) /\ IsJob(j)
  BY <1>1, BusyJob
<1>3. CASE Fail(r)
  <2>. DEFINE on == [j EXCEPT !.step = "generating", !.todo = {}, !.alone = FALSE]
              k == IF j.op = "local" /\ At(r, "addressing") THEN on ELSE Idle
  <2>1. job' = [job EXCEPT ![r] = k]
    BY <1>3 DEF Fail
  <2>2. on.step = "generating" /\ on.ha = j.ha /\ on.content = j.content /\ IsJob(on)
    BY <1>2 DEF IsJob
  <2>. HIDE DEF on
  <2>3. k = Idle \/ EarnedJob(k, earned, merged)
    BY <1>2, <2>2, CarriedJob DEF EarnedJob
  <2>. HIDE DEF k
  <2>. QED
    BY <1>1, <2>1, <2>3, QuietStamps
<1>4. CASE LoseAnswer(r)
  <2>. DEFINE k == [j EXCEPT !.orphan = TRUE]
  <2>1. job' = [job EXCEPT ![r] = k]
    BY <1>4 DEF LoseAnswer
  <2>2. EarnedJob(k, earned, merged)
    BY <1>2, MarkedJob
  <2>. HIDE DEF k
  <2>. QED
    BY <1>1, <2>1, <2>2, QuietStamps
<1>5. CASE SetIpUnsaved(r, p)
  <2>. DEFINE step == IF j.todo = {p} THEN "generating" ELSE j.step
              k == [j EXCEPT !.todo = @ \ {p}, !.alone = FALSE, !.step = step]
  <2>1. job' = [job EXCEPT ![r] = k]
    BY <1>5 DEF SetIpUnsaved
  <2>2. step \in {"generating", "addressing"}
    BY <1>5 DEF SetIpUnsaved, At
  <2>. HIDE DEF step
  <2>3. k.step = step /\ k.ha = j.ha /\ k.content = j.content /\ IsJob(k)
    BY <1>2, <2>2 DEF IsJob
  <2>. HIDE DEF k
  <2>4. EarnedJob(k, earned, merged)
    BY <1>2, <2>2, <2>3, CarriedJob DEF EarnedJob
  <2>. QED
    BY <1>1, <2>1, <2>4, QuietStamps
<1>. QED
  BY <1>3, <1>4, <1>5

LEMMA StopStamps ==
    ASSUME StampInv, NEW a \in Appliances, Stop(a)
    PROVE  StampInv'
<1>. DEFINE rows == ip'[a]
            c == [file[a] EXCEPT !.rows = rows]
<1>1. /\ file' = [file EXCEPT ![a] = c] /\ UNCHANGED <<merged, earned>>
      /\ job' = [r \in Requests |->
                 CASE r \in InFlight /\ On(r) = a -> Idle
                   [] r \in InFlight /\ On(r) # a /\ job[r].by = a -> [job[r] EXCEPT !.orphan = TRUE]
                   [] OTHER -> job[r]]
  BY DEF Stop, Unlucky
<1>. HIDE DEF rows
<1>2. EarnedContent(c, earned)
  BY DEF StampInv, EarnedContent
<1>. HIDE DEF c
<1>3. ASSUME NEW r \in Requests
      PROVE  job'[r] = Idle \/ EarnedJob(job'[r], earned, merged)
  <2>1. \/ job'[r] = Idle \/ job'[r] = job[r]
        \/ r \in InFlight /\ job'[r] = [job[r] EXCEPT !.orphan = TRUE]
    <3>1. CASE r \in InFlight /\ On(r) = a
      BY <1>1, <3>1
    <3>2. CASE r \in InFlight /\ On(r) # a /\ job[r].by = a
      BY <1>1, <3>2
    <3>3. CASE ~ (r \in InFlight /\ On(r) = a) /\ ~ (r \in InFlight /\ On(r) # a /\ job[r].by = a)
      BY <1>1, <3>3
    <3>. QED
      BY <3>1, <3>2, <3>3
  <2>2. CASE r \in InFlight /\ job'[r] = [job[r] EXCEPT !.orphan = TRUE]
    <3>1. EarnedJob(job[r], earned, merged)
      BY <2>2, BusyJob DEF InFlight
    <3>2. EarnedJob([job[r] EXCEPT !.orphan = TRUE], earned, merged)
      BY <3>1, MarkedJob
    <3>. QED
      BY <2>2, <3>2, Zenon
  <2>. QED
    BY <2>1, <2>2 DEF StampInv
<1>4. job' = [r \in Requests |-> job'[r]]
  BY <1>1
<1>. QED
  BY <1>1, <1>2, <1>3, <1>4 DEF StampInv

-----------------------------------------------------------------------------
LEMMA StampInit == HaInit => StampInv
<1>. SUFFICES ASSUME HaInit PROVE StampInv
  OBVIOUS
<1>1. \A a \in Appliances : EarnedContent(file[a], earned)
  <2>1. ASSUME NEW b, NEW chosen, NEW x PROVE EarnedHa(Unsynced(b, chosen, x), earned)
    BY DEF EarnedHa, IsHa, Unsynced
  <2>2. PICK set \in Configured, b \in Appliances, chosen \in Choices : file = StartFiles(set, b, chosen)
    BY DEF HaInit
  <2>3. \A x \in Appliances : /\ DOMAIN file[x] = {"ha", "rows"}
                              /\ file[x].ha = NoHa \/ file[x].ha = Unsynced(b, chosen, x)
    BY <2>2 DEF StartFiles
  <2>4. ASSUME NEW x \in Appliances PROVE EarnedContent(file[x], earned)
    <3>1. EarnedHa(NoHa, earned) /\ EarnedHa(Unsynced(b, chosen, x), earned)
      BY <2>1, EarnedConstants
    <3>2. EarnedHa(file[x].ha, earned)
      BY <2>3, <3>1
    <3>. QED
      BY <2>3, <3>2 DEF EarnedContent
  <2>. QED
    BY <2>4
<1>2. /\ file = [x \in Appliances |-> file[x]]
      /\ merged = [x \in Appliances |-> None] /\ job = [r \in Requests |-> Idle]
  BY DEF HaInit, StartFiles
<1>. QED
  BY <1>1, <1>2 DEF StampInv

LEMMA StampStep == StampInv /\ [HaNext]_haVars => StampInv'
<1>. SUFFICES ASSUME StampInv, [HaNext]_haVars PROVE StampInv'
  OBVIOUS
<1>1. CASE \E r \in Requests : Ask(r) \/ Serve(r) \/ Fail(r) \/ LoseAnswer(r)
                              \/ \E p \in Ports : SetIpUnsaved(r, p)
  BY <1>1, AskStamps, ServeStamps, FailStamps, HaAssumption
<1>2. CASE \E a \in Appliances : Restart(a) \/ Reboot(a)
  BY <1>2, StopStamps DEF Restart, Reboot
<1>3. CASE UNCHANGED haVars
  BY <1>3 DEF haVars, StampInv
<1>. QED
  BY <1>1, <1>2, <1>3 DEF HaNext

(* However often requests are made, fail, lose their answers or are cut off *)
(* by a stop of either appliance, and whatever they overwrite: a time of a  *)
(* last sync in one of the two files is that of a sync the peer has         *)
(* answered to the last step.                                               *)
THEOREM TimesAreEarned == HaSpec => []StampIsEarned
<1>1. StampInv => StampIsEarned
  BY DEF StampInv, EarnedContent, EarnedHa, StampIsEarned
<1>. QED
  BY <1>1, StampInit, StampStep, PTL DEF HaSpec

-----------------------------------------------------------------------------
(* The role and the dedicated port.  What a request will write was read     *)
(* earlier: it is current as long as nobody has written the file since,     *)
(* which the mark of the request says, and the file was whole then.         *)

Roles == {"", "primary", "backup"}
Ops == {"create", "disable", "sync", "tell"}

\* An HA section whose appliance knows its dedicated port, and a file with its rows.
TypedHa(h) == IsHa(h) /\ h.role \in Roles /\ (h.role = "" \/ h.dedicated = Dedicated)
TypedContent(c) == DOMAIN c = {"ha", "rows"} /\ TypedHa(c.ha) /\ DOMAIN c.rows \subseteq Ports

\* Without HA no port is monitored, and the row of the dedicated port is as at the start.
PlainHa(h) == h.role = "" => DOMAIN h.monitored = {}
KeepsLink(c, a) == Dedicated \in DOMAIN c.rows => c.rows[Dedicated] = Start[a][Dedicated]
PlainFile(c, a) == PlainHa(c.ha) /\ KeepsLink(c, a)

\* A file that is not being rewritten.
Whole(c, a, g) == DOMAIN c.rows = Ports /\ c.ha.role = g[a]

\* The steps of a sync at which the primary is at work.
AtHome(j) == \/ j.step \in {"comparing", "sending", "stamping", "telling"}
             \/ j.step = "storing" /\ j.op = "sync"

\* What a request will write is current unless it is marked or its appliance is.
Clean(j, x) == ~ j.stale /\ j.on \notin x
StoresCurrent(j, g, x) ==
    j.step = "storing" =>
        /\ j.op \in Ops
        /\ j.op \in {"create", "disable"} \/ Clean(j, x) => PlainHa(j.ha)
        /\ j.op \in {"sync", "tell"} /\ Clean(j, x) => j.ha.role = g[j.on]
RewritesCurrent(j, g, x) ==
    j.step = "torn" /\ Clean(j, x) =>
        /\ j.content.ha.role = g[j.on]
        /\ j.content.ha.role # "" => DOMAIN j.content.rows = Ports /\ KeepsLink(j.content, j.on)
KeepsAddress(j, x) ==
    j.step = "addressing" /\ j.on \notin x /\ Dedicated \in j.todo
        => AddressOf(j.content, Dedicated) = Start[j.on][Dedicated]

TypedJob(j, m, n) ==
    /\ IsJob(j) /\ TypedHa(j.ha) /\ TypedContent(j.content) /\ j.id \in 1..n
    /\ j.orphan => j.on # j.by
    /\ AtHome(j) => j.on = j.by
    /\ j.step = "merging" => TypedContent(m[j.on])

RoleJob(j, m, g, x, n) ==
    TypedJob(j, m, n) /\ StoresCurrent(j, g, x) /\ RewritesCurrent(j, g, x) /\ KeepsAddress(j, x)

RoleShape ==
    /\ file = [a \in Appliances |-> file[a]] /\ merged = [a \in Appliances |-> merged[a]]
    /\ ip = [a \in Appliances |-> [p \in Ports |-> ip[a][p]]]
    /\ job = [r \in Requests |-> job[r]] /\ given = [a \in Appliances |-> given[a]]
    /\ asked \in Nat /\ mixed \subseteq Appliances /\ earned \subseteq 1..asked

RoleInv ==
    /\ RoleShape
    /\ \A a \in Appliances : TypedContent(file[a])
    /\ \A a \in Appliances : a \notin mixed =>
          PlainFile(file[a], a) /\ ip[a][Dedicated] = Start[a][Dedicated]
    /\ \A a \in Appliances : a \notin mixed => Torn(a) \/ Whole(file[a], a, given)
    /\ \A r \in Requests : job[r] = Idle \/ RoleJob(job[r], merged, given, mixed, asked)

LEMMA TypedConstants ==
    TypedHa(NoHa) /\ TypedContent(EmptyContent) /\ PlainHa(NoHa) /\ \A a : PlainFile(EmptyContent, a)
<1>1. DOMAIN <<>> = {}
  OBVIOUS
<1>2. TypedHa(NoHa) /\ PlainHa(NoHa)
  BY <1>1 DEF TypedHa, PlainHa, NoHa, IsHa, Roles
<1>3. EmptyContent.ha = NoHa /\ EmptyContent.rows = <<>> /\ DOMAIN EmptyContent = {"ha", "rows"}
  BY DEF EmptyContent
<1>. QED
  BY <1>1, <1>2, <1>3 DEF TypedContent, PlainFile, KeepsLink

\* What another request does leaves a job its own, if it is marked when its role is given.
LEMMA RoleMore ==
    ASSUME NEW j, NEW m, NEW g, NEW x, NEW n \in Nat, RoleJob(j, m, g, x, n),
           NEW m2, NEW g2, NEW y, NEW n2 \in Nat, x \subseteq y, n <= n2,
           j.step = "merging" => m2[j.on] = m[j.on] \/ TypedContent(m2[j.on]),
           j.step \in {"storing", "torn"} => g2[j.on] = g[j.on] \/ j.stale
    PROVE  RoleJob(j, m2, g2, y, n2)
<1>1. TypedJob(j, m2, n2)
  BY DEF RoleJob, TypedJob
<1>2. StoresCurrent(j, g2, y)
  BY DEF RoleJob, StoresCurrent, Clean
<1>3. RewritesCurrent(j, g2, y)
  BY DEF RoleJob, RewritesCurrent, Clean
<1>4. KeepsAddress(j, y)
  BY DEF RoleJob, KeepsAddress
<1>. QED
  BY <1>1, <1>2, <1>3, <1>4 DEF RoleJob

\* A job of which only a mark is set.
LEMMA RoleSame ==
    ASSUME NEW j, NEW m, NEW g, NEW x, NEW n, RoleJob(j, m, g, x, n),
           NEW k, IsJob(k), k.op = j.op, k.step = j.step, k.by = j.by, k.on = j.on, k.ha = j.ha,
           k.content = j.content, k.todo = j.todo, k.id = j.id,
           j.stale => k.stale, k.orphan => j.on # j.by
    PROVE  RoleJob(k, m, g, x, n)
BY DEF RoleJob, TypedJob, AtHome, StoresCurrent, RewritesCurrent, KeepsAddress, Clean

LEMMA RoleMarked ==
    ASSUME NEW j, NEW m, NEW g, NEW x, NEW n, RoleJob(j, m, g, x, n)
    PROVE  /\ RoleJob([j EXCEPT !.stale = TRUE], m, g, x, n)
           /\ RoleJob([j EXCEPT !.alone = FALSE], m, g, x, n)
           /\ j.on # j.by => RoleJob([j EXCEPT !.orphan = TRUE], m, g, x, n)
<1>. DEFINE k1 == [j EXCEPT !.stale = TRUE]
            k2 == [j EXCEPT !.alone = FALSE]
            k3 == [j EXCEPT !.orphan = TRUE]
<1>1. IsJob(j) /\ (j.orphan => j.on # j.by)
  BY DEF RoleJob, TypedJob
<1>2. /\ k1.op = j.op /\ k1.step = j.step /\ k1.by = j.by /\ k1.on = j.on /\ k1.ha = j.ha
      /\ k1.content = j.content /\ k1.todo = j.todo /\ k1.id = j.id /\ IsJob(k1)
      /\ j.stale => k1.stale
      /\ k1.orphan => j.orphan
  BY <1>1 DEF IsJob
<1>3. /\ k2.op = j.op /\ k2.step = j.step /\ k2.by = j.by /\ k2.on = j.on /\ k2.ha = j.ha
      /\ k2.content = j.content /\ k2.todo = j.todo /\ k2.id = j.id /\ IsJob(k2)
      /\ j.stale => k2.stale
      /\ k2.orphan => j.orphan
  BY <1>1 DEF IsJob
<1>4. /\ k3.op = j.op /\ k3.step = j.step /\ k3.by = j.by /\ k3.on = j.on /\ k3.ha = j.ha
      /\ k3.content = j.content /\ k3.todo = j.todo /\ k3.id = j.id /\ IsJob(k3)
      /\ j.stale => k3.stale
  BY <1>1 DEF IsJob
<1>. HIDE DEF k1, k2, k3
<1>5. RoleJob(k1, m, g, x, n) /\ RoleJob(k2, m, g, x, n)
  BY <1>1, <1>2, <1>3, RoleSame
<1>6. j.on # j.by => RoleJob(k3, m, g, x, n)
  BY <1>4, RoleSame
<1>. QED
  BY <1>5, <1>6 DEF k1, k2, k3

\* A job that will neither write what it has read nor set an address next.
LEMMA RoleCarried ==
    ASSUME NEW j, NEW m, NEW g, NEW x, NEW n, RoleJob(j, m, g, x, n),
           NEW h, NEW y, NEW m2, NEW k, IsJob(k), ~ AtHome(k),
           k.step \notin {"storing", "torn", "addressing", "merging"},
           TypedHa(k.ha), TypedContent(k.content), k.id = j.id, k.orphan => k.on # k.by
    PROVE  RoleJob(k, m2, h, y, n)
BY DEF RoleJob, TypedJob, StoresCurrent, RewritesCurrent, KeepsAddress

LEMMA BusyRole ==
    ASSUME RoleInv, NEW r \in Requests, job[r].step # "idle"
    PROVE  /\ RoleJob(job[r], merged, given, mixed, asked)
           /\ TypedJob(job[r], merged, asked) /\ IsJob(job[r]) /\ On(r) = job[r].on
           /\ On(r) \in Appliances
           /\ asked \in Nat
<1>1. job[r] # Idle
  BY DEF Idle
<1>2. RoleJob(job[r], merged, given, mixed, asked)
  BY <1>1 DEF RoleInv
<1>3. asked \in Nat
  BY DEF RoleInv, RoleShape
<1>. QED
  BY <1>2, <1>3 DEF RoleJob, TypedJob, IsJob, On

LEMMA OvertakenRoles ==
    ASSUME RoleInv, NEW a, NEW r \in Requests
    PROVE  /\ Overtaken(a, r) = [s \in Requests |-> Overtaken(a, r)[s]]
           /\ Overtaken(a, r)[r] = job[r]
           /\ \A s \in Requests :
                 LET k == Overtaken(a, r)[s]
                 IN  /\ k.step = job[s].step /\ (k # Idle => k.on = job[s].on)
                     /\ k = Idle \/ RoleJob(k, merged, given, mixed, asked)
                     /\ s # r /\ k # Idle /\ k.on = a => k.stale
<1>1. /\ Overtaken(a, r) = [s \in Requests |-> Overtaken(a, r)[s]]
      /\ Overtaken(a, r)[r] = job[r]
  BY DEF Overtaken
<1>2. ASSUME NEW s \in Requests, job[s] = Idle
      PROVE  Overtaken(a, r)[s] = Idle
  BY <1>2 DEF Overtaken, InFlight, Idle
<1>3. ASSUME NEW s \in Requests, job[s] # Idle
      PROVE  LET k == Overtaken(a, r)[s]
             IN  /\ k.step = job[s].step /\ k.on = job[s].on
                 /\ RoleJob(k, merged, given, mixed, asked)
                 /\ s # r /\ k.on = a => k.stale
  <2>. DEFINE j == job[s]
              k == [j EXCEPT !.stale = TRUE]
  <2>1. RoleJob(j, merged, given, mixed, asked)
    BY <1>3 DEF RoleInv
  <2>2. IsJob(j)
    BY <2>1 DEF RoleJob, TypedJob
  <2>3. s \in InFlight /\ On(s) = j.on
    BY <2>2 DEF IsJob, InFlight, On
  <2>4. k.step = j.step /\ k.on = j.on /\ k.stale
    BY <2>2 DEF IsJob
  <2>5. RoleJob(k, merged, given, mixed, asked)
    BY <2>1, RoleMarked
  <2>6. Overtaken(a, r)[s] = IF s # r /\ j.on = a THEN k ELSE j
    BY <2>3 DEF Overtaken
  <2>. HIDE DEF j, k
  <2>. QED
    BY <2>1, <2>4, <2>5, <2>6 DEF j
<1>. QED
  BY <1>1, <1>2, <1>3

\* The others stay at their steps.
LEMMA OthersStay ==
    ASSUME RoleInv, NEW r \in Requests, NEW a \in Appliances, NEW jobs,
           jobs = job \/ jobs = Overtaken(a, r), NEW k, job' = [jobs EXCEPT ![r] = k],
           NEW s \in Requests, s # r
    PROVE  job'[s].step = job[s].step /\ (job'[s] # Idle => job'[s].on = job[s].on)
<1>1. job'[s] = jobs[s]
  BY OvertakenRoles DEF RoleInv, RoleShape
<1>. QED
  BY <1>1, OvertakenRoles

\* The step of one request for the jobs of all: those on the appliance whose file it
\* writes get the mark.
LEMMA RoleJobs ==
    ASSUME RoleInv, NEW r \in Requests, NEW a \in Appliances, NEW jobs,
           jobs = job \/ jobs = Overtaken(a, r),
           NEW k, job' = [jobs EXCEPT ![r] = k],
           k = Idle \/ RoleJob(k, merged', given', mixed', asked'),
           \A b \in Appliances : given'[b] = given[b] \/ (b = a /\ jobs = Overtaken(a, r)),
           \A b \in Appliances : merged'[b] = merged[b] \/ TypedContent(merged'[b]),
           mixed \subseteq mixed', asked' = asked
    PROVE  /\ job' = [s \in Requests |-> job'[s]]
           /\ \A s \in Requests : job'[s] = Idle \/ RoleJob(job'[s], merged', given', mixed', asked')
<1>1. /\ jobs = [s \in Requests |-> jobs[s]]
      /\ \A s \in Requests :
           /\ jobs[s].step = job[s].step /\ (jobs[s] # Idle => jobs[s].on = job[s].on)
           /\ jobs[s] = Idle \/ RoleJob(jobs[s], merged, given, mixed, asked)
           /\ jobs = Overtaken(a, r) /\ s # r /\ jobs[s] # Idle /\ jobs[s].on = a => jobs[s].stale
  <2>1. CASE jobs = Overtaken(a, r)
    BY <2>1, OvertakenRoles
  <2>2. CASE jobs = job /\ jobs # Overtaken(a, r)
    BY <2>2 DEF RoleInv, RoleShape
  <2>. QED
    BY <2>1, <2>2
<1>2. asked \in Nat
  BY DEF RoleInv, RoleShape
<1>3. ASSUME NEW s \in Requests, s # r
      PROVE  /\ job'[s] = jobs[s]
             /\ jobs[s] = Idle \/ RoleJob(jobs[s], merged', given', mixed', asked')
  <2>1. job'[s] = jobs[s]
    BY <1>1, <1>3
  <2>2. CASE jobs[s] # Idle
    <3>. DEFINE j == jobs[s]
    <3>1. RoleJob(j, merged, given, mixed, asked) /\ (j.on = a /\ jobs = Overtaken(a, r) => j.stale)
      BY <1>1, <1>3, <2>2
    <3>2. j.on \in Appliances
      BY <3>1 DEF RoleJob, TypedJob, IsJob
    <3>3. given'[j.on] = given[j.on] \/ j.stale
      BY <3>1, <3>2
    <3>4. merged'[j.on] = merged[j.on] \/ TypedContent(merged'[j.on])
      BY <3>2
    <3>. HIDE DEF j
    <3>5. RoleJob(j, merged', given', mixed', asked')
      BY <1>2, <3>1, <3>3, <3>4, RoleMore
    <3>. QED
      BY <2>1, <3>5 DEF j
  <2>. QED
    BY <2>1, <2>2
<1>4. job'[r] = k /\ job' = [s \in Requests |-> job'[s]]
  BY <1>1
<1>. QED
  BY <1>1, <1>3, <1>4

\* A file is being rewritten by the same requests as before.
LEMMA TornKept ==
    ASSUME NEW r \in Requests, NEW b,
           \A s \in Requests : s # r =>
              job'[s].step = job[s].step /\ (job'[s] # Idle => job'[s].on = job[s].on),
           (job'[r].step = "torn" /\ job'[r].on = b) <=> (job[r].step = "torn" /\ job[r].on = b)
    PROVE  Torn(b)' <=> Torn(b)
<1>1. ASSUME NEW s \in Requests
      PROVE  (job'[s].step = "torn" /\ job'[s].on = b) <=> (job[s].step = "torn" /\ job[s].on = b)
  <2>1. CASE s # r
    <3>1. job'[s].step = "torn" => job'[s] # Idle
      BY DEF Idle
    <3>. QED
      BY <2>1, <3>1
  <2>. QED
    BY <2>1
<1>. QED
  BY <1>1 DEF Torn, At, On

\* The step of one request, which becomes k: of the appliance it works on the file may
\* become c, and what others have read of it is marked then.
RoleMove(r, a, jobs, k, c) ==
    /\ jobs = job \/ jobs = Overtaken(a, r)
    /\ job' = [jobs EXCEPT ![r] = k]
    /\ k = Idle \/ RoleJob(k, merged', given', mixed', asked')
    /\ \A b \in Appliances : given'[b] = given[b] \/ (b = a /\ jobs = Overtaken(a, r))
    /\ \A b \in Appliances : merged'[b] = merged[b] \/ TypedContent(merged'[b])
    /\ mixed \subseteq mixed' /\ mixed' \subseteq Appliances /\ asked' = asked
    /\ earned' \subseteq 1..asked
    /\ given' = [b \in Appliances |-> given'[b]] /\ merged' = [b \in Appliances |-> merged'[b]]
    /\ ip' = [b \in Appliances |-> [p \in Ports |-> ip'[b][p]]]
    /\ \A b \in Appliances \ {a} : ip'[b] = ip[b]
    /\ file' = [file EXCEPT ![a] = c] /\ TypedContent(c)
    /\ a \notin mixed' => PlainFile(c, a) /\ ip'[a][Dedicated] = Start[a][Dedicated]
    /\ a \notin mixed' => Torn(a)' \/ Whole(c, a, given')
    /\ job[r].step = "torn" => job[r].on = a
    /\ k.step = "torn" => k.on = a

LEMMA RoleStep ==
    ASSUME RoleInv, NEW r \in Requests, NEW a \in Appliances, NEW jobs, NEW k, NEW c,
           RoleMove(r, a, jobs, k, c)
    PROVE  RoleInv'
<1>. USE DEF RoleMove
<1>1. /\ job' = [s \in Requests |-> job'[s]]
      /\ \A s \in Requests : job'[s] = Idle \/ RoleJob(job'[s], merged', given', mixed', asked')
      /\ \A s \in Requests : s # r =>
            job'[s].step = job[s].step /\ (job'[s] # Idle => job'[s].on = job[s].on)
  <2>1. job' = [s \in Requests |-> job'[s]]
    BY RoleJobs
  <2>2. \A s \in Requests : job'[s] = Idle \/ RoleJob(job'[s], merged', given', mixed', asked')
    BY RoleJobs
  <2>3. \A s \in Requests : s # r =>
            job'[s].step = job[s].step /\ (job'[s] # Idle => job'[s].on = job[s].on)
    BY OthersStay
  <2>. QED
    BY <2>1, <2>2, <2>3
<1>2. job'[r] = k
  BY <1>1, OvertakenRoles DEF RoleInv, RoleShape
<1>3. ASSUME NEW b \in Appliances, b # a, b \notin mixed'
      PROVE  Torn(b)' \/ Whole(file'[b], b, given')
  <2>1. Torn(b)' <=> Torn(b)
    BY <1>1, <1>2, <1>3, TornKept
  <2>2. given'[b] = given[b] /\ file'[b] = file[b] /\ b \notin mixed
    BY <1>3 DEF RoleInv, RoleShape
  <2>. QED
    BY <1>3, <2>1, <2>2 DEF RoleInv, Whole
<1>4. file' = [b \in Appliances |-> file'[b]] /\ file'[a] = c
  BY DEF RoleInv, RoleShape
<1>5. \A b \in Appliances : TypedContent(file'[b])
  BY DEF RoleInv, RoleShape
<1>6. ASSUME NEW b \in Appliances, b \notin mixed'
      PROVE  /\ PlainFile(file'[b], b) /\ ip'[b][Dedicated] = Start[b][Dedicated]
             /\ Torn(b)' \/ Whole(file'[b], b, given')
  <2>1. CASE b = a
    BY <1>4, <1>6, <2>1
  <2>2. CASE b # a
    <3>1. file'[b] = file[b] /\ ip'[b] = ip[b] /\ b \notin mixed
      BY <1>6, <2>2 DEF RoleInv, RoleShape
    <3>. QED
      BY <1>3, <1>6, <2>2, <3>1 DEF RoleInv
  <2>. QED
    BY <2>1, <2>2
<1>. QED
  BY <1>1, <1>4, <1>5, <1>6 DEF RoleInv, RoleShape

\* A step that changes no file and starts no rewriting of one.
LEMMA RoleQuiet ==
    ASSUME RoleInv, NEW r \in Requests, job[r].step \notin {"idle", "torn"},
           NEW k, job' = [job EXCEPT ![r] = k], k.step # "torn",
           k = Idle \/ RoleJob(k, merged', given, mixed, asked),
           UNCHANGED <<file, ip, given, mixed, asked>>,
           merged' = [b \in Appliances |-> merged'[b]],
           \A b \in Appliances : merged'[b] = merged[b] \/ TypedContent(merged'[b]),
           earned' \subseteq 1..asked
    PROVE  RoleInv'
<1>1. PICK a \in Appliances : a = job[r].on
  BY BusyRole
<1>. DEFINE c == file[a]
<1>2. file' = [file EXCEPT ![a] = c] /\ TypedContent(c)
  BY <1>1 DEF RoleInv, RoleShape
<1>3. Torn(a)' <=> Torn(a)
  <2>1. job'[r] = k
    BY DEF RoleInv, RoleShape
  <2>2. \A s \in Requests : s # r =>
            job'[s].step = job[s].step /\ (job'[s] # Idle => job'[s].on = job[s].on)
    BY DEF RoleInv, RoleShape
  <2>. QED
    BY <1>1, <2>1, <2>2, TornKept
<1>4. a \notin mixed' => PlainFile(c, a) /\ ip'[a][Dedicated] = Start[a][Dedicated]
  BY <1>1 DEF RoleInv
<1>5. a \notin mixed' => Torn(a)' \/ Whole(c, a, given')
  BY <1>1, <1>3 DEF RoleInv
<1>6. /\ given' = [b \in Appliances |-> given'[b]] /\ mixed' \subseteq Appliances
      /\ ip' = [b \in Appliances |-> [p \in Ports |-> ip'[b][p]]]
      /\ \A b \in Appliances : given'[b] = given[b]
      /\ \A b \in Appliances \ {a} : ip'[b] = ip[b]
      /\ mixed \subseteq mixed'
  BY DEF RoleInv, RoleShape
<1>7. k = Idle \/ RoleJob(k, merged', given', mixed', asked')
  OBVIOUS
<1>. HIDE DEF c
<1>8. RoleMove(r, a, job, k, c)
  BY <1>1, <1>2, <1>4, <1>5, <1>6, <1>7 DEF RoleMove
<1>. QED
  BY <1>8, RoleStep

LEMMA BackRole ==
    ASSUME NEW j, NEW m, NEW g, NEW x, NEW n, RoleJob(j, m, g, x, n), ~ j.orphan,
           NEW step \in {"fetching", "stamping"}, NEW a \in Appliances, step = "stamping" => a = j.by
    PROVE  RoleJob(Back(j, step, a), m, g, x, n)
<1>. DEFINE k == Back(j, step, a)
<1>1. IsJob(j) /\ j.id \in 1..n
  BY DEF RoleJob, TypedJob
<1>2. /\ k.step = step /\ k.on = a /\ k.by = j.by /\ k.id = j.id /\ k.ha = NoHa
      /\ k.content = EmptyContent /\ k.orphan = j.orphan /\ IsJob(k)
  BY <1>1 DEF IsJob, Back
<1>. HIDE DEF k
<1>3. TypedJob(k, m, n)
  BY <1>1, <1>2, TypedConstants DEF TypedJob, AtHome
<1>4. RoleJob(k, m, g, x, n)
  BY <1>2, <1>3 DEF RoleJob, StoresCurrent, RewritesCurrent, KeepsAddress
<1>. QED
  BY <1>4 DEF k

\* An HA section is stored: what was read is current, unless it is marked or met a file
\* that was being rewritten.
LEMMA UpdateConfigRoles ==
    ASSUME RoleInv, NEW r \in Requests, UpdateConfig(r)
    PROVE  RoleInv'
<1>. DEFINE j == job[r]
<1>0. PICK a \in Appliances : a = On(r)
  BY BusyRole DEF UpdateConfig, At
<1>. DEFINE c == [file[a] EXCEPT !.ha = j.ha]
            jobs == Overtaken(a, r)
            operator == j.op \in {"create", "disable"}
<1>1. /\ j.step = "storing" /\ UNCHANGED <<merged, ip, asked, earned>>
      /\ file' = [file EXCEPT ![a] = c]
      /\ given' = IF operator THEN [given EXCEPT ![a] = j.ha.role] ELSE given
      /\ mixed' = IF Torn(a) \/ (~ operator /\ j.stale) THEN mixed \cup {a} ELSE mixed
  BY <1>0 DEF UpdateConfig, At
<1>2. RoleJob(j, merged, given, mixed, asked) /\ IsJob(j) /\ a = j.on
  BY <1>0, <1>1, BusyRole
<1>3. /\ TypedHa(j.ha) /\ j.op \in Ops
      /\ operator \/ Clean(j, mixed) => PlainHa(j.ha)
      /\ ~ operator /\ Clean(j, mixed) => j.ha.role = given[a]
  BY <1>1, <1>2 DEF RoleJob, TypedJob, StoresCurrent, Ops
<1>4. TypedContent(file[a])
  BY <1>2 DEF RoleInv
<1>5. c.ha = j.ha /\ c.rows = file[a].rows /\ DOMAIN c = {"ha", "rows"}
  BY <1>4 DEF TypedContent
<1>6. TypedContent(c)
  BY <1>3, <1>4, <1>5 DEF TypedContent
<1>7. ASSUME a \notin mixed'
      PROVE  PlainFile(c, a) /\ ip'[a][Dedicated] = Start[a][Dedicated] /\ Whole(c, a, given')
  <2>1. a \notin mixed /\ ~ Torn(a) /\ (operator \/ ~ j.stale)
    BY <1>1, <1>7
  <2>2. PlainFile(file[a], a) /\ ip[a][Dedicated] = Start[a][Dedicated] /\ Whole(file[a], a, given)
    BY <1>2, <2>1 DEF RoleInv
  <2>3. operator \/ Clean(j, mixed)
    BY <1>2, <2>1 DEF Clean
  <2>4. given'[a] = j.ha.role
    <3>1. given = [b \in Appliances |-> given[b]]
      BY DEF RoleInv, RoleShape
    <3>. QED
      BY <1>1, <1>2, <1>3, <2>3, <3>1
  <2>. HIDE DEF c, operator
  <2>. QED
    BY <1>1, <1>3, <1>5, <2>2, <2>3, <2>4 DEF PlainFile, KeepsLink, Whole
<1>8. jobs = [s \in Requests |-> jobs[s]] /\ jobs[r] = j
  BY OvertakenRoles
<1>9. \E k : /\ job' = [jobs EXCEPT ![r] = k] /\ k.step \notin {"storing", "torn", "merging"}
             /\ k = Idle \/ RoleJob(k, merged, given, mixed, asked)
  <2>1. CASE j.op = "tell"
    <3>. DEFINE back == Back(j, "fetching", j.by)
                on == [back EXCEPT !.op = "local"]
                k == IF j.orphan THEN Idle ELSE on
    <3>1. IsJob(back) /\ back.step = "fetching" /\ back # Idle
      BY <1>2, BackJob DEF IsJob, Idle
    <3>2. job' = [jobs EXCEPT ![r] = k]
      <4>1. job' = [Return(jobs, r, "fetching", j.by) EXCEPT ![r] =
                      IF @ = Idle THEN @ ELSE [@ EXCEPT !.op = "local"]]
        BY <1>0, <2>1 DEF UpdateConfig
      <4>2. Return(jobs, r, "fetching", j.by) = [jobs EXCEPT ![r] = IF j.orphan THEN Idle ELSE back]
        BY <1>8 DEF Return
      <4>. HIDE DEF back, jobs, j
      <4>. QED
        BY <1>8, <3>1, <4>1, <4>2
    <3>3. ~ j.orphan => RoleJob(back, merged, given, mixed, asked)
      BY <1>2, BackRole DEF IsJob
    <3>. HIDE DEF back
    <3>4. /\ on.step = "fetching" /\ on.ha = back.ha /\ on.content = back.content /\ on.id = back.id
          /\ on.on = back.on /\ on.by = back.by /\ (on.orphan => back.orphan) /\ IsJob(on)
      BY <3>1 DEF IsJob
    <3>. HIDE DEF on
    <3>5. ~ j.orphan => RoleJob(on, merged, given, mixed, asked)
      BY <3>3, <3>4, RoleCarried DEF RoleJob, TypedJob, AtHome
    <3>. HIDE DEF jobs, j
    <3>6. k.step \notin {"storing", "torn", "merging"} /\ (k = Idle \/ RoleJob(k, merged, given, mixed, asked))
      BY <3>4, <3>5 DEF Idle
    <3>. QED
      BY <3>2, <3>6
  <2>2. CASE j.op # "tell"
    <3>. DEFINE k == [j EXCEPT !.step = AfterSaving(r), !.ha = NoHa]
    <3>1. job' = [jobs EXCEPT ![r] = k]
      BY <1>0, <1>8, <2>2 DEF UpdateConfig
    <3>2. /\ AfterSaving(r) \in {"generating", "resetting", "telling"}
          /\ AfterSaving(r) = "telling" => j.op = "sync"
      BY <1>3, <2>2 DEF AfterSaving, Ops
    <3>3. /\ k.step = AfterSaving(r) /\ k.ha = NoHa /\ k.content = j.content /\ k.id = j.id
          /\ k.on = j.on /\ k.by = j.by /\ k.orphan = j.orphan /\ IsJob(k)
      BY <1>2, <3>2 DEF IsJob
    <3>. HIDE DEF k
    <3>4. TypedJob(k, merged, asked)
      BY <1>1, <1>2, <3>2, <3>3, TypedConstants DEF RoleJob, TypedJob, AtHome
    <3>5. RoleJob(k, merged, given, mixed, asked)
      BY <3>2, <3>3, <3>4 DEF RoleJob, StoresCurrent, RewritesCurrent, KeepsAddress
    <3>6. k.step \notin {"storing", "torn", "merging"}
      BY <3>2, <3>3
    <3>. QED
      BY <3>1, <3>5, <3>6
  <2>. QED
    BY <2>1, <2>2
<1>10. PICK k : /\ job' = [jobs EXCEPT ![r] = k] /\ k.step \notin {"storing", "torn", "merging"}
                /\ k = Idle \/ RoleJob(k, merged, given, mixed, asked)
  BY <1>9
<1>11. /\ mixed \subseteq mixed' /\ mixed' \subseteq Appliances /\ asked \in Nat
       /\ given' = [b \in Appliances |-> given'[b]]
       /\ \A b \in Appliances : given'[b] = given[b] \/ b = a
       /\ merged' = [b \in Appliances |-> merged'[b]]
       /\ ip' = [b \in Appliances |-> [p \in Ports |-> ip'[b][p]]]
       /\ earned' \subseteq 1..asked
  BY <1>1, <1>2 DEF RoleInv, RoleShape
<1>12. k = Idle \/ RoleJob(k, merged', given', mixed', asked')
  BY <1>1, <1>10, <1>11, RoleMore
<1>13. \A b \in Appliances : merged'[b] = merged[b] /\ ip'[b] = ip[b]
  BY <1>1
<1>. HIDE DEF c, jobs, j
<1>14. job[r].step # "torn"
  BY <1>1 DEF j
<1>15. RoleMove(r, a, jobs, k, c)
  BY <1>1, <1>6, <1>7, <1>10, <1>11, <1>12, <1>13, <1>14 DEF jobs, RoleMove
<1>. QED
  BY <1>15, RoleStep

LEMMA PeerOfPeer ==
    ASSUME NEW a \in Appliances PROVE PeerOf(a) \in Appliances /\ PeerOf(a) # a
<1>1. \E b \in Appliances : b # a
  BY HaAssumption
<1>. QED
  BY <1>1 DEF PeerOf

LEMMA SyncRoles ==
    ASSUME RoleInv, NEW r \in Requests,
           \/ ResetKeepAlived(r) \/ CompareDeviceInfo(r) \/ SendConfigToOtherDevice(r)
           \/ HaCopyConfig(r)
    PROVE  RoleInv'
<1>. DEFINE j == job[r]
<1>1. /\ j.step \in {"resetting", "comparing", "sending", "copying"}
      /\ UNCHANGED <<file, ip, given, mixed, asked, earned>>
  BY DEF ResetKeepAlived, CompareDeviceInfo, SendConfigToOtherDevice, HaCopyConfig, At
<1>2. RoleJob(j, merged, given, mixed, asked) /\ TypedJob(j, merged, asked) /\ IsJob(j)
  BY <1>1, BusyRole
<1>3. /\ merged = [b \in Appliances |-> merged[b]] /\ earned' \subseteq 1..asked
  BY <1>1 DEF RoleInv, RoleShape
<1>4. Idle.step = "idle"
  BY DEF Idle
<1>5. CASE job' = [job EXCEPT ![r] = Idle] /\ UNCHANGED merged
  BY <1>1, <1>3, <1>4, <1>5, RoleQuiet
<1>6. CASE CompareDeviceInfo(r) /\ job' # [job EXCEPT ![r] = Idle]
  <2>. DEFINE k == [j EXCEPT !.step = "sending"]
  <2>1. job' = [job EXCEPT ![r] = k] /\ UNCHANGED merged /\ j.step = "comparing"
    BY <1>6 DEF CompareDeviceInfo, At
  <2>2. /\ k.step = "sending" /\ k.ha = j.ha /\ k.content = j.content /\ k.id = j.id
        /\ k.on = j.on /\ k.by = j.by /\ k.orphan = j.orphan /\ IsJob(k)
    BY <1>2 DEF IsJob
  <2>. HIDE DEF k
  <2>3. RoleJob(k, merged, given, mixed, asked)
    BY <1>2, <2>1, <2>2 DEF RoleJob, TypedJob, AtHome, StoresCurrent, RewritesCurrent, KeepsAddress
  <2>. HIDE DEF j
  <2>. QED
    BY <1>1, <1>3, <2>1, <2>2, <2>3, RoleQuiet DEF j
<1>7. CASE SendConfigToOtherDevice(r)
  <2>1. PICK a \in Appliances : a = j.on
    BY <1>2 DEF IsJob
  <2>. DEFINE peer == PeerOf(a)
              content == file[a]
              k == [j EXCEPT !.step = "copying", !.on = peer, !.content = content]
  <2>2. job' = [job EXCEPT ![r] = k] /\ UNCHANGED merged /\ j.step = "sending"
    <3>1. /\ job' = [job EXCEPT ![r].step = "copying", ![r].on = PeerOf(@), ![r].content = file[a]]
          /\ UNCHANGED merged /\ j.step = "sending"
      BY <1>7, <2>1 DEF SendConfigToOtherDevice, At, On
    <3>. QED
      BY <2>1, <3>1
  <2>3. peer \in Appliances /\ peer # a /\ j.by = a
    BY <1>2, <2>1, <2>2, PeerOfPeer DEF TypedJob, AtHome
  <2>4. TypedContent(content)
    BY DEF RoleInv
  <2>. HIDE DEF peer, content
  <2>5. /\ k.step = "copying" /\ k.ha = j.ha /\ k.content = content /\ k.id = j.id
        /\ k.on = peer /\ k.by = j.by /\ IsJob(k)
    BY <1>2, <2>3 DEF IsJob
  <2>. HIDE DEF k
  <2>6. RoleJob(k, merged, given, mixed, asked)
    BY <1>2, <2>3, <2>4, <2>5, RoleCarried DEF TypedJob, AtHome
  <2>. HIDE DEF j
  <2>. QED
    BY <1>1, <1>3, <2>2, <2>5, <2>6, RoleQuiet DEF j
<1>8. CASE HaCopyConfig(r)
  <2>1. PICK a \in Appliances : a = j.on
    BY <1>2 DEF IsJob
  <2>. DEFINE back == Back(j, "merging", a)
              k == IF j.orphan THEN Idle ELSE back
  <2>2. /\ job' = [job EXCEPT ![r] = k] /\ j.step = "copying"
        /\ merged' = [merged EXCEPT ![a] = j.content]
    BY <1>8, <2>1 DEF HaCopyConfig, At, On, Return
  <2>3. /\ merged' = [b \in Appliances |-> merged'[b]] /\ merged'[a] = j.content
        /\ TypedContent(j.content) /\ \A b \in Appliances : b # a => merged'[b] = merged[b]
    BY <1>2, <1>3, <2>1, <2>2 DEF TypedJob
  <2>4. /\ back.step = "merging" /\ back.ha = NoHa /\ back.content = EmptyContent
        /\ back.id = j.id /\ back.on = a /\ back.by = j.by /\ back.orphan = j.orphan /\ IsJob(back)
    BY <1>2, <2>1 DEF IsJob, Back
  <2>. HIDE DEF back
  <2>5. ~ j.orphan => TypedJob(back, merged', asked)
    BY <1>2, <2>3, <2>4, TypedConstants DEF TypedJob, AtHome
  <2>6. ~ j.orphan => RoleJob(back, merged', given, mixed, asked)
    BY <2>4, <2>5 DEF RoleJob, StoresCurrent, RewritesCurrent, KeepsAddress
  <2>7. k.step # "torn" /\ (k = Idle \/ RoleJob(k, merged', given, mixed, asked))
    BY <1>4, <2>4, <2>6
  <2>. HIDE DEF j, k
  <2>8. \A b \in Appliances : merged'[b] = merged[b] \/ TypedContent(merged'[b])
    BY <2>3
  <2>. QED
    BY <1>1, <1>3, <2>2, <2>3, <2>7, <2>8, RoleQuiet DEF j
<1>. QED
  BY <1>5, <1>6, <1>7, <1>8 DEF ResetKeepAlived, CompareDeviceInfo

\* The merged file: the role and the row of the dedicated port are the own ones.
LEMMA MergedRoles ==
    ASSUME NEW own, TypedContent(own), NEW received, TypedContent(received)
    PROVE  /\ TypedContent(Merged(own, received))
           /\ Merged(own, received).ha.role = own.ha.role
           /\ \A a : /\ own.ha.role # "" /\ DOMAIN own.rows = Ports /\ KeepsLink(own, a)
                     /\ Cardinality(DOMAIN own.rows) = Cardinality(DOMAIN received.rows)
                     => /\ DOMAIN Merged(own, received).rows = Ports
                        /\ KeepsLink(Merged(own, received), a)
<1>. DEFINE ha == [received.ha EXCEPT !.role = own.ha.role, !.dedicated = own.ha.dedicated]
            rows == [p \in DOMAIN received.rows |->
                       IF p = own.ha.dedicated THEN own.rows[p] ELSE received.rows[p]]
<1>1. /\ Merged(own, received).ha = ha /\ Merged(own, received).rows = rows
      /\ DOMAIN Merged(own, received) = {"ha", "rows"}
  BY DEF Merged
<1>2. IsHa(ha) /\ ha.role = own.ha.role /\ ha.dedicated = own.ha.dedicated
  BY DEF TypedContent, TypedHa, IsHa
<1>3. TypedHa(ha)
  BY <1>2 DEF TypedContent, TypedHa
<1>4. DOMAIN rows = DOMAIN received.rows /\ DOMAIN rows \subseteq Ports
  BY DEF TypedContent
<1>5. ASSUME NEW a, own.ha.role # "", DOMAIN own.rows = Ports, KeepsLink(own, a),
             Cardinality(DOMAIN own.rows) = Cardinality(DOMAIN received.rows)
      PROVE  DOMAIN rows = Ports /\ (Dedicated \in DOMAIN rows => rows[Dedicated] = Start[a][Dedicated])
  <2>1. DOMAIN rows = Ports
    BY <1>4, <1>5, HaAssumption, FS_Subset
  <2>2. own.ha.dedicated = Dedicated /\ Dedicated \in Ports
    BY <1>5, HaAssumption DEF TypedContent, TypedHa
  <2>. QED
    BY <1>4, <1>5, <2>1, <2>2 DEF KeepsLink
<1>. HIDE DEF ha, rows
<1>. QED
  BY <1>1, <1>2, <1>3, <1>4, <1>5 DEF TypedContent, KeepsLink

\* The own file is read and emptied: what is carried is current if it was whole.
LEMMA SyncBackupRoles ==
    ASSUME RoleInv, NEW r \in Requests, SyncBackup(r)
    PROVE  RoleInv'
<1>. DEFINE j == job[r]
<1>1. /\ j.step = "merging" /\ UNCHANGED <<merged, ip, given, mixed, asked, earned>>
  BY DEF SyncBackup, At
<1>2. RoleJob(j, merged, given, mixed, asked) /\ TypedJob(j, merged, asked) /\ IsJob(j)
  BY <1>1, BusyRole
<1>3. PICK a \in Appliances : a = j.on /\ a = On(r)
  BY <1>1, BusyRole
<1>. DEFINE own == file[a]
            received == merged[a]
            content == Merged(own, received)
            torn == Torn(a)
            k == [j EXCEPT !.step = "torn", !.stale = torn, !.content = content]
<1>4. /\ merged' = [b \in Appliances |-> merged'[b]] /\ given' = [b \in Appliances |-> given'[b]]
      /\ ip' = [b \in Appliances |-> [p \in Ports |-> ip'[b][p]]]
      /\ earned' \subseteq 1..asked /\ mixed' \subseteq Appliances
  BY <1>1 DEF RoleInv, RoleShape
<1>5. CASE job' = [job EXCEPT ![r] = Idle] /\ UNCHANGED file
  <2>1. Idle.step = "idle"
    BY DEF Idle
  <2>2. \A b \in Appliances : merged'[b] = merged[b]
    BY <1>1
  <2>. HIDE DEF content, torn, own, received, k
  <2>. QED
    BY <1>1, <1>4, <1>5, <2>1, <2>2, RoleQuiet
<1>6. CASE /\ job' = [Overtaken(a, r) EXCEPT ![r] = k]
           /\ file' = [file EXCEPT ![a] = EmptyContent]
           /\ Cardinality(DOMAIN own.rows) = Cardinality(DOMAIN received.rows)
  <2>1. TypedContent(own) /\ TypedContent(received)
    BY <1>1, <1>2, <1>3 DEF RoleInv, TypedJob
  <2>2. TypedContent(content) /\ content.ha.role = own.ha.role
    BY <2>1, MergedRoles
  <2>3. ASSUME a \notin mixed, ~ torn
        PROVE  /\ content.ha.role = given[a]
               /\ content.ha.role # "" => DOMAIN content.rows = Ports /\ KeepsLink(content, a)
    <3>1. DOMAIN own.rows = Ports /\ own.ha.role = given[a] /\ KeepsLink(own, a)
      BY <2>3 DEF RoleInv, Whole, PlainFile
    <3>. QED
      BY <1>6, <2>1, <2>2, <3>1, MergedRoles
  <2>. HIDE DEF content, torn, own, received
  <2>4. /\ k.step = "torn" /\ k.ha = j.ha /\ k.content = content /\ k.id = j.id
        /\ k.on = a /\ k.by = j.by /\ k.orphan = j.orphan /\ IsJob(k)
    BY <1>2, <1>3 DEF IsJob
  <2>5. torn => k.stale
    BY <1>2 DEF IsJob
  <2>. HIDE DEF k
  <2>6. TypedJob(k, merged, asked)
    BY <1>2, <1>3, <2>2, <2>4 DEF TypedJob, AtHome
  <2>7. RewritesCurrent(k, given, mixed)
    BY <2>3, <2>4, <2>5 DEF RewritesCurrent, Clean
  <2>8. RoleJob(k, merged, given, mixed, asked)
    BY <2>4, <2>6, <2>7 DEF RoleJob, StoresCurrent, KeepsAddress
  <2>9. Torn(a)'
    <3>1. job'[r] = k
      BY <1>6, OvertakenRoles
    <3>. QED
      BY <2>4, <3>1 DEF Torn, At, On
  <2>10. a \notin mixed' => PlainFile(EmptyContent, a) /\ ip'[a][Dedicated] = Start[a][Dedicated]
    BY <1>1, TypedConstants DEF RoleInv
  <2>11. /\ \A b \in Appliances : given'[b] = given[b] /\ merged'[b] = merged[b] /\ ip'[b] = ip[b]
         /\ mixed \subseteq mixed' /\ asked' = asked
    BY <1>1
  <2>12. RoleMove(r, a, Overtaken(a, r), k, EmptyContent)
    BY <1>1, <1>4, <1>6, <2>4, <2>8, <2>9, <2>10, <2>11, TypedConstants DEF RoleMove
  <2>. QED
    BY <2>12, RoleStep
<1>7. \/ job' = [job EXCEPT ![r] = Idle] /\ UNCHANGED file
      \/ /\ job' = [Overtaken(a, r) EXCEPT ![r].step = "torn", ![r].stale = torn,
                                           ![r].content = content]
         /\ file' = [file EXCEPT ![a] = EmptyContent]
         /\ Cardinality(DOMAIN own.rows) = Cardinality(DOMAIN received.rows)
  BY <1>3 DEF SyncBackup
<1>8. Overtaken(a, r)[r] = j
  BY OvertakenRoles
<1>. HIDE DEF content, torn
<1>. QED
  BY <1>5, <1>6, <1>7, <1>8

\* The merged file is written: it is whole unless the request is marked or HA was disabled.
LEMMA WriteFileRoles ==
    ASSUME RoleInv, NEW r \in Requests, WriteInterfaceConfigFile(r)
    PROVE  RoleInv'
<1>. DEFINE j == job[r]
<1>1. /\ j.step = "torn" /\ UNCHANGED <<merged, ip, given, asked, earned>>
  BY DEF WriteInterfaceConfigFile, At
<1>2. RoleJob(j, merged, given, mixed, asked) /\ TypedJob(j, merged, asked) /\ IsJob(j)
  BY <1>1, BusyRole
<1>3. PICK a \in Appliances : a = j.on /\ a = On(r)
  BY <1>1, BusyRole
<1>. DEFINE c == j.content
            back == Back(j, "fetching", a)
            k == IF j.orphan THEN Idle ELSE back
<1>4. /\ file' = [file EXCEPT ![a] = c] /\ job' = [Overtaken(a, r) EXCEPT ![r] = k]
      /\ mixed' = IF j.stale \/ c.ha.role = "" THEN mixed \cup {a} ELSE mixed
  BY <1>3, OvertakenRoles DEF WriteInterfaceConfigFile, Return
<1>5. /\ merged' = [b \in Appliances |-> merged'[b]] /\ given' = [b \in Appliances |-> given'[b]]
      /\ ip' = [b \in Appliances |-> [p \in Ports |-> ip'[b][p]]]
      /\ earned' \subseteq 1..asked /\ mixed' \subseteq Appliances /\ mixed \subseteq mixed'
      /\ asked \in Nat /\ asked' = asked
      /\ \A b \in Appliances : given'[b] = given[b] /\ merged'[b] = merged[b] /\ ip'[b] = ip[b]
  BY <1>1, <1>4 DEF RoleInv, RoleShape
<1>6. ASSUME a \notin mixed'
      PROVE  PlainFile(c, a) /\ ip'[a][Dedicated] = Start[a][Dedicated] /\ Whole(c, a, given')
  <2>1. a \notin mixed /\ ~ j.stale /\ c.ha.role # ""
    BY <1>4, <1>6
  <2>2. c.ha.role = given[a] /\ DOMAIN c.rows = Ports /\ KeepsLink(c, a)
    BY <1>1, <1>2, <1>3, <2>1 DEF RoleJob, RewritesCurrent, Clean
  <2>3. ip'[a][Dedicated] = Start[a][Dedicated]
    BY <1>5, <2>1 DEF RoleInv
  <2>. QED
    BY <1>5, <2>1, <2>2, <2>3 DEF PlainFile, PlainHa, Whole
<1>7. TypedContent(c)
  BY <1>2 DEF TypedJob
<1>8. ~ j.orphan => RoleJob(back, merged, given, mixed, asked)
  BY <1>2, BackRole
<1>9. back.step = "fetching"
  BY <1>2, BackJob
<1>. HIDE DEF back, c
<1>10. ~ j.orphan => RoleJob(back, merged', given', mixed', asked')
  BY <1>5, <1>8, <1>9, RoleMore
<1>11. k.step # "torn" /\ (k = Idle \/ RoleJob(k, merged', given', mixed', asked'))
  BY <1>9, <1>10 DEF Idle
<1>. HIDE DEF k
<1>12. RoleMove(r, a, Overtaken(a, r), k, c)
  BY <1>3, <1>4, <1>5, <1>6, <1>7, <1>11 DEF RoleMove
<1>. QED
  BY <1>12, RoleStep

LEMMA FetchRoles ==
    ASSUME RoleInv, NEW r \in Requests, FetchConfigs(r)
    PROVE  RoleInv'
<1>. DEFINE j == job[r]
<1>1. /\ j.step = "fetching" /\ UNCHANGED <<file, merged, ip, given, mixed, asked, earned>>
  BY DEF FetchConfigs, At
<1>2. RoleJob(j, merged, given, mixed, asked) /\ TypedJob(j, merged, asked) /\ IsJob(j)
  BY <1>1, BusyRole
<1>3. PICK a \in Appliances : a = j.on /\ a = On(r)
  BY <1>1, BusyRole
<1>. DEFINE content == file[a]
            ports == DOMAIN content.rows \ {content.ha.dedicated}
            step == IF ports = {} THEN "generating" ELSE "addressing"
            k == [j EXCEPT !.content = content, !.todo = ports, !.step = step]
<1>4. job' = [job EXCEPT ![r] = k]
  BY <1>3 DEF FetchConfigs
<1>5. TypedContent(content)
  BY DEF RoleInv
<1>6. ASSUME a \notin mixed, Dedicated \in ports
      PROVE  AddressOf(content, Dedicated) = Start[a][Dedicated]
  <2>1. content.ha.role = "" /\ Dedicated \in DOMAIN content.rows
    BY <1>5, <1>6 DEF TypedContent, TypedHa
  <2>2. PlainFile(content, a)
    BY <1>6 DEF RoleInv
  <2>. QED
    BY <2>1, <2>2 DEF PlainFile, PlainHa, KeepsLink, AddressOf
<1>7. step \in {"generating", "addressing"}
  OBVIOUS
<1>. HIDE DEF content, ports, step
<1>8. /\ k.step = step /\ k.ha = j.ha /\ k.content = content /\ k.todo = ports /\ k.id = j.id
      /\ k.on = a /\ k.by = j.by /\ k.orphan = j.orphan /\ IsJob(k)
  BY <1>2, <1>3, <1>7 DEF IsJob
<1>. HIDE DEF k
<1>9. TypedJob(k, merged, asked)
  BY <1>2, <1>3, <1>5, <1>7, <1>8 DEF TypedJob, AtHome
<1>10. RoleJob(k, merged, given, mixed, asked)
  BY <1>6, <1>7, <1>8, <1>9 DEF RoleJob, StoresCurrent, RewritesCurrent, KeepsAddress
<1>11. merged' = [b \in Appliances |-> merged'[b]] /\ earned' \subseteq 1..asked
  BY <1>1 DEF RoleInv, RoleShape
<1>. HIDE DEF j
<1>. QED
  BY <1>1, <1>4, <1>7, <1>8, <1>10, <1>11, RoleQuiet DEF j

\* A port gets its address: the dedicated one at most the address it has.
LEMMA PortRole ==
    ASSUME RoleInv, NEW r \in Requests, NEW p \in Ports, job[r].step = "addressing",
           p \in job[r].todo, NEW a \in Appliances, a = job[r].on,
           ip' = [ip EXCEPT ![a][p] = AddressOf(job[r].content, p)]
    PROVE  /\ ip' = [b \in Appliances |-> [q \in Ports |-> ip'[b][q]]]
           /\ \A b \in Appliances \ {a} : ip'[b] = ip[b]
           /\ a \notin mixed => /\ ip'[a][Dedicated] = Start[a][Dedicated]
                                /\ p = Dedicated => ip'[a][p] = Start[a][p]
<1>1. ip = [b \in Appliances |-> [q \in Ports |-> ip[b][q]]]
  BY DEF RoleInv, RoleShape
<1>2. a \notin mixed => ip[a][Dedicated] = Start[a][Dedicated]
  BY DEF RoleInv
<1>3. a \notin mixed /\ p = Dedicated => AddressOf(job[r].content, p) = Start[a][Dedicated]
  BY BusyRole DEF RoleJob, KeepsAddress
<1>. DEFINE v == AddressOf(job[r].content, p)
<1>. HIDE DEF v
<1>4. ip' = [ip EXCEPT ![a] = [ip[a] EXCEPT ![p] = v]]
  BY DEF v
<1>5. /\ \A b \in Appliances : b # a => ip'[b] = ip[b]
      /\ ip'[a] = [q \in Ports |-> IF q = p THEN v ELSE ip[a][q]]
      /\ DOMAIN ip' = Appliances
  BY <1>1, <1>4
<1>6. ASSUME NEW b \in Appliances PROVE ip'[b] = [q \in Ports |-> ip'[b][q]]
  <2>1. CASE b = a
    BY <1>5, <2>1
  <2>2. CASE b # a
    <3>1. ip[b] = [q \in Ports |-> ip[b][q]]
      BY <1>1
    <3>. QED
      BY <1>5, <2>2, <3>1
  <2>. QED
    BY <2>1, <2>2
<1>7. ip' = [b \in Appliances |-> [q \in Ports |-> ip'[b][q]]]
  <2>1. ip' = [b \in Appliances |-> ip'[b]]
    BY <1>1, <1>4
  <2>. QED
    BY <1>6, <2>1
<1>8. Dedicated \in Ports
  BY HaAssumption
<1>9. a \notin mixed => /\ ip'[a][Dedicated] = Start[a][Dedicated]
                        /\ p = Dedicated => ip'[a][p] = Start[a][p]
  BY <1>2, <1>3, <1>5, <1>8 DEF v
<1>. QED
  BY <1>5, <1>7, <1>9

\* The job after a port.
LEMMA AddressedJob ==
    ASSUME RoleInv, NEW r \in Requests, job[r].step = "addressing", NEW p, NEW step,
           step \in {"addressing", "generating"}
    PROVE  LET j == job[r]
               k1 == [j EXCEPT !.todo = @ \ {p}, !.step = step]
               k2 == [j EXCEPT !.todo = @ \ {p}, !.alone = FALSE, !.step = step]
           IN  \A k \in {k1, k2} : k.step = step /\ RoleJob(k, merged, given, mixed, asked)
<1>. DEFINE j == job[r]
            k1 == [j EXCEPT !.todo = @ \ {p}, !.step = step]
            k2 == [j EXCEPT !.todo = @ \ {p}, !.alone = FALSE, !.step = step]
<1>1. RoleJob(j, merged, given, mixed, asked) /\ TypedJob(j, merged, asked) /\ IsJob(j)
  BY BusyRole
<1>2. ASSUME NEW k \in {k1, k2}
      PROVE  /\ k.step = step /\ k.ha = j.ha /\ k.content = j.content /\ k.todo = j.todo \ {p}
             /\ k.id = j.id /\ k.on = j.on /\ k.by = j.by /\ k.orphan = j.orphan /\ IsJob(k)
  BY <1>1 DEF IsJob
<1>. HIDE DEF j, k1, k2
<1>3. ASSUME NEW k \in {k1, k2} PROVE RoleJob(k, merged, given, mixed, asked)
  <2>1. TypedJob(k, merged, asked)
    BY <1>1, <1>2 DEF TypedJob, AtHome
  <2>2. j.step = "addressing"
    BY DEF j
  <2>3. KeepsAddress(k, mixed)
    BY <1>1, <1>2, <2>2 DEF RoleJob, KeepsAddress
  <2>. QED
    BY <1>2, <2>1, <2>3 DEF RoleJob, StoresCurrent, RewritesCurrent
<1>. QED
  BY <1>2, <1>3 DEF j, k1, k2

LEMMA SetIpRoles ==
    ASSUME RoleInv, NEW r \in Requests, NEW p \in Ports, SetIpAfterSyncBackup(r, p)
    PROVE  RoleInv'
<1>. DEFINE j == job[r]
<1>1. j.step = "addressing" /\ UNCHANGED <<merged, asked, given, mixed, earned>> /\ p \in j.todo
  BY DEF SetIpAfterSyncBackup, At
<1>2. IsJob(j) /\ asked \in Nat
  BY <1>1, BusyRole
<1>3. PICK a \in Appliances : a = j.on /\ a = On(r)
  BY <1>1, BusyRole
<1>. DEFINE rows == [q \in DOMAIN file[a].rows \cup {p} |->
                       IF q = p THEN ip'[a][p] ELSE file[a].rows[q]]
            c == [file[a] EXCEPT !.rows = rows]
            step == IF j.todo = {p} THEN "generating" ELSE j.step
            k == [j EXCEPT !.todo = @ \ {p}, !.step = step]
<1>4. /\ ip' = [ip EXCEPT ![a][p] = AddressOf(j.content, p)]
      /\ file' = [file EXCEPT ![a] = c]
      /\ job' = [Overtaken(a, r) EXCEPT ![r].todo = @ \ {p}, ![r].step = IF j.todo = {p} THEN "generating" ELSE @]
  BY <1>3 DEF SetIpAfterSyncBackup
<1>5. job' = [Overtaken(a, r) EXCEPT ![r] = k]
  <2>1. Overtaken(a, r)[r] = j
    BY OvertakenRoles
  <2>. QED
    BY <1>4, <2>1
<1>6. /\ ip' = [b \in Appliances |-> [q \in Ports |-> ip'[b][q]]]
      /\ \A b \in Appliances \ {a} : ip'[b] = ip[b]
      /\ a \notin mixed => /\ ip'[a][Dedicated] = Start[a][Dedicated]
                           /\ p = Dedicated => ip'[a][p] = Start[a][p]
  BY <1>1, <1>3, <1>4, PortRole
<1>7. TypedContent(file[a])
  BY DEF RoleInv
<1>8. DOMAIN rows = DOMAIN file[a].rows \cup {p} /\ rows[p] = ip'[a][p]
      /\ \A q \in DOMAIN file[a].rows : q # p => rows[q] = file[a].rows[q]
  OBVIOUS
<1>9. step \in {"addressing", "generating"}
  BY <1>1
<1>10. k.step = step /\ RoleJob(k, merged, given, mixed, asked)
  BY <1>1, <1>9, AddressedJob
<1>. HIDE DEF rows, step, k
<1>11. c.ha = file[a].ha /\ c.rows = rows /\ DOMAIN c = {"ha", "rows"}
  BY <1>7 DEF TypedContent
<1>. HIDE DEF c
<1>12. TypedContent(c)
  BY <1>7, <1>8, <1>11 DEF TypedContent
<1>13. ASSUME a \notin mixed PROVE PlainFile(c, a)
  <2>1. PlainFile(file[a], a)
    BY <1>13 DEF RoleInv
  <2>. QED
    BY <1>6, <1>8, <1>11, <1>13, <2>1 DEF PlainFile, KeepsLink
<1>14. ASSUME a \notin mixed PROVE Torn(a)' \/ Whole(c, a, given')
  <2>1. Torn(a)' <=> Torn(a)
    <3>1. job'[r] = k
      BY <1>5, OvertakenRoles
    <3>2. \A s \in Requests : s # r =>
              job'[s].step = job[s].step /\ (job'[s] # Idle => job'[s].on = job[s].on)
      BY <1>5, OthersStay
    <3>. QED
      BY <1>1, <1>9, <1>10, <3>1, <3>2, TornKept
  <2>2. Torn(a) \/ Whole(file[a], a, given)
    BY <1>14 DEF RoleInv
  <2>. QED
    BY <1>1, <1>8, <1>11, <2>1, <2>2 DEF Whole
<1>15. /\ merged' = [b \in Appliances |-> merged'[b]] /\ given' = [b \in Appliances |-> given'[b]]
       /\ earned' \subseteq 1..asked /\ mixed' \subseteq Appliances /\ mixed \subseteq mixed'
       /\ asked' = asked
       /\ \A b \in Appliances : given'[b] = given[b] /\ merged'[b] = merged[b]
  BY <1>1 DEF RoleInv, RoleShape
<1>16. k = Idle \/ RoleJob(k, merged', given', mixed', asked')
  BY <1>1, <1>10
<1>17. a \notin mixed' => PlainFile(c, a) /\ ip'[a][Dedicated] = Start[a][Dedicated]
  BY <1>1, <1>6, <1>13
<1>18. a \notin mixed' => Torn(a)' \/ Whole(c, a, given')
  BY <1>1, <1>14
<1>19. RoleMove(r, a, Overtaken(a, r), k, c)
  BY <1>1, <1>4, <1>5, <1>6, <1>9, <1>10, <1>12, <1>15, <1>16, <1>17, <1>18 DEF RoleMove
<1>. QED
  BY <1>19, RoleStep

LEMMA GenerateRoles ==
    ASSUME RoleInv, NEW r \in Requests, CreateHaConfig(r) \/ WriteHa(r)
    PROVE  RoleInv'
<1>. DEFINE j == job[r]
<1>1. j.step \in {"generating", "writing"} /\ UNCHANGED <<file, merged, ip, asked, given, mixed>>
  BY DEF CreateHaConfig, WriteHa, At
<1>2. RoleJob(j, merged, given, mixed, asked) /\ TypedJob(j, merged, asked) /\ IsJob(j)
  BY <1>1, BusyRole
<1>3. PICK a \in Appliances : a = j.on /\ a = On(r)
  BY <1>1, BusyRole
<1>4. /\ merged' = [b \in Appliances |-> merged'[b]]
      /\ \A b \in Appliances : merged'[b] = merged[b]
  BY <1>1 DEF RoleInv, RoleShape
<1>5. earned' \subseteq 1..asked
  BY <1>2 DEF RoleInv, RoleShape, TypedJob, CreateHaConfig, WriteHa
<1>6. CASE CreateHaConfig(r)
  <2>. DEFINE content == file[a]
              next == [j EXCEPT !.step = "writing", !.content = content]
              k == IF content.ha.dedicated = None THEN Idle ELSE next
  <2>1. job' = [job EXCEPT ![r] = k]
    BY <1>3, <1>6 DEF CreateHaConfig
  <2>2. TypedContent(content)
    BY DEF RoleInv
  <2>. HIDE DEF content
  <2>3. /\ next.step = "writing" /\ next.ha = j.ha /\ next.content = content /\ next.id = j.id
        /\ next.on = j.on /\ next.by = j.by /\ next.orphan = j.orphan /\ IsJob(next)
    BY <1>2 DEF IsJob
  <2>. HIDE DEF next
  <2>4. RoleJob(next, merged, given, mixed, asked)
    BY <1>2, <2>2, <2>3, RoleCarried DEF TypedJob, AtHome
  <2>5. k.step # "torn" /\ (k = Idle \/ RoleJob(k, merged', given, mixed, asked))
    BY <1>1, <2>3, <2>4 DEF Idle
  <2>. HIDE DEF j, k
  <2>. QED
    BY <1>1, <1>4, <1>5, <2>1, <2>5, RoleQuiet DEF j
<1>7. CASE WriteHa(r)
  <2>. DEFINE back == Back(j, "stamping", j.by)
              k == IF j.op = "sync" /\ ~ j.orphan THEN back ELSE Idle
  <2>1. job' = [job EXCEPT ![r] = k]
    BY <1>7 DEF WriteHa, Return
  <2>2. ~ j.orphan => RoleJob(back, merged, given, mixed, asked)
    BY <1>2, BackRole DEF IsJob
  <2>3. back.step = "stamping"
    BY <1>2, BackJob DEF IsJob
  <2>. HIDE DEF back
  <2>4. k.step # "torn" /\ (k = Idle \/ RoleJob(k, merged', given, mixed, asked))
    BY <1>1, <2>2, <2>3 DEF Idle
  <2>. HIDE DEF j, k
  <2>. QED
    BY <1>1, <1>4, <1>5, <2>1, <2>4, RoleQuiet DEF j
<1>. QED
  BY <1>6, <1>7

\* The HA section is read to be stamped: it is current if the file is whole.
LEMMA StampRoles ==
    ASSUME RoleInv, NEW r \in Requests, StampOwn(r) \/ UpdateLastSyncedAt(r)
    PROVE  RoleInv'
<1>. DEFINE j == job[r]
<1>1. /\ j.step \in {"stamping", "telling"}
      /\ UNCHANGED <<file, merged, ip, asked, given, mixed, earned>>
  BY DEF StampOwn, UpdateLastSyncedAt, Stamp, At
<1>2. RoleJob(j, merged, given, mixed, asked) /\ TypedJob(j, merged, asked) /\ IsJob(j)
      /\ j.on \in Appliances /\ j.on = On(r)
  BY <1>1, BusyRole
<1>3. j.on = j.by /\ ~ j.orphan
  BY <1>1, <1>2 DEF TypedJob, AtHome
<1>4. /\ merged' = [b \in Appliances |-> merged'[b]] /\ earned' \subseteq 1..asked
      /\ \A b \in Appliances : merged'[b] = merged[b]
  BY <1>1 DEF RoleInv, RoleShape
<1>5. ASSUME NEW a \in Appliances, NEW op, (op = "sync" /\ a = j.by) \/ op = "tell",
             Stamp(r, a, op)
      PROVE  RoleInv'
  <2>. DEFINE torn == Torn(a)
              content == file[a]
              ha == [content.ha EXCEPT !.synced = j.id]
              k == [j EXCEPT !.step = "storing", !.on = a, !.op = op, !.stale = torn, !.ha = ha]
  <2>1. job' = [job EXCEPT ![r] = k]
    BY <1>5 DEF Stamp
  <2>2. TypedContent(content)
    BY DEF RoleInv
  <2>3. TypedHa(ha) /\ ha.role = content.ha.role /\ ha.monitored = content.ha.monitored
    BY <2>2 DEF TypedContent, TypedHa, IsHa
  <2>4. ASSUME a \notin mixed, ~ torn PROVE PlainHa(ha) /\ ha.role = given[a]
    BY <2>3, <2>4 DEF RoleInv, Whole, PlainFile, PlainHa
  <2>. HIDE DEF torn, ha, content
  <2>5. /\ k.step = "storing" /\ k.op = op /\ k.id = j.id /\ k.ha = ha /\ k.content = j.content
        /\ k.on = a /\ k.by = j.by /\ k.orphan = j.orphan /\ IsJob(k)
    BY <1>2, <1>5 DEF IsJob
  <2>6. torn => k.stale
    BY <1>2 DEF IsJob
  <2>. HIDE DEF k
  <2>7. TypedJob(k, merged, asked)
    BY <1>2, <1>3, <1>5, <2>3, <2>5 DEF TypedJob, AtHome
  <2>8. StoresCurrent(k, given, mixed)
    BY <1>5, <2>4, <2>5, <2>6 DEF StoresCurrent, Clean, Ops
  <2>9. RoleJob(k, merged, given, mixed, asked)
    BY <2>5, <2>7, <2>8 DEF RoleJob, RewritesCurrent, KeepsAddress
  <2>. HIDE DEF j
  <2>. QED
    BY <1>1, <1>4, <2>1, <2>5, <2>9, RoleQuiet DEF j
<1>6. PeerOf(j.on) \in Appliances
  BY <1>2, PeerOfPeer
<1>. QED
  BY <1>2, <1>3, <1>5, <1>6 DEF StampOwn, UpdateLastSyncedAt

LEMMA ServeRoles ==
    ASSUME RoleInv, NEW r \in Requests, Serve(r)
    PROVE  RoleInv'
BY UpdateConfigRoles, SyncRoles, SyncBackupRoles, WriteFileRoles, FetchRoles, SetIpRoles,
   GenerateRoles, StampRoles DEF Serve

-----------------------------------------------------------------------------
(* Requests of an operator, and failures.                                  *)

LEMMA BeginRoles ==
    ASSUME RoleInv, NEW r \in Requests, NEW a \in Appliances, NEW op, NEW step, NEW ha,
           TypedHa(ha), PlainHa(ha), step = "comparing" \/ (step = "storing" /\ op \in {"create", "disable"}),
           Begin(r, a, op, step, ha)
    PROVE  RoleInv'
<1>. DEFINE alone == InFlight = {}
            k == [op |-> op, step |-> step, by |-> a, on |-> a, ha |-> ha,
                  content |-> EmptyContent, todo |-> {}, id |-> asked + 1,
                  orphan |-> FALSE, stale |-> FALSE, alone |-> alone]
<1>1. /\ UNCHANGED <<file, merged, ip, given, mixed, earned>> /\ asked' = asked + 1
      /\ job[r].step = "idle"
      /\ job' = [s \in Requests |->
                 IF s = r THEN k
                 ELSE IF s \in InFlight THEN [job[s] EXCEPT !.alone = FALSE] ELSE job[s]]
  BY DEF Begin, At
<1>2. asked \in Nat /\ earned \subseteq 1..asked
  BY DEF RoleInv, RoleShape
<1>3. RoleJob(k, merged, given, mixed, asked + 1) /\ k.step = step
  <2>1. /\ k.op = op /\ k.step = step /\ k.by = a /\ k.on = a /\ k.ha = ha
        /\ k.content = EmptyContent /\ k.id = asked + 1 /\ ~ k.orphan
        /\ DOMAIN k = {"op", "step", "by", "on", "ha", "content", "todo", "id", "orphan",
                       "stale", "alone"}
    OBVIOUS
  <2>. HIDE DEF k
  <2>2. TypedJob(k, merged, asked + 1)
    BY <1>2, <2>1, TypedConstants DEF TypedJob, AtHome, IsJob
  <2>. QED
    BY <2>1, <2>2 DEF RoleJob, StoresCurrent, RewritesCurrent, KeepsAddress, Ops
<1>. HIDE DEF k
<1>4. ASSUME NEW s \in Requests
      PROVE  /\ job'[s] = Idle \/ RoleJob(job'[s], merged, given, mixed, asked + 1)
             /\ s # r => job'[s].step = job[s].step /\ (job'[s] # Idle => job'[s].on = job[s].on)
  <2>1. CASE s = r
    BY <1>1, <1>3, <2>1
  <2>2. CASE s # r /\ s \in InFlight
    <3>. DEFINE j == job[s]
                n == [j EXCEPT !.alone = FALSE]
    <3>1. RoleJob(j, merged, given, mixed, asked) /\ IsJob(j)
      BY <2>2, BusyRole DEF InFlight
    <3>2. n.step = j.step /\ n.on = j.on
      BY <3>1 DEF IsJob
    <3>3. RoleJob(n, merged, given, mixed, asked)
      BY <3>1, RoleMarked
    <3>4. job'[s] = n
      BY <1>1, <2>2
    <3>. HIDE DEF j, n
    <3>5. RoleJob(n, merged, given, mixed, asked + 1)
      BY <1>2, <3>3, RoleMore
    <3>. QED
      BY <2>2, <3>2, <3>4, <3>5 DEF j
  <2>3. CASE s # r /\ s \notin InFlight
    <3>1. job'[s] = job[s] /\ job[s].step = "idle"
      BY <1>1, <2>3 DEF InFlight
    <3>2. job[s] = Idle
      BY <3>1 DEF RoleInv, RoleJob, TypedJob, IsJob
    <3>. QED
      BY <2>3, <3>1, <3>2
  <2>. QED
    BY <2>1, <2>2, <2>3
<1>5. ASSUME NEW b \in Appliances PROVE Torn(b)' <=> Torn(b)
  <2>1. job'[r].step # "torn"
    BY <1>1, <1>3
  <2>. QED
    BY <1>1, <1>4, <2>1, TornKept
<1>6. job' = [s \in Requests |-> job'[s]]
  BY <1>1
<1>7. RoleShape'
  BY <1>1, <1>2, <1>6 DEF RoleInv, RoleShape
<1>8. \A b \in Appliances : TypedContent(file'[b])
  BY <1>1 DEF RoleInv
<1>9. \A b \in Appliances : b \notin mixed' =>
          PlainFile(file'[b], b) /\ ip'[b][Dedicated] = Start[b][Dedicated]
  BY <1>1 DEF RoleInv
<1>10. \A b \in Appliances : b \notin mixed' => Torn(b)' \/ Whole(file'[b], b, given')
  BY <1>1, <1>5 DEF RoleInv
<1>11. \A s \in Requests : job'[s] = Idle \/ RoleJob(job'[s], merged', given', mixed', asked')
  BY <1>1, <1>4
<1>. QED
  BY <1>7, <1>8, <1>9, <1>10, <1>11 DEF RoleInv

LEMMA AskRoles ==
    ASSUME RoleInv, NEW r \in Requests, Ask(r)
    PROVE  RoleInv'
<1>1. ASSUME NEW a \in Appliances, NEW role \in {"primary", "backup"}, NEW chosen,
             AskToCreate(r, a, role, chosen)
      PROVE  RoleInv'
  <2>. DEFINE monitored == IF role = "backup" THEN <<>>
                           ELSE [p \in DOMAIN chosen |-> [base |-> chosen[p], virtual |-> ip[a][p]]]
              ha == [role |-> role, dedicated |-> Dedicated, synced |-> file[a].ha.synced,
                     monitored |-> monitored]
  <2>1. TypedHa(ha) /\ PlainHa(ha)
    <3>. HIDE DEF monitored
    <3>. QED
      BY DEF TypedHa, PlainHa, IsHa, Roles
  <2>2. Begin(r, a, "create", "storing", ha)
    BY <1>1 DEF AskToCreate
  <2>. HIDE DEF ha
  <2>. QED
    BY <2>1, <2>2, BeginRoles
<1>2. ASSUME NEW a \in Appliances, AskToDisable(r, a) \/ AskToSync(r, a)
      PROVE  RoleInv'
  BY <1>2, BeginRoles, TypedConstants DEF AskToDisable, AskToSync
<1>. QED
  BY <1>1, <1>2 DEF Ask

LEMMA FailRoles ==
    ASSUME RoleInv, NEW r \in Requests, Fail(r)
    PROVE  RoleInv'
<1>. DEFINE j == job[r]
            on == [j EXCEPT !.step = "generating", !.todo = {}, !.alone = FALSE]
            k == IF j.op = "local" /\ At(r, "addressing") THEN on ELSE Idle
<1>1. /\ j.step \notin {"idle", "torn"} /\ UNCHANGED <<file, merged, ip, given, mixed, asked, earned>>
      /\ job' = [job EXCEPT ![r] = k]
  BY DEF Fail, Unlucky, InFlight, At
<1>2. RoleJob(j, merged, given, mixed, asked) /\ TypedJob(j, merged, asked) /\ IsJob(j)
  BY <1>1, BusyRole
<1>3. /\ on.step = "generating" /\ on.ha = j.ha /\ on.content = j.content /\ on.id = j.id
      /\ on.on = j.on /\ on.by = j.by /\ on.orphan = j.orphan /\ IsJob(on)
  BY <1>2 DEF IsJob
<1>. HIDE DEF on
<1>4. RoleJob(on, merged, given, mixed, asked)
  BY <1>2, <1>3, RoleCarried DEF TypedJob, AtHome
<1>5. k.step # "torn" /\ (k = Idle \/ RoleJob(k, merged', given, mixed, asked))
  BY <1>1, <1>3, <1>4 DEF Idle
<1>6. /\ merged' = [b \in Appliances |-> merged'[b]] /\ earned' \subseteq 1..asked
      /\ \A b \in Appliances : merged'[b] = merged[b]
  BY <1>1 DEF RoleInv, RoleShape
<1>. HIDE DEF j, k
<1>. QED
  BY <1>1, <1>5, <1>6, RoleQuiet DEF j

LEMMA LoseAnswerRoles ==
    ASSUME RoleInv, NEW r \in Requests, LoseAnswer(r)
    PROVE  RoleInv'
<1>. DEFINE j == job[r]
            k == [j EXCEPT !.orphan = TRUE]
<1>1. /\ j.step # "idle" /\ On(r) # j.by /\ job' = [job EXCEPT ![r] = k]
      /\ UNCHANGED <<file, merged, ip, given, mixed, asked, earned>>
  BY DEF LoseAnswer, Unlucky, InFlight
<1>2. RoleJob(j, merged, given, mixed, asked) /\ IsJob(j) /\ On(r) = j.on
  BY <1>1, BusyRole
<1>3. PICK a \in Appliances : a = j.on
  BY <1>2 DEF IsJob
<1>4. RoleJob(k, merged, given, mixed, asked)
  BY <1>1, <1>2, RoleMarked
<1>5. k.step = j.step /\ k.on = j.on
  BY <1>2 DEF IsJob
<1>. HIDE DEF k
<1>6. /\ job'[r] = k
      /\ \A s \in Requests : s # r =>
            job'[s].step = job[s].step /\ (job'[s] # Idle => job'[s].on = job[s].on)
  BY <1>1 DEF RoleInv, RoleShape
<1>7. ASSUME NEW b \in Appliances PROVE Torn(b)' <=> Torn(b)
  BY <1>5, <1>6, TornKept
<1>8. RoleShape'
  BY <1>1 DEF RoleInv, RoleShape
<1>9. \A s \in Requests : job'[s] = Idle \/ RoleJob(job'[s], merged', given', mixed', asked')
  BY <1>1, <1>4 DEF RoleInv, RoleShape
<1>10. \A b \in Appliances : TypedContent(file'[b])
  BY <1>1 DEF RoleInv
<1>11. \A b \in Appliances : b \notin mixed' =>
          PlainFile(file'[b], b) /\ ip'[b][Dedicated] = Start[b][Dedicated]
  BY <1>1 DEF RoleInv
<1>12. \A b \in Appliances : b \notin mixed' => Torn(b)' \/ Whole(file'[b], b, given')
  BY <1>1, <1>7 DEF RoleInv
<1>. QED
  BY <1>8, <1>9, <1>10, <1>11, <1>12 DEF RoleInv

LEMMA UnsavedRoles ==
    ASSUME RoleInv, NEW r \in Requests, NEW p \in Ports, SetIpUnsaved(r, p)
    PROVE  RoleInv'
<1>. DEFINE j == job[r]
<1>1. /\ j.step = "addressing" /\ p \in j.todo
      /\ UNCHANGED <<file, merged, asked, given, mixed, earned>>
  BY DEF SetIpUnsaved, Unlucky, At
<1>2. PICK a \in Appliances : a = j.on /\ a = On(r)
  BY <1>1, BusyRole
<1>. DEFINE step == IF j.todo = {p} THEN "generating" ELSE j.step
            k == [j EXCEPT !.todo = @ \ {p}, !.alone = FALSE, !.step = step]
            c == file[a]
<1>3. ip' = [ip EXCEPT ![a][p] = AddressOf(j.content, p)] /\ job' = [job EXCEPT ![r] = k]
  BY <1>2 DEF SetIpUnsaved
<1>4. /\ ip' = [b \in Appliances |-> [q \in Ports |-> ip'[b][q]]]
      /\ \A b \in Appliances \ {a} : ip'[b] = ip[b]
      /\ a \notin mixed => ip'[a][Dedicated] = Start[a][Dedicated]
  BY <1>1, <1>2, <1>3, PortRole
<1>5. step \in {"addressing", "generating"}
  BY <1>1
<1>6. k.step = step /\ RoleJob(k, merged, given, mixed, asked)
  BY <1>1, <1>5, AddressedJob
<1>. HIDE DEF step, k
<1>7. Torn(a)' <=> Torn(a)
  <2>1. job'[r] = k
    BY <1>3 DEF RoleInv, RoleShape
  <2>2. \A s \in Requests : s # r =>
            job'[s].step = job[s].step /\ (job'[s] # Idle => job'[s].on = job[s].on)
    BY <1>3 DEF RoleInv, RoleShape
  <2>. QED
    BY <1>1, <1>5, <1>6, <2>1, <2>2, TornKept
<1>8. /\ file' = [file EXCEPT ![a] = c] /\ TypedContent(c)
      /\ a \notin mixed => PlainFile(c, a) /\ (Torn(a) \/ Whole(c, a, given))
  BY <1>1 DEF RoleInv, RoleShape
<1>9. /\ merged' = [b \in Appliances |-> merged'[b]] /\ given' = [b \in Appliances |-> given'[b]]
      /\ earned' \subseteq 1..asked /\ mixed' \subseteq Appliances /\ mixed \subseteq mixed'
      /\ asked' = asked
      /\ \A b \in Appliances : given'[b] = given[b] /\ merged'[b] = merged[b]
  BY <1>1 DEF RoleInv, RoleShape
<1>10. k = Idle \/ RoleJob(k, merged', given', mixed', asked')
  BY <1>1, <1>6
<1>. HIDE DEF c
<1>11. /\ a \notin mixed' => PlainFile(c, a) /\ ip'[a][Dedicated] = Start[a][Dedicated]
       /\ a \notin mixed' => Torn(a)' \/ Whole(c, a, given')
  BY <1>1, <1>4, <1>7, <1>8
<1>12. RoleMove(r, a, job, k, c)
  BY <1>1, <1>3, <1>4, <1>5, <1>6, <1>8, <1>9, <1>10, <1>11 DEF RoleMove
<1>. QED
  BY <1>12, RoleStep

\* A stop leaves the rows the kernel has; what was being rewritten is mixed.
LEMMA StopRoles ==
    ASSUME RoleInv, NEW a \in Appliances, Restart(a) \/ Reboot(a)
    PROVE  RoleInv'
<1>. DEFINE rows == ip'[a]
            c == [file[a] EXCEPT !.rows = rows]
<1>1. /\ file' = [file EXCEPT ![a] = c] /\ UNCHANGED <<merged, asked, given, earned>>
      /\ job' = [r \in Requests |->
                 CASE r \in InFlight /\ On(r) = a -> Idle
                   [] r \in InFlight /\ On(r) # a /\ job[r].by = a -> [job[r] EXCEPT !.orphan = TRUE]
                   [] OTHER -> job[r]]
      /\ mixed' = IF Torn(a) THEN mixed \cup {a} ELSE mixed
  BY DEF Restart, Reboot, Stop, Unlucky
<1>2. asked \in Nat /\ mixed \subseteq mixed' /\ mixed' \subseteq Appliances
  BY <1>1 DEF RoleInv, RoleShape
<1>3. TypedContent(file[a])
  BY DEF RoleInv
<1>4. /\ ip' = [b \in Appliances |-> [q \in Ports |-> ip'[b][q]]]
      /\ \A b \in Appliances : b # a => ip'[b] = ip[b]
      /\ rows = [q \in Ports |-> rows[q]]
  <2>1. ip = [b \in Appliances |-> [q \in Ports |-> ip[b][q]]]
    BY DEF RoleInv, RoleShape
  <2>2. CASE UNCHANGED ip
    BY <2>1, <2>2
  <2>3. CASE Reboot(a)
    <3>. DEFINE new == [p \in Ports |-> IF p \in DOMAIN file[a].rows THEN file[a].rows[p] ELSE None]
    <3>1. ip' = [ip EXCEPT ![a] = new]
      BY <2>3 DEF Reboot
    <3>2. new = [q \in Ports |-> new[q]]
      OBVIOUS
    <3>. HIDE DEF new
    <3>3. ip' = [b \in Appliances |-> IF b = a THEN new ELSE ip[b]]
      BY <2>1, <3>1
    <3>4. ASSUME NEW b \in Appliances PROVE ip'[b] = [q \in Ports |-> ip'[b][q]]
      <4>1. CASE b = a
        BY <3>2, <3>3, <4>1
      <4>2. CASE b # a
        <5>1. ip[b] = [q \in Ports |-> ip[b][q]]
          BY <2>1
        <5>. QED
          BY <3>3, <4>2, <5>1
      <4>. QED
        BY <4>1, <4>2
    <3>. QED
      BY <3>2, <3>3, <3>4
  <2>. QED
    BY <2>2, <2>3 DEF Restart
<1>5. ASSUME a \notin mixed'
      PROVE  Whole(file[a], a, given) /\ PlainFile(file[a], a) /\ rows[Dedicated] = Start[a][Dedicated]
  <2>1. a \notin mixed /\ ~ Torn(a)
    BY <1>1, <1>5
  <2>2. /\ Whole(file[a], a, given) /\ PlainFile(file[a], a)
        /\ ip[a][Dedicated] = Start[a][Dedicated]
    BY <2>1 DEF RoleInv
  <2>3. Dedicated \in Ports
    BY HaAssumption
  <2>4. CASE Restart(a)
    BY <2>2, <2>4 DEF Restart
  <2>5. CASE Reboot(a)
    <3>1. ip'[a][Dedicated] = file[a].rows[Dedicated]
      <4>1. Dedicated \in DOMAIN file[a].rows
        BY <2>2, <2>3 DEF Whole
      <4>2. ip = [b \in Appliances |-> ip[b]]
        BY DEF RoleInv, RoleShape
      <4>. QED
        BY <2>3, <2>5, <4>1, <4>2 DEF Reboot
    <3>. QED
      BY <2>2, <2>3, <3>1 DEF Whole, PlainFile, KeepsLink
  <2>. QED
    BY <2>2, <2>4, <2>5
<1>. HIDE DEF rows
<1>6. c.ha = file[a].ha /\ c.rows = rows /\ DOMAIN c = {"ha", "rows"} /\ DOMAIN rows = Ports
  BY <1>3, <1>4 DEF TypedContent
<1>. HIDE DEF c
<1>7. TypedContent(c)
  BY <1>3, <1>6 DEF TypedContent
<1>8. a \notin mixed' => PlainFile(c, a) /\ Whole(c, a, given') /\ ip'[a][Dedicated] = Start[a][Dedicated]
  BY <1>1, <1>5, <1>6 DEF PlainFile, KeepsLink, Whole, rows
<1>9. ASSUME NEW r \in Requests
      PROVE  /\ job'[r] = Idle \/ RoleJob(job'[r], merged, given, mixed', asked)
             /\ \A b \in Appliances : b # a =>
                   ((job'[r].step = "torn" /\ job'[r].on = b) <=> (job[r].step = "torn" /\ job[r].on = b))
  <2>. DEFINE j == job[r]
              k == [j EXCEPT !.orphan = TRUE]
  <2>1. CASE r \in InFlight
    <3>1. RoleJob(j, merged, given, mixed, asked) /\ IsJob(j) /\ On(r) = j.on
      BY <2>1, BusyRole DEF InFlight
    <3>2. RoleJob(j, merged, given, mixed', asked)
      BY <1>2, <3>1, RoleMore
    <3>3. k.step = j.step /\ k.on = j.on
      BY <3>1 DEF IsJob
    <3>4. j.on # j.by => RoleJob(k, merged, given, mixed', asked)
      BY <3>2, RoleMarked
    <3>5. \/ j.on = a /\ job'[r] = Idle
          \/ j.on # a /\ j.by = a /\ job'[r] = k
          \/ j.on # a /\ j.by # a /\ job'[r] = j
      <4>1. CASE j.on = a
        BY <1>1, <2>1, <3>1, <4>1
      <4>2. CASE j.on # a /\ j.by = a
        BY <1>1, <2>1, <3>1, <4>2
      <4>3. CASE j.on # a /\ j.by # a
        BY <1>1, <2>1, <3>1, <4>3
      <4>. QED
        BY <4>1, <4>2, <4>3
    <3>. HIDE DEF j, k
    <3>6. Idle.step # "torn"
      BY DEF Idle
    <3>. QED
      BY <3>2, <3>3, <3>4, <3>5, <3>6 DEF j
  <2>2. CASE r \notin InFlight
    <3>1. job'[r] = job[r] /\ job[r].step = "idle"
      BY <1>1, <2>2 DEF InFlight
    <3>2. job[r] = Idle
      BY <3>1 DEF RoleInv, RoleJob, TypedJob, IsJob
    <3>. QED
      BY <3>1, <3>2
  <2>. QED
    BY <2>1, <2>2
<1>10. /\ job' = [r \in Requests |-> job'[r]] /\ file' = [b \in Appliances |-> file'[b]]
       /\ file'[a] = c /\ \A b \in Appliances : b # a => file'[b] = file[b]
  BY <1>1 DEF RoleInv, RoleShape
<1>11. ASSUME NEW b \in Appliances, b # a PROVE Torn(b)' <=> Torn(b)
  BY <1>9, <1>11 DEF Torn, At, On
<1>12. RoleShape'
  BY <1>1, <1>2, <1>4, <1>10 DEF RoleInv, RoleShape
<1>13. \A b \in Appliances : TypedContent(file'[b])
  BY <1>7, <1>10 DEF RoleInv
<1>14. ASSUME NEW b \in Appliances, b \notin mixed'
       PROVE  /\ PlainFile(file'[b], b) /\ ip'[b][Dedicated] = Start[b][Dedicated]
              /\ Torn(b)' \/ Whole(file'[b], b, given')
  <2>1. CASE b = a
    BY <1>8, <1>10, <1>14, <2>1
  <2>2. CASE b # a
    <3>1. file'[b] = file[b] /\ ip'[b] = ip[b] /\ b \notin mixed
      BY <1>2, <1>4, <1>10, <1>14, <2>2
    <3>. QED
      BY <1>1, <1>11, <2>2, <3>1 DEF RoleInv
  <2>. QED
    BY <2>1, <2>2
<1>15. \A r \in Requests : job'[r] = Idle \/ RoleJob(job'[r], merged', given', mixed', asked')
  BY <1>1, <1>9
<1>. QED
  BY <1>12, <1>13, <1>14, <1>15 DEF RoleInv

-----------------------------------------------------------------------------
LEMMA RoleInit == HaInit => RoleInv
<1>. SUFFICES ASSUME HaInit PROVE RoleInv
  OBVIOUS
<1>1. /\ merged = [x \in Appliances |-> None] /\ job = [r \in Requests |-> Idle] /\ ip = Start
      /\ asked = 0 /\ mixed = {} /\ earned = {} /\ given = [x \in Appliances |-> file[x].ha.role]
  BY DEF HaInit
<1>2. PICK set \in Configured, b \in Appliances, chosen \in Choices : file = StartFiles(set, b, chosen)
  BY DEF HaInit
<1>3. \A x \in Appliances : /\ DOMAIN file[x] = {"ha", "rows"} /\ file[x].rows = Start[x]
                            /\ file[x].ha = NoHa \/ file[x].ha = Unsynced(b, chosen, x)
  BY <1>2 DEF StartFiles
<1>4. ASSUME NEW x PROVE TypedHa(Unsynced(b, chosen, x)) /\ PlainHa(Unsynced(b, chosen, x))
  BY DEF TypedHa, PlainHa, IsHa, Roles, Unsynced
<1>5. ASSUME NEW x \in Appliances PROVE DOMAIN Start[x] = Ports
  BY HaAssumption
<1>6. ASSUME NEW x \in Appliances
      PROVE  TypedContent(file[x]) /\ PlainFile(file[x], x) /\ Whole(file[x], x, given)
  <2>1. TypedHa(file[x].ha) /\ PlainHa(file[x].ha)
    BY <1>3, <1>4, TypedConstants
  <2>2. given[x] = file[x].ha.role
    BY <1>1
  <2>. QED
    BY <1>3, <1>5, <2>1, <2>2 DEF TypedContent, PlainFile, KeepsLink, Whole
<1>7. file = [x \in Appliances |-> file[x]]
  BY <1>2 DEF StartFiles
<1>8. RoleShape
  BY <1>1, <1>7, HaAssumption DEF RoleShape
<1>. QED
  BY <1>1, <1>6, <1>8 DEF RoleInv

LEMMA RoleNext == RoleInv /\ [HaNext]_haVars => RoleInv'
<1>. SUFFICES ASSUME RoleInv, [HaNext]_haVars PROVE RoleInv'
  OBVIOUS
<1>1. CASE \E r \in Requests : Ask(r) \/ Serve(r) \/ Fail(r) \/ LoseAnswer(r)
                              \/ \E p \in Ports : SetIpUnsaved(r, p)
  BY <1>1, AskRoles, ServeRoles, FailRoles, LoseAnswerRoles, UnsavedRoles
<1>2. CASE \E a \in Appliances : Restart(a) \/ Reboot(a)
  BY <1>2, StopRoles
<1>3. CASE UNCHANGED haVars
  BY <1>3 DEF haVars, RoleInv, RoleShape, Torn, At, On
<1>. QED
  BY <1>1, <1>2, <1>3 DEF HaNext

(* The files of the pair keep their form: rows of ports only, and of all of  *)
(* them once a file is whole, a dedicated port wherever there is a role, and *)
(* no request waits for an answer of the appliance it was made on.           *)
THEOREM HaTypeCorrect == HaSpec => []HaTypeOK
<1>1. RoleInv => HaTypeOK
  <2>. SUFFICES ASSUME RoleInv PROVE HaTypeOK
    OBVIOUS
  <2>1. \A a \in Appliances :
          /\ DOMAIN file[a].rows \subseteq Ports
          /\ file[a].ha.role \in {"", "primary", "backup"}
          /\ DOMAIN file[a].rows = Ports \/ Torn(a) \/ a \in mixed
          /\ file[a].ha.role = "" \/ file[a].ha.dedicated = Dedicated
    BY DEF RoleInv, TypedContent, TypedHa, Whole, Roles
  <2>2. \A r \in InFlight : job[r].orphan => On(r) # job[r].by
    BY BusyRole DEF InFlight, TypedJob
  <2>. QED
    BY <2>1, <2>2 DEF RoleInv, RoleShape, HaTypeOK
<1>. QED
  BY <1>1, RoleInit, RoleNext, PTL DEF HaSpec

(* No sync, in whatever order the requests of both appliances and their      *)
(* failures, stops and restarts come, gives an appliance the role of its     *)
(* peer or another address of the dedicated port, unless a request wrote     *)
(* what it had read before another write, a stop cut the rewriting of the    *)
(* file, or the file was merged when HA had been disabled.                   *)
THEOREM RolesAreGiven == HaSpec => []RoleIsGiven
<1>1. RoleInv => RoleIsGiven
  <2>. SUFFICES ASSUME RoleInv PROVE RoleIsGiven
    OBVIOUS
  <2>1. ASSUME NEW a \in Appliances, ~ Torn(a), a \notin mixed
        PROVE  file[a].ha.role = given[a] /\ file[a].rows[Dedicated] = Start[a][Dedicated]
    BY <2>1, HaAssumption DEF RoleInv, Whole, PlainFile, KeepsLink
  <2>. QED
    BY <2>1 DEF RoleIsGiven
<1>. QED
  BY <1>1, RoleInit, RoleNext, PTL DEF HaSpec

-----------------------------------------------------------------------------
(* A sync that meets no other request.  What the pair has in common grows    *)
(* step by step: first what the peer has taken over, then the times, then    *)
(* what the primary has set.                                                 *)

SyncOps == {"sync", "tell", "local"}

Shared == Ports \ {Dedicated}

\* The peer b has the section of a.
Handed(a, b) ==
    /\ file[b].ha.role = "backup" /\ file[b].ha.monitored = file[a].ha.monitored
    /\ DOMAIN file[b].rows = Ports

\* The port of the peer has its address.
TakenOver(a, b, p) ==
    /\ file[b].rows[p] = ip[b][p]
    /\ ip[b][p] = IF p \in DOMAIN file[a].ha.monitored THEN "peer" ELSE file[a].rows[p]

\* The peer moves the virtual addresses of the primary.
Relays(a, b) ==
    \A p \in Shared \cap DOMAIN file[a].ha.monitored :
        /\ p \in DOMAIN keepalived[b].virtual
        /\ keepalived[b].virtual[p] = file[a].ha.monitored[p].virtual

Peered(a, b) == Handed(a, b) /\ Relays(a, b) /\ \A p \in Shared : TakenOver(a, b, p)

\* The port of the primary has its address.
SetRight(a, p) ==
    /\ file[a].rows[p] = ip[a][p]
    /\ p \in DOMAIN file[a].ha.monitored => ip[a][p] \in {"base", None}

\* Before the peer has the file.
Sends(j, a, b) ==
    \/ j.step = "comparing" /\ j.on = a
    \/ /\ file[b].ha.role = "backup"
       /\ \/ j.step = "sending" /\ j.on = a
          \/ j.step = "copying" /\ j.on = b /\ j.content = file[a]
          \/ j.step = "merging" /\ j.on = b /\ merged[b] = file[a]
    \/ /\ j.step = "torn" /\ j.on = b
       /\ j.content.ha.role = "backup" /\ j.content.ha.monitored = file[a].ha.monitored
       /\ DOMAIN j.content.rows = Ports
       /\ \A p \in Shared : j.content.rows[p] = file[a].rows[p]

\* While the peer sets itself up.
TakesOver(j, a, b) ==
    /\ j.on = b /\ Handed(a, b)
    /\ \/ j.step = "fetching" /\ \A p \in Shared : file[b].rows[p] = file[a].rows[p]
       \/ /\ j.step = "addressing" /\ j.todo \subseteq Shared /\ j.content.ha = file[b].ha
          /\ \A p \in j.todo : j.content.rows[p] = file[a].rows[p]
          /\ \A p \in Shared \ j.todo : TakenOver(a, b, p)
       \/ j.step = "generating" /\ \A p \in Shared : TakenOver(a, b, p)
       \/ /\ j.step = "writing" /\ j.content = file[b]
          /\ \A p \in Shared : TakenOver(a, b, p)

\* While the time is stored.
Stamps(j, a, b) ==
    /\ Peered(a, b)
    /\ \/ j.step = "stamping" /\ j.on = a /\ j.op = "sync"
       \/ /\ j.step = "storing" /\ j.on = a /\ j.op = "sync"
          /\ j.ha = [file[a].ha EXCEPT !.synced = j.id]
       \/ /\ file[a].ha.synced = j.id
          /\ \/ j.step = "telling" /\ j.on = a /\ j.op = "sync"
             \/ /\ j.step = "storing" /\ j.on = b /\ j.op = "tell"
                /\ j.ha = [file[b].ha EXCEPT !.synced = j.id]

\* While the primary sets itself up.
SetsUp(j, a, b) ==
    /\ j.on = a /\ Peered(a, b) /\ file[b].ha.synced = file[a].ha.synced
    /\ \/ j.step = "fetching"
       \/ /\ j.step = "addressing" /\ j.todo \subseteq Shared /\ j.content.ha = file[a].ha
          /\ \A p \in j.todo : j.content.rows[p] = file[a].rows[p]
          /\ \A p \in Shared \ j.todo : SetRight(a, p)
       \/ j.step = "generating" /\ \A p \in Shared : SetRight(a, p)
       \/ j.step = "writing" /\ j.content = file[a] /\ \A p \in Shared : SetRight(a, p)

Stage(j, a, b) ==
    /\ file[a].ha.role = "primary"
    /\ \/ j.op = "sync" /\ (Sends(j, a, b) \/ TakesOver(j, a, b))
       \/ j.op \in {"sync", "tell"} /\ Stamps(j, a, b)
       \/ j.op = "local" /\ SetsUp(j, a, b)

\* Where a request is at work at its steps.
SettingUp == {"fetching", "addressing", "generating", "writing"}
Located(j) ==
    /\ j.op = "sync" /\ j.step \in {"copying", "merging", "torn"} \cup SettingUp
          => j.on = PeerOf(j.by)
    /\ j.op = "tell" => j.step = "storing" /\ j.on = PeerOf(j.by)
    /\ j.op = "local" => j.step \in SettingUp /\ j.on = j.by
    /\ j.step \in {"comparing", "sending", "stamping", "telling"} => j.op = "sync"

\* Addresses are set for ports that have a row.
Addresses(j) == j.step = "addressing" /\ j.op = "local" => j.todo \subseteq DOMAIN file[j.by].rows

\* The sync is by itself, and nobody has hung up.
Proceeds(j) == ~ j.orphan /\ j.op \in SyncOps

InStage(j) ==
    /\ Addresses(j)
    /\ DOMAIN file[j.by].rows = Ports => Stage(j, j.by, PeerOf(j.by))

SyncInv ==
    /\ keepalived = [a \in Appliances |-> keepalived[a]]
    /\ \A r \in InFlight : job[r].alone =>
          InFlight = {r} /\ Located(job[r]) /\ (Proceeds(job[r]) => InStage(job[r]))

LEMMA PairIs ==
    ASSUME NEW a \in Appliances
    PROVE  /\ PeerOf(a) \in Appliances /\ PeerOf(a) # a /\ PeerOf(PeerOf(a)) = a
           /\ \A x \in Appliances : x = a \/ x = PeerOf(a)
<1>1. PICK x, y \in Appliances : x # y /\ Appliances = {x, y}
  BY HaAssumption
<1>2. /\ PeerOf(a) \in Appliances /\ PeerOf(a) # a
      /\ PeerOf(PeerOf(a)) \in Appliances /\ PeerOf(PeerOf(a)) # PeerOf(a)
  BY PeerOfPeer
<1>. QED
  BY <1>1, <1>2

\* A request does not move the others.
LEMMA OthersWait ==
    ASSUME RoleInv, NEW r \in Requests, NEW jobs, jobs = job \/ \E a : jobs = Overtaken(a, r),
           NEW k, job' = [jobs EXCEPT ![r] = k]
    PROVE  /\ job'[r] = k
           /\ \A s \in Requests : s # r => /\ job'[s].step = job[s].step
                                           /\ s \in InFlight => job'[s].alone = job[s].alone
<1>1. job = [s \in Requests |-> job[s]]
  BY DEF RoleInv, RoleShape
<1>2. CASE jobs = job
  BY <1>1, <1>2
<1>3. CASE jobs # job
  <2>1. PICK a : jobs = Overtaken(a, r)
    BY <1>3
  <2>2. ASSUME NEW s \in Requests, s # r
        PROVE  /\ job'[s].step = job[s].step
               /\ s \in InFlight => job'[s].alone = job[s].alone
    <3>1. job'[s] = IF s \in InFlight /\ On(s) = a THEN [job[s] EXCEPT !.stale = TRUE] ELSE job[s]
      BY <2>1, <2>2 DEF Overtaken
    <3>2. s \in InFlight => IsJob(job[s])
      BY BusyRole DEF InFlight
    <3>3. IsJob(job[s]) => /\ [job[s] EXCEPT !.stale = TRUE].step = job[s].step
                           /\ [job[s] EXCEPT !.stale = TRUE].alone = job[s].alone
      BY DEF IsJob
    <3>. QED
      BY <3>1, <3>2, <3>3
  <2>3. job'[r] = k
    BY <2>1 DEF Overtaken
  <2>. QED
    BY <2>2, <2>3
<1>. QED
  BY <1>2, <1>3

\* Only the request that takes a step matters.
LEMMA SyncMoves ==
    ASSUME RoleInv, SyncInv, NEW r \in InFlight,
           NEW jobs, jobs = job \/ \E a : jobs = Overtaken(a, r),
           NEW k, job' = [jobs EXCEPT ![r] = k],
           k.step # "idle" /\ k.alone
              => job[r].alone /\ Located(k) /\ (Proceeds(k) => InStage(k)'),
           keepalived' = [a \in Appliances |-> keepalived'[a]]
    PROVE  SyncInv'
<1>1. r \in Requests
  BY DEF InFlight
<1>2. /\ job'[r] = k
      /\ \A s \in Requests : s # r => /\ job'[s].step = job[s].step
                                      /\ s \in InFlight => job'[s].alone = job[s].alone
  BY <1>1, OthersWait
<1>3. ASSUME NEW s \in InFlight', s # r, job'[s].alone
      PROVE  FALSE
  <2>1. s \in InFlight /\ job[s].alone
    BY <1>2, <1>3 DEF InFlight
  <2>2. InFlight = {s}
    BY <2>1 DEF SyncInv
  <2>. QED
    BY <1>3, <2>2
<1>4. ASSUME r \in InFlight', k.alone
      PROVE  InFlight' = {r} /\ Located(k) /\ (Proceeds(k) => InStage(k)')
  <2>1. k.step # "idle"
    BY <1>2, <1>4 DEF InFlight
  <2>2. InFlight = {r}
    BY <1>4, <2>1 DEF SyncInv
  <2>3. InFlight' = {r}
    BY <1>1, <1>2, <1>4, <2>2 DEF InFlight
  <2>. QED
    BY <1>4, <2>1, <2>3
<1>. HIDE DEF InFlight
<1>. QED
  BY <1>2, <1>3, <1>4 DEF SyncInv

\* A request at work, made on a, whose peer is b.
AtWork(r, j, a, b) ==
    /\ j = job[r] /\ j.by = a /\ b = PeerOf(a) /\ j.on \in {a, b} /\ On(r) = j.on
    /\ r \in InFlight /\ r \in Requests /\ a \in Appliances /\ b \in Appliances /\ a # b /\ PeerOf(b) = a
    /\ IsJob(j) /\ TypedJob(j, merged, asked)
    /\ TypedContent(file[a]) /\ TypedContent(file[b]) /\ RoleShape

LEMMA WorkIs ==
    ASSUME RoleInv, NEW r \in Requests, job[r].step # "idle"
    PROVE  \E j, a, b : AtWork(r, j, a, b)
<1>1. PICK j : j = job[r]
  OBVIOUS
<1>2. IsJob(j) /\ TypedJob(j, merged, asked) /\ On(r) = j.on
  BY <1>1, BusyRole
<1>3. PICK a \in Appliances : a = j.by
  BY <1>2 DEF IsJob
<1>4. PICK b : b = PeerOf(a)
  OBVIOUS
<1>5. j.on \in {a, b} /\ b \in Appliances /\ a # b /\ PeerOf(b) = a
  BY <1>2, <1>4, PairIs DEF IsJob
<1>6. TypedContent(file[a]) /\ TypedContent(file[b]) /\ RoleShape
  BY <1>5 DEF RoleInv
<1>. QED
  BY <1>1, <1>2, <1>3, <1>4, <1>5, <1>6 DEF AtWork, InFlight

\* A sync that is by itself, before and after a step.
Undisturbed(j) == j.alone /\ Located(j) /\ Proceeds(j) /\ Addresses(j)
Follows(j, k, a, b) ==
    /\ k.by = a /\ (k.alone => j.alone) /\ (Proceeds(k) => Proceeds(j))
    /\ Located(j) => Located(k)
    /\ Undisturbed(j) /\ Proceeds(k) => Addresses(k)'
    /\ Undisturbed(j) /\ Proceeds(k) /\ DOMAIN file'[a].rows = Ports =>
          DOMAIN file[a].rows = Ports /\ (Stage(j, a, b) => Stage(k, a, b)')

LEMMA SyncStep ==
    ASSUME RoleInv, SyncInv, NEW r, NEW j, NEW a, NEW b, AtWork(r, j, a, b),
           NEW jobs, jobs = job \/ \E x : jobs = Overtaken(x, r),
           NEW k, job' = [jobs EXCEPT ![r] = k],
           k.step = "idle" \/ ~ k.alone \/ Follows(j, k, a, b),
           keepalived' = [x \in Appliances |-> keepalived'[x]]
    PROVE  SyncInv'
<1>1. ASSUME k.step # "idle", k.alone
      PROVE  job[r].alone /\ Located(k) /\ (Proceeds(k) => InStage(k)')
  <2>1. Follows(j, k, a, b)
    BY <1>1
  <2>2. j.alone /\ Located(j) /\ (Proceeds(j) => InStage(j))
    BY <1>1, <2>1 DEF AtWork, SyncInv, Follows
  <2>3. Proceeds(k) => Undisturbed(j)
    BY <2>1, <2>2 DEF Follows, Undisturbed, InStage
  <2>4. Proceeds(k) /\ DOMAIN file'[a].rows = Ports => Stage(k, a, b)'
    BY <2>1, <2>2, <2>3 DEF Follows, InStage, AtWork, Undisturbed
  <2>5. k.by = a /\ b = PeerOf(k.by)
    BY <2>1 DEF Follows, AtWork
  <2>6. Proceeds(k) => InStage(k)'
    BY <2>1, <2>3, <2>4, <2>5 DEF InStage, Follows
  <2>. QED
    BY <2>1, <2>2, <2>6 DEF AtWork, Follows
<1>2. r \in InFlight
  BY DEF AtWork
<1>. QED
  BY <1>1, <1>2, SyncMoves

LEMMA FetchSyncs ==
    ASSUME RoleInv, SyncInv, NEW r \in Requests, FetchConfigs(r)
    PROVE  SyncInv'
<1>1. job[r].step = "fetching" /\ UNCHANGED <<file, merged, ip, keepalived>>
  BY DEF FetchConfigs, At
<1>2. PICK j, a, b : AtWork(r, j, a, b)
  BY <1>1, WorkIs
<1>3. PICK c : c = file[j.on]
  OBVIOUS
<1>4. PICK ports : ports = DOMAIN c.rows \ {c.ha.dedicated}
  OBVIOUS
<1>5. PICK step : step = IF ports = {} THEN "generating" ELSE "addressing"
  OBVIOUS
<1>6. PICK k : k = [j EXCEPT !.content = c, !.todo = ports, !.step = step]
  OBVIOUS
<1>7. job' = [job EXCEPT ![r] = k]
  BY <1>2, <1>3, <1>4, <1>5, <1>6 DEF FetchConfigs, AtWork
<1>8. /\ k.step = step /\ k.content = c /\ k.todo = ports /\ k.by = j.by /\ k.on = j.on
      /\ k.op = j.op /\ k.orphan = j.orphan /\ k.alone = j.alone
  BY <1>2, <1>6 DEF AtWork, IsJob
<1>9. j.step = "fetching"
  BY <1>1, <1>2 DEF AtWork
<1>10. Located(j) => Located(k)
  BY <1>5, <1>8, <1>9 DEF Located, SettingUp
<1>11. (Proceeds(k) => Proceeds(j)) /\ k.by = a
  BY <1>2, <1>8 DEF Proceeds, AtWork
<1>12. c.ha.role # "" => ports = DOMAIN c.rows \ {Dedicated}
  BY <1>2, <1>3, <1>4 DEF AtWork, TypedContent, TypedHa
<1>13. ASSUME Undisturbed(j) PROVE Addresses(k)'
  <2>1. j.op = "local" => c = file[a]
    BY <1>2, <1>3, <1>13 DEF Undisturbed, Located, AtWork
  <2>. QED
    BY <1>1, <1>2, <1>4, <1>8, <2>1 DEF Addresses, AtWork
<1>14. ASSUME DOMAIN file[a].rows = Ports, Stage(j, a, b) PROVE Stage(k, a, b)'
  <2>1. CASE j.op = "sync" /\ TakesOver(j, a, b)
    <3>1. c = file[b] /\ j.on = b /\ Handed(a, b) /\ \A p \in Shared : file[b].rows[p] = file[a].rows[p]
      BY <1>3, <1>9, <2>1 DEF TakesOver
    <3>2. ports = Shared
      BY <1>12, <3>1 DEF Handed, Shared
    <3>3. TakesOver(k, a, b)'
      BY <1>1, <1>5, <1>8, <3>1, <3>2 DEF TakesOver, Handed, TakenOver
    <3>. QED
      BY <1>1, <1>8, <1>14, <2>1, <3>3 DEF Stage
  <2>2. CASE j.op = "local" /\ SetsUp(j, a, b)
    <3>1. c = file[a] /\ j.on = a /\ Peered(a, b) /\ file[b].ha.synced = file[a].ha.synced
      BY <1>3, <1>9, <2>2 DEF SetsUp
    <3>2. ports = Shared
      BY <1>12, <1>14, <3>1 DEF Stage, Shared
    <3>3. Peered(a, b)'
      BY <1>1, <3>1 DEF Peered, Handed, Relays, TakenOver
    <3>4. SetsUp(k, a, b)'
      BY <1>1, <1>5, <1>8, <3>1, <3>2, <3>3 DEF SetsUp
    <3>. QED
      BY <1>1, <1>8, <1>14, <2>2, <3>4 DEF Stage
  <2>. QED
    BY <1>9, <1>14, <2>1, <2>2 DEF Stage, Sends, Stamps
<1>15. Follows(j, k, a, b)
  BY <1>1, <1>8, <1>10, <1>11, <1>13, <1>14 DEF Follows
<1>16. keepalived' = [x \in Appliances |-> keepalived'[x]]
  BY <1>1 DEF SyncInv
<1>. QED
  BY <1>2, <1>7, <1>15, <1>16, SyncStep

LEMMA GenerateSyncs ==
    ASSUME RoleInv, SyncInv, NEW r \in Requests, CreateHaConfig(r)
    PROVE  SyncInv'
<1>1. job[r].step = "generating" /\ UNCHANGED <<file, merged, ip, keepalived>>
  BY DEF CreateHaConfig, At
<1>2. PICK j, a, b : AtWork(r, j, a, b)
  BY <1>1, WorkIs
<1>3. PICK c : c = file[j.on]
  OBVIOUS
<1>4. PICK next : next = [j EXCEPT !.step = "writing", !.content = c]
  OBVIOUS
<1>5. PICK k : k = IF c.ha.dedicated = None THEN Idle ELSE next
  OBVIOUS
<1>6. job' = [job EXCEPT ![r] = k]
  BY <1>2, <1>3, <1>4, <1>5 DEF CreateHaConfig, AtWork
<1>7. keepalived' = [x \in Appliances |-> keepalived'[x]]
  BY <1>1 DEF SyncInv
<1>8. CASE k = Idle
  <2>1. k.step = "idle"
    BY <1>8 DEF Idle
  <2>. QED
    BY <1>2, <1>6, <1>7, <2>1, SyncStep
<1>9. CASE k # Idle
  <2>1. /\ k.step = "writing" /\ k.content = c /\ k.by = j.by /\ k.on = j.on
        /\ k.op = j.op /\ k.orphan = j.orphan /\ k.alone = j.alone
    BY <1>2, <1>4, <1>5, <1>9 DEF AtWork, IsJob
  <2>2. j.step = "generating"
    BY <1>1, <1>2 DEF AtWork
  <2>3. Located(j) => Located(k)
    BY <2>1, <2>2 DEF Located, SettingUp
  <2>4. (Proceeds(k) => Proceeds(j)) /\ k.by = a
    BY <1>2, <2>1 DEF Proceeds, AtWork
  <2>5. Addresses(k)'
    BY <2>1 DEF Addresses
  <2>6. ASSUME DOMAIN file[a].rows = Ports, Stage(j, a, b) PROVE Stage(k, a, b)'
    <3>1. CASE j.op = "sync" /\ TakesOver(j, a, b)
      <4>1. c = file[b] /\ j.on = b /\ Handed(a, b) /\ \A p \in Shared : TakenOver(a, b, p)
        BY <1>3, <2>2, <3>1 DEF TakesOver
      <4>2. TakesOver(k, a, b)'
        BY <1>1, <2>1, <4>1 DEF TakesOver, Handed, TakenOver
      <4>. QED
        BY <1>1, <2>1, <2>6, <3>1, <4>2 DEF Stage
    <3>2. CASE j.op = "local" /\ SetsUp(j, a, b)
      <4>1. /\ c = file[a] /\ j.on = a /\ Peered(a, b) /\ file[b].ha.synced = file[a].ha.synced
            /\ \A p \in Shared : SetRight(a, p)
        BY <1>3, <2>2, <3>2 DEF SetsUp
      <4>2. Peered(a, b)' /\ \A p \in Shared : SetRight(a, p)'
        BY <1>1, <4>1 DEF Peered, Handed, Relays, TakenOver, SetRight
      <4>3. SetsUp(k, a, b)'
        BY <1>1, <2>1, <4>1, <4>2 DEF SetsUp
      <4>. QED
        BY <1>1, <2>1, <2>6, <3>2, <4>3 DEF Stage
    <3>. QED
      BY <2>2, <2>6, <3>1, <3>2 DEF Stage, Sends, Stamps
  <2>7. Follows(j, k, a, b)
    BY <1>1, <2>1, <2>3, <2>4, <2>5, <2>6 DEF Follows
  <2>. QED
    BY <1>2, <1>6, <1>7, <2>7, SyncStep
<1>. QED
  BY <1>8, <1>9

\* keepalived.conf of the peer moves every monitored address: its port has an address.
LEMMA ConfMoves ==
    ASSUME NEW c, NEW p, p \in DOMAIN c.ha.monitored, p \in DOMAIN c.rows, c.rows[p] # None
    PROVE  p \in DOMAIN Conf(c).virtual /\ Conf(c).virtual[p] = c.ha.monitored[p].virtual
BY DEF Conf

LEMMA WriteHaSyncs ==
    ASSUME RoleInv, SyncInv, NEW r \in Requests, WriteHa(r)
    PROVE  SyncInv'
<1>1. job[r].step = "writing" /\ UNCHANGED <<file, merged, ip>>
  BY DEF WriteHa, At
<1>2. PICK j, a, b : AtWork(r, j, a, b)
  BY <1>1, WorkIs
<1>3. PICK back : back = Back(j, "stamping", a)
  OBVIOUS
<1>4. PICK k : k = IF j.op = "sync" /\ ~ j.orphan THEN back ELSE Idle
  OBVIOUS
<1>5. /\ job' = [job EXCEPT ![r] = k]
      /\ keepalived' = [keepalived EXCEPT ![j.on] = Conf(j.content)]
  BY <1>2, <1>3, <1>4 DEF WriteHa, Return, AtWork
<1>6. keepalived' = [x \in Appliances |-> keepalived'[x]]
  BY <1>5 DEF SyncInv
<1>7. CASE k = Idle
  <2>1. k.step = "idle"
    BY <1>7 DEF Idle
  <2>. QED
    BY <1>2, <1>5, <1>6, <2>1, SyncStep
<1>8. CASE k # Idle
  <2>1. /\ k.step = "stamping" /\ k.by = j.by /\ k.on = a
        /\ k.op = "sync" /\ j.op = "sync" /\ k.orphan = j.orphan /\ k.alone = j.alone
    BY <1>2, <1>3, <1>4, <1>8 DEF AtWork, IsJob, Back
  <2>2. j.step = "writing"
    BY <1>1, <1>2 DEF AtWork
  <2>3. Located(k)
    BY <2>1, <2>2 DEF Located, SettingUp
  <2>4. (Proceeds(k) => Proceeds(j)) /\ k.by = a
    BY <1>2, <2>1 DEF Proceeds, AtWork
  <2>5. Addresses(k)'
    BY <2>1 DEF Addresses
  <2>6. ASSUME DOMAIN file[a].rows = Ports, Stage(j, a, b) PROVE Stage(k, a, b)'
    <3>1. /\ j.content = file[b] /\ j.on = b /\ Handed(a, b)
          /\ \A p \in Shared : TakenOver(a, b, p)
      BY <2>1, <2>2, <2>6 DEF Stage, Sends, Stamps, TakesOver
    <3>2. keepalived'[b] = Conf(file[b])
      BY <1>2, <1>5, <3>1 DEF SyncInv, AtWork
    <3>3. ASSUME NEW p \in Shared \cap DOMAIN file[a].ha.monitored
          PROVE  /\ p \in DOMAIN keepalived'[b].virtual
                 /\ keepalived'[b].virtual[p] = file[a].ha.monitored[p].virtual
      <4>1. p \in DOMAIN file[b].ha.monitored /\ p \in DOMAIN file[b].rows /\ file[b].rows[p] = "peer"
        BY <3>1, <3>3 DEF Handed, TakenOver, Shared
      <4>2. file[b].rows[p] # None
        BY <4>1, HaAssumption
      <4>. QED
        BY <3>1, <3>2, <4>1, <4>2, ConfMoves DEF Handed
    <3>4. Peered(a, b)'
      BY <1>1, <3>1, <3>3 DEF Peered, Handed, Relays, TakenOver
    <3>. QED
      BY <1>1, <2>1, <2>6, <3>4 DEF Stage, Stamps
  <2>7. Follows(j, k, a, b)
    BY <1>1, <2>1, <2>3, <2>4, <2>5, <2>6 DEF Follows
  <2>. QED
    BY <1>2, <1>5, <1>6, <2>7, SyncStep
<1>. QED
  BY <1>7, <1>8

LEMMA StampSyncs ==
    ASSUME RoleInv, SyncInv, NEW r \in Requests, StampOwn(r) \/ UpdateLastSyncedAt(r)
    PROVE  SyncInv'
<1>1. /\ job[r].step \in {"stamping", "telling"}
      /\ UNCHANGED <<file, merged, ip, keepalived>>
  BY DEF StampOwn, UpdateLastSyncedAt, Stamp, At
<1>2. PICK j, a, b : AtWork(r, j, a, b)
  BY <1>1, WorkIs
<1>3. j.on = a /\ job[r] = j
  BY <1>1, <1>2 DEF AtWork, TypedJob, AtHome
<1>4. keepalived' = [x \in Appliances |-> keepalived'[x]]
  BY <1>1 DEF SyncInv
<1>5. CASE StampOwn(r)
  <2>1. PICK torn : torn = Torn(a)
    OBVIOUS
  <2>2. PICK ha : ha = [file[a].ha EXCEPT !.synced = j.id]
    OBVIOUS
  <2>3. PICK k : k = [j EXCEPT !.step = "storing", !.on = a, !.op = "sync", !.stale = torn, !.ha = ha]
    OBVIOUS
  <2>4. job' = [job EXCEPT ![r] = k] /\ j.step = "stamping"
    BY <1>2, <1>3, <1>5, <2>1, <2>2, <2>3 DEF StampOwn, Stamp, At, AtWork
  <2>5. /\ k.step = "storing" /\ k.by = j.by /\ k.on = a /\ k.id = j.id /\ k.ha = ha
        /\ k.op = "sync" /\ k.orphan = j.orphan /\ k.alone = j.alone
    BY <1>2, <2>3 DEF AtWork, IsJob
  <2>6. Located(k) /\ Addresses(k)'
    BY <2>5 DEF Located, SettingUp, Addresses
  <2>7. ASSUME Located(j) PROVE j.op = "sync"
    BY <2>4, <2>7 DEF Located
  <2>8. ASSUME DOMAIN file[a].rows = Ports, Stage(j, a, b), j.op = "sync" PROVE Stage(k, a, b)'
    <3>1. Peered(a, b)
      BY <2>4, <2>8 DEF Stage, Sends, TakesOver, Stamps
    <3>2. Peered(a, b)'
      BY <1>1, <3>1 DEF Peered, Handed, Relays, TakenOver
    <3>. QED
      BY <1>1, <2>2, <2>5, <2>8, <3>2 DEF Stage, Stamps
  <2>9. k.step = "idle" \/ ~ k.alone \/ ~ Located(j) \/ Follows(j, k, a, b)
    BY <1>1, <1>2, <2>5, <2>6, <2>7, <2>8 DEF Follows, Proceeds, SyncOps, AtWork, Undisturbed
  <2>10. ~ Located(j) => ~ k.alone
    BY <1>2, <2>5 DEF SyncInv, AtWork
  <2>. QED
    BY <1>2, <1>4, <2>4, <2>9, <2>10, SyncStep
<1>6. CASE UpdateLastSyncedAt(r)
  <2>1. PICK torn : torn = Torn(b)
    OBVIOUS
  <2>2. PICK ha : ha = [file[b].ha EXCEPT !.synced = j.id]
    OBVIOUS
  <2>3. PICK k : k = [j EXCEPT !.step = "storing", !.on = b, !.op = "tell", !.stale = torn, !.ha = ha]
    OBVIOUS
  <2>4. job' = [job EXCEPT ![r] = k] /\ j.step = "telling"
    BY <1>2, <1>3, <1>6, <2>1, <2>2, <2>3 DEF UpdateLastSyncedAt, Stamp, At, AtWork
  <2>5. /\ k.step = "storing" /\ k.by = j.by /\ k.on = b /\ k.id = j.id /\ k.ha = ha
        /\ k.op = "tell" /\ k.orphan = j.orphan /\ k.alone = j.alone
    BY <1>2, <2>3 DEF AtWork, IsJob
  <2>6. Located(k) /\ Addresses(k)'
    BY <1>2, <2>5 DEF Located, SettingUp, Addresses, AtWork
  <2>7. ASSUME Located(j) PROVE j.op = "sync"
    BY <2>4, <2>7 DEF Located
  <2>8. ASSUME DOMAIN file[a].rows = Ports, Stage(j, a, b), j.op = "sync" PROVE Stage(k, a, b)'
    <3>1. Peered(a, b) /\ file[a].ha.synced = j.id
      BY <2>4, <2>8 DEF Stage, Sends, TakesOver, Stamps
    <3>2. Peered(a, b)'
      BY <1>1, <3>1 DEF Peered, Handed, Relays, TakenOver
    <3>. QED
      BY <1>1, <2>2, <2>5, <2>8, <3>1, <3>2 DEF Stage, Stamps
  <2>9. k.step = "idle" \/ ~ k.alone \/ ~ Located(j) \/ Follows(j, k, a, b)
    BY <1>1, <1>2, <2>5, <2>6, <2>7, <2>8 DEF Follows, Proceeds, SyncOps, AtWork, Undisturbed
  <2>10. ~ Located(j) => ~ k.alone
    BY <1>2, <2>5 DEF SyncInv, AtWork
  <2>. QED
    BY <1>2, <1>4, <2>4, <2>9, <2>10, SyncStep
<1>. QED
  BY <1>5, <1>6

LEMMA SendSyncs ==
    ASSUME RoleInv, SyncInv, NEW r \in Requests,
           \/ ResetKeepAlived(r) \/ CompareDeviceInfo(r) \/ SendConfigToOtherDevice(r)
           \/ HaCopyConfig(r)
    PROVE  SyncInv'
<1>1. job[r].step \in {"resetting", "comparing", "sending", "copying"} /\ UNCHANGED <<file, ip>>
  BY DEF ResetKeepAlived, CompareDeviceInfo, SendConfigToOtherDevice, HaCopyConfig, At
<1>2. PICK j, a, b : AtWork(r, j, a, b)
  BY <1>1, WorkIs
<1>3. keepalived' = [x \in Appliances |-> keepalived'[x]]
  BY DEF SyncInv, ResetKeepAlived, CompareDeviceInfo, SendConfigToOtherDevice, HaCopyConfig
<1>4. j = job[r] /\ IsJob(j)
  BY <1>2 DEF AtWork
<1>5. CASE job' = [job EXCEPT ![r] = Idle]
  <2>1. Idle.step = "idle"
    BY DEF Idle
  <2>. QED
    BY <1>2, <1>3, <1>5, <2>1, SyncStep
<1>6. CASE CompareDeviceInfo(r) /\ job' # [job EXCEPT ![r] = Idle]
  <2>1. PICK k : k = [j EXCEPT !.step = "sending"]
    OBVIOUS
  <2>2. /\ job' = [job EXCEPT ![r] = k] /\ j.step = "comparing" /\ UNCHANGED <<merged, keepalived>>
        /\ file[PeerOf(j.on)].ha.role = "backup"
    BY <1>2, <1>6, <2>1 DEF CompareDeviceInfo, CompareDeviceInfoFromAnotherAppliance, At, AtWork
  <2>3. j.on = a
    BY <1>2, <2>2 DEF AtWork, TypedJob, AtHome
  <2>4. /\ k.step = "sending" /\ k.by = j.by /\ k.on = j.on
        /\ k.op = j.op /\ k.orphan = j.orphan /\ k.alone = j.alone
    BY <1>4, <2>1 DEF IsJob
  <2>5. (Located(j) => Located(k) /\ j.op = "sync") /\ Addresses(k)'
    BY <2>2, <2>4 DEF Located, SettingUp, Addresses
  <2>6. ASSUME Stage(j, a, b), j.op = "sync" PROVE Stage(k, a, b)'
    <3>1. file[b].ha.role = "backup"
      BY <1>2, <2>2, <2>3 DEF AtWork
    <3>. QED
      BY <1>1, <2>3, <2>4, <2>6, <3>1 DEF Stage, Sends
  <2>7. Follows(j, k, a, b)
    BY <1>1, <1>2, <2>4, <2>5, <2>6 DEF Follows, Proceeds, AtWork, Undisturbed
  <2>. QED
    BY <1>2, <1>3, <2>2, <2>7, SyncStep
<1>7. CASE SendConfigToOtherDevice(r)
  <2>1. j.step = "sending" /\ UNCHANGED <<merged, keepalived>>
    BY <1>4, <1>7 DEF SendConfigToOtherDevice, At
  <2>2. j.on = a /\ PeerOf(a) = b
    BY <1>2, <2>1 DEF AtWork, TypedJob, AtHome
  <2>3. PICK c : c = file[a]
    OBVIOUS
  <2>4. PICK k : k = [j EXCEPT !.step = "copying", !.on = b, !.content = c]
    OBVIOUS
  <2>5. job' = [job EXCEPT ![r] = k]
    BY <1>2, <1>7, <2>2, <2>3, <2>4 DEF SendConfigToOtherDevice, At, AtWork
  <2>6. /\ k.step = "copying" /\ k.by = j.by /\ k.on = b /\ k.content = c
        /\ k.op = j.op /\ k.orphan = j.orphan /\ k.alone = j.alone
    BY <1>4, <2>4 DEF IsJob
  <2>7. (Located(j) => Located(k) /\ j.op = "sync") /\ Addresses(k)'
    BY <1>2, <2>1, <2>6 DEF Located, SettingUp, Addresses, AtWork
  <2>8. ASSUME Stage(j, a, b), j.op = "sync" PROVE Stage(k, a, b)'
    <3>1. file[b].ha.role = "backup"
      BY <2>1, <2>8 DEF Stage, Sends, TakesOver, Stamps
    <3>. QED
      BY <1>1, <2>3, <2>6, <2>8, <3>1 DEF Stage, Sends
  <2>9. Follows(j, k, a, b)
    BY <1>1, <1>2, <2>6, <2>7, <2>8 DEF Follows, Proceeds, AtWork, Undisturbed
  <2>. QED
    BY <1>2, <1>3, <2>5, <2>9, SyncStep
<1>8. CASE HaCopyConfig(r)
  <2>1. PICK back : back = Back(j, "merging", j.on)
    OBVIOUS
  <2>2. PICK k : k = IF j.orphan THEN Idle ELSE back
    OBVIOUS
  <2>3. /\ job' = [job EXCEPT ![r] = k] /\ j.step = "copying" /\ UNCHANGED keepalived
        /\ merged' = [merged EXCEPT ![j.on] = j.content]
    BY <1>2, <1>8, <2>1, <2>2 DEF HaCopyConfig, At, AtWork, Return
  <2>4. CASE k = Idle
    BY <1>5, <2>3, <2>4
  <2>5. CASE k # Idle
    <3>1. /\ k.step = "merging" /\ k.by = j.by /\ k.on = j.on
          /\ k.op = j.op /\ k.orphan = j.orphan /\ k.alone = j.alone
      BY <1>4, <2>1, <2>2, <2>5 DEF IsJob, Back
    <3>2. (Located(j) => Located(k)) /\ Addresses(k)'
      BY <2>3, <3>1 DEF Located, SettingUp, Addresses
    <3>3. ASSUME Stage(j, a, b) PROVE Stage(k, a, b)'
      <4>1. j.op = "sync" /\ j.on = b /\ j.content = file[a] /\ file[b].ha.role = "backup"
        BY <2>3, <3>3 DEF Stage, Sends, TakesOver, Stamps, SetsUp
      <4>2. merged'[b] = file[a]
        BY <1>2, <2>3, <4>1 DEF AtWork, RoleShape
      <4>. QED
        BY <1>1, <3>1, <3>3, <4>1, <4>2 DEF Stage, Sends
    <3>4. Follows(j, k, a, b)
      BY <1>1, <1>2, <3>1, <3>2, <3>3 DEF Follows, Proceeds, AtWork
    <3>. QED
      BY <1>2, <1>3, <2>3, <3>4, SyncStep
  <2>. QED
    BY <2>4, <2>5
<1>. QED
  BY <1>5, <1>6, <1>7, <1>8 DEF ResetKeepAlived, CompareDeviceInfo

LEMMA MergeSyncs ==
    ASSUME RoleInv, SyncInv, NEW r \in Requests, SyncBackup(r)
    PROVE  SyncInv'
<1>1. job[r].step = "merging" /\ UNCHANGED <<merged, ip, keepalived>>
  BY DEF SyncBackup, At
<1>2. PICK j, a, b : AtWork(r, j, a, b)
  BY <1>1, WorkIs
<1>3. keepalived' = [x \in Appliances |-> keepalived'[x]]
  BY <1>1 DEF SyncInv
<1>4. j = job[r] /\ IsJob(j) /\ j.step = "merging" /\ On(r) = j.on
  BY <1>1, <1>2 DEF AtWork
<1>5. CASE job' = [job EXCEPT ![r] = Idle]
  <2>1. Idle.step = "idle"
    BY DEF Idle
  <2>. QED
    BY <1>2, <1>3, <1>5, <2>1, SyncStep
<1>6. CASE job' # [job EXCEPT ![r] = Idle]
  <2>1. PICK torn, c, jobs : /\ torn = Torn(j.on) /\ c = Merged(file[j.on], merged[j.on])
                             /\ jobs = Overtaken(j.on, r)
    OBVIOUS
  <2>2. PICK k : k = [j EXCEPT !.step = "torn", !.stale = torn, !.content = c]
    OBVIOUS
  <2>3. /\ job' = [jobs EXCEPT ![r].step = "torn", ![r].stale = torn, ![r].content = c]
        /\ file' = [file EXCEPT ![j.on] = EmptyContent]
    BY <1>4, <1>6, <2>1 DEF SyncBackup
  <2>4. jobs[r] = j
    BY <1>4, <2>1, OvertakenRoles
  <2>5. job' = [jobs EXCEPT ![r] = k]
    BY <2>2, <2>3, <2>4
  <2>6. /\ k.step = "torn" /\ k.by = j.by /\ k.on = j.on /\ k.content = c
        /\ k.op = j.op /\ k.orphan = j.orphan /\ k.alone = j.alone
    BY <1>4, <2>2 DEF IsJob
  <2>7. (Located(j) => Located(k)) /\ Addresses(k)'
    BY <1>4, <2>6 DEF Located, SettingUp, Addresses
  <2>8. ASSUME Undisturbed(j), DOMAIN file'[a].rows = Ports
        PROVE  DOMAIN file[a].rows = Ports /\ (Stage(j, a, b) => Stage(k, a, b)')
    <3>1. CASE j.on = b
      <4>1. file'[a] = file[a]
        BY <1>2, <2>3, <3>1 DEF AtWork, RoleShape
      <4>2. ASSUME Stage(j, a, b) PROVE Stage(k, a, b)'
        <5>1. j.op = "sync" /\ merged[b] = file[a] /\ file[b].ha.role = "backup"
          BY <1>4, <4>2 DEF Stage, Sends, TakesOver, Stamps, SetsUp
        <5>2. /\ c.ha.role = "backup" /\ c.ha.monitored = file[a].ha.monitored
              /\ DOMAIN c.rows = DOMAIN file[a].rows
              /\ \A p \in Shared \cap DOMAIN file[a].rows : c.rows[p] = file[a].rows[p]
          <6>1. PICK own, received : own = file[b] /\ received = file[a]
            OBVIOUS
          <6>2. TypedContent(own) /\ TypedContent(received) /\ own.ha.role = "backup"
            BY <1>2, <5>1, <6>1 DEF AtWork
          <6>3. c = Merged(own, received)
            BY <2>1, <3>1, <5>1, <6>1
          <6>4. /\ c.ha.role = own.ha.role /\ c.ha.monitored = received.ha.monitored
                /\ DOMAIN c.rows = DOMAIN received.rows
                /\ \A p \in Shared \cap DOMAIN received.rows : c.rows[p] = received.rows[p]
            BY <6>2, <6>3 DEF Merged, TypedContent, TypedHa, IsHa, Shared
          <6>. QED
            BY <5>1, <6>1, <6>4
        <5>3. DOMAIN file[a].rows = Ports
          BY <2>8, <4>1
        <5>. QED
          BY <2>6, <3>1, <4>1, <4>2, <5>1, <5>2, <5>3 DEF Stage, Sends, Shared
      <4>. QED
        BY <2>8, <4>1, <4>2
    <3>2. CASE j.op # "sync"
      BY <1>4, <2>8, <3>2 DEF Undisturbed, Located, Proceeds, SyncOps, SettingUp
    <3>3. j.op = "sync" => j.on = b
      BY <1>2, <1>4, <2>8 DEF Undisturbed, Located, AtWork
    <3>. QED
      BY <3>1, <3>2, <3>3
  <2>9. Follows(j, k, a, b)
    BY <1>2, <2>6, <2>7, <2>8 DEF Follows, Proceeds, AtWork
  <2>10. \E x : jobs = Overtaken(x, r)
    BY <2>1
  <2>. QED
    BY <1>2, <1>3, <2>5, <2>9, <2>10, SyncStep
<1>. QED
  BY <1>5, <1>6

LEMMA WriteFileSyncs ==
    ASSUME RoleInv, SyncInv, NEW r \in Requests, WriteInterfaceConfigFile(r)
    PROVE  SyncInv'
<1>1. job[r].step = "torn" /\ UNCHANGED <<merged, ip, keepalived>>
  BY DEF WriteInterfaceConfigFile, At
<1>2. PICK j, a, b : AtWork(r, j, a, b)
  BY <1>1, WorkIs
<1>3. keepalived' = [x \in Appliances |-> keepalived'[x]]
  BY <1>1 DEF SyncInv
<1>4. j = job[r] /\ IsJob(j) /\ j.step = "torn" /\ On(r) = j.on
  BY <1>1, <1>2 DEF AtWork
<1>5. PICK jobs : jobs = Overtaken(j.on, r)
  OBVIOUS
<1>6. PICK back : back = Back(j, "fetching", j.on)
  OBVIOUS
<1>7. PICK k : k = IF j.orphan THEN Idle ELSE back
  OBVIOUS
<1>8. jobs[r] = j
  BY <1>4, <1>5, OvertakenRoles
<1>9. job' = [jobs EXCEPT ![r] = k] /\ file' = [file EXCEPT ![j.on] = j.content]
  BY <1>4, <1>5, <1>6, <1>7, <1>8 DEF WriteInterfaceConfigFile, Return
<1>10. \E x : jobs = Overtaken(x, r)
  BY <1>5
<1>11. CASE k = Idle
  <2>1. k.step = "idle"
    BY <1>11 DEF Idle
  <2>. QED
    BY <1>2, <1>3, <1>9, <1>10, <2>1, SyncStep
<1>12. CASE k # Idle
  <2>1. /\ k.step = "fetching" /\ k.by = j.by /\ k.on = j.on
        /\ k.op = j.op /\ k.orphan = j.orphan /\ k.alone = j.alone
    BY <1>4, <1>6, <1>7, <1>12 DEF IsJob, Back
  <2>2. (Located(j) => Located(k)) /\ Addresses(k)'
    BY <1>4, <2>1 DEF Located, SettingUp, Addresses
  <2>3. ASSUME Undisturbed(j), DOMAIN file'[a].rows = Ports
        PROVE  DOMAIN file[a].rows = Ports /\ (Stage(j, a, b) => Stage(k, a, b)')
    <3>1. j.op = "sync" /\ j.on = b
      BY <1>2, <1>4, <2>3 DEF Undisturbed, Located, Proceeds, SyncOps, SettingUp, AtWork
    <3>2. file'[a] = file[a] /\ file'[b] = j.content
      BY <1>2, <1>9, <3>1 DEF AtWork, RoleShape
    <3>3. ASSUME Stage(j, a, b) PROVE Stage(k, a, b)'
      <4>1. /\ j.content.ha.role = "backup" /\ j.content.ha.monitored = file[a].ha.monitored
            /\ DOMAIN j.content.rows = Ports
            /\ \A p \in Shared : j.content.rows[p] = file[a].rows[p]
        BY <1>4, <3>1, <3>3 DEF Stage, Sends, TakesOver, Stamps
      <4>2. TakesOver(k, a, b)'
        BY <2>1, <3>1, <3>2, <4>1 DEF TakesOver, Handed
      <4>. QED
        BY <2>1, <3>1, <3>2, <3>3, <4>2 DEF Stage
    <3>. QED
      BY <2>3, <3>2, <3>3
  <2>4. Follows(j, k, a, b)
    BY <1>2, <2>1, <2>2, <2>3 DEF Follows, Proceeds, AtWork
  <2>. QED
    BY <1>2, <1>3, <1>9, <1>10, <2>4, SyncStep
<1>. QED
  BY <1>11, <1>12

LEMMA UpdateConfigSyncs ==
    ASSUME RoleInv, SyncInv, NEW r \in Requests, UpdateConfig(r)
    PROVE  SyncInv'
<1>1. job[r].step = "storing" /\ UNCHANGED <<merged, ip, keepalived>>
  BY DEF UpdateConfig, At
<1>2. PICK j, a, b : AtWork(r, j, a, b)
  BY <1>1, WorkIs
<1>3. keepalived' = [x \in Appliances |-> keepalived'[x]]
  BY <1>1 DEF SyncInv
<1>4. /\ j = job[r] /\ IsJob(j) /\ j.step = "storing" /\ On(r) = j.on
      /\ j.op \in Ops /\ IsHa(j.ha)
  BY <1>1, <1>2, BusyRole DEF AtWork, RoleJob, StoresCurrent, TypedJob, TypedHa
<1>5. PICK jobs : jobs = Overtaken(j.on, r)
  OBVIOUS
<1>6. /\ jobs = [s \in Requests |-> jobs[s]] /\ jobs[r] = j /\ \E x : jobs = Overtaken(x, r)
  BY <1>4, <1>5, OvertakenRoles
<1>7. /\ \A x \in Appliances : file'[x].rows = file[x].rows /\ (x # j.on => file'[x] = file[x])
      /\ file'[j.on].ha = j.ha
  <2>1. file' = [file EXCEPT ![j.on].ha = j.ha]
    BY <1>4 DEF UpdateConfig
  <2>. QED
    BY <1>2, <2>1 DEF AtWork, RoleShape, TypedContent
<1>8. CASE j.op \in {"create", "disable", "sync"}
  <2>1. PICK step : step = AfterSaving(r)
    OBVIOUS
  <2>2. PICK k : k = [j EXCEPT !.step = step, !.ha = NoHa]
    OBVIOUS
  <2>3. job' = [jobs EXCEPT ![r] = k]
    <3>1. job' = [jobs EXCEPT ![r].step = AfterSaving(r), ![r].ha = NoHa]
      BY <1>4, <1>5, <1>8 DEF UpdateConfig
    <3>. QED
      BY <1>6, <2>1, <2>2, <3>1
  <2>4. /\ step \in {"generating", "resetting", "telling"}
        /\ j.op = "sync" <=> step = "telling"
    BY <1>4, <1>8, <2>1 DEF AfterSaving
  <2>5. /\ k.step = step /\ k.by = j.by /\ k.on = j.on /\ k.op = j.op /\ k.id = j.id
        /\ k.orphan = j.orphan /\ k.alone = j.alone
    BY <1>4, <2>2 DEF IsJob
  <2>6. Located(k) /\ Addresses(k)'
    BY <1>8, <2>4, <2>5 DEF Located, SettingUp, Addresses
  <2>7. ASSUME DOMAIN file[a].rows = Ports, Stage(j, a, b), j.op = "sync" PROVE Stage(k, a, b)'
    <3>1. Peered(a, b) /\ j.on = a /\ j.ha = [file[a].ha EXCEPT !.synced = j.id]
      BY <1>4, <2>7 DEF Stage, Sends, TakesOver, Stamps
    <3>2. /\ file'[a].ha.synced = j.id /\ file'[a].ha.monitored = file[a].ha.monitored
          /\ file'[a].ha.role = file[a].ha.role
      <4>1. PICK h : h = file[a].ha
        OBVIOUS
      <4>2. IsHa(h)
        BY <1>2, <4>1 DEF AtWork, TypedContent, TypedHa
      <4>3. file'[a].ha = [h EXCEPT !.synced = j.id]
        BY <1>7, <3>1, <4>1
      <4>. QED
        BY <4>1, <4>2, <4>3 DEF IsHa
    <3>3. file'[b] = file[b] /\ file'[a].rows = file[a].rows
      BY <1>2, <1>7, <3>1 DEF AtWork
    <3>4. Peered(a, b)'
      BY <1>1, <3>1, <3>2, <3>3 DEF Peered, Handed, Relays, TakenOver
    <3>. QED
      BY <2>4, <2>5, <2>7, <3>1, <3>2, <3>4 DEF Stage, Stamps
  <2>8. Follows(j, k, a, b)
    BY <1>2, <1>7, <1>8, <2>5, <2>6, <2>7 DEF Follows, Proceeds, AtWork, Undisturbed, SyncOps
  <2>. QED
    BY <1>2, <1>3, <1>6, <2>3, <2>8, SyncStep
<1>9. CASE j.op = "tell"
  <2>1. PICK back : back = Back(j, "fetching", a)
    OBVIOUS
  <2>2. PICK next : next = [back EXCEPT !.op = "local"]
    OBVIOUS
  <2>3. PICK k : k = IF j.orphan THEN Idle ELSE next
    OBVIOUS
  <2>4. /\ back.step = "fetching" /\ back.by = a /\ back.on = a /\ back.id = j.id
        /\ back.orphan = j.orphan /\ back.alone = j.alone /\ IsJob(back) /\ back # Idle
    <3>1. /\ back.step = "fetching" /\ back.by = a /\ back.on = a /\ back.id = j.id
          /\ back.orphan = j.orphan /\ back.alone = j.alone /\ IsJob(back)
      BY <1>2, <1>4, <2>1 DEF IsJob, Back, AtWork
    <3>. QED
      BY <3>1 DEF Idle
  <2>5. job' = [jobs EXCEPT ![r] = k]
    <3>1. job' = [Return(jobs, r, "fetching", a) EXCEPT ![r] =
                    IF @ = Idle THEN @ ELSE [@ EXCEPT !.op = "local"]]
      BY <1>2, <1>4, <1>5, <1>9 DEF UpdateConfig, AtWork
    <3>2. Return(jobs, r, "fetching", a) = [jobs EXCEPT ![r] = IF j.orphan THEN Idle ELSE back]
      BY <1>6, <2>1 DEF Return
    <3>. QED
      BY <1>6, <2>2, <2>3, <2>4, <3>1, <3>2
  <2>6. CASE k = Idle
    <3>1. k.step = "idle"
      BY <2>6 DEF Idle
    <3>. QED
      BY <1>2, <1>3, <1>6, <2>5, <3>1, SyncStep
  <2>7. CASE k # Idle
    <3>1. /\ k.step = "fetching" /\ k.by = a /\ k.on = a /\ k.op = "local"
          /\ k.orphan = j.orphan /\ k.alone = j.alone
      BY <2>2, <2>3, <2>4, <2>7 DEF IsJob
    <3>2. Located(k) /\ Addresses(k)'
      BY <3>1 DEF Located, SettingUp, Addresses
    <3>3. ASSUME Undisturbed(j), DOMAIN file[a].rows = Ports, Stage(j, a, b) PROVE Stage(k, a, b)'
      <4>1. /\ Peered(a, b) /\ j.on = b /\ j.ha = [file[b].ha EXCEPT !.synced = j.id]
            /\ file[a].ha.synced = j.id
        BY <1>4, <1>9, <3>3 DEF Stage, Stamps
      <4>2. /\ file'[b].ha.synced = j.id /\ file'[b].ha.monitored = file[b].ha.monitored
            /\ file'[b].ha.role = file[b].ha.role
        <5>1. PICK h : h = file[b].ha
          OBVIOUS
        <5>2. IsHa(h)
          BY <1>2, <5>1 DEF AtWork, TypedContent, TypedHa
        <5>3. file'[b].ha = [h EXCEPT !.synced = j.id]
          BY <1>7, <4>1, <5>1
        <5>. QED
          BY <5>1, <5>2, <5>3 DEF IsHa
      <4>3. file'[a] = file[a] /\ file'[b].rows = file[b].rows
        BY <1>2, <1>7, <4>1 DEF AtWork
      <4>4. Peered(a, b)'
        BY <1>1, <4>1, <4>2, <4>3 DEF Peered, Handed, Relays, TakenOver
      <4>. QED
        BY <3>1, <3>3, <4>1, <4>2, <4>3, <4>4 DEF Stage, SetsUp
    <3>4. Follows(j, k, a, b)
      BY <1>2, <1>7, <1>9, <3>1, <3>2, <3>3 DEF Follows, Proceeds, AtWork, SyncOps
    <3>. QED
      BY <1>2, <1>3, <1>6, <2>5, <3>4, SyncStep
  <2>. QED
    BY <2>6, <2>7
<1>. QED
  BY <1>4, <1>8, <1>9 DEF Ops

\* The address a port gets, on the peer and on the primary.
LEMMA SetIpSyncs ==
    ASSUME RoleInv, SyncInv, NEW r \in Requests, NEW p \in Ports, SetIpAfterSyncBackup(r, p)
    PROVE  SyncInv'
<1>1. /\ job[r].step = "addressing" /\ UNCHANGED <<merged, keepalived>>
      /\ p \in job[r].todo
  BY DEF SetIpAfterSyncBackup, At
<1>2. PICK j, a, b : AtWork(r, j, a, b)
  BY <1>1, WorkIs
<1>3. keepalived' = [x \in Appliances |-> keepalived'[x]]
  BY <1>1 DEF SyncInv
<1>4. /\ j = job[r] /\ IsJob(j) /\ j.step = "addressing" /\ On(r) = j.on /\ p \in j.todo
      /\ j.on \in Appliances
  BY <1>1, <1>2 DEF AtWork, IsJob
<1>5. PICK jobs : jobs = Overtaken(j.on, r)
  OBVIOUS
<1>6. jobs[r] = j /\ \E x : jobs = Overtaken(x, r)
  BY <1>4, <1>5, OvertakenRoles
<1>7. PICK step : step = IF j.todo = {p} THEN "generating" ELSE "addressing"
  OBVIOUS
<1>8. PICK k : k = [j EXCEPT !.todo = j.todo \ {p}, !.step = step]
  OBVIOUS
<1>9. job' = [jobs EXCEPT ![r] = k]
  <2>1. job' = [jobs EXCEPT ![r].todo = @ \ {p},
                            ![r].step = IF j.todo = {p} THEN "generating" ELSE @]
    BY <1>4, <1>5 DEF SetIpAfterSyncBackup
  <2>. QED
    BY <1>4, <1>6, <1>7, <1>8, <2>1
<1>10. /\ k.step = step /\ k.by = j.by /\ k.on = j.on /\ k.op = j.op /\ k.id = j.id
       /\ k.orphan = j.orphan /\ k.alone = j.alone /\ k.todo = j.todo \ {p} /\ k.content = j.content
  BY <1>4, <1>8 DEF IsJob
<1>11. PICK v : v = AddressOf(j.content, p)
  OBVIOUS
<1>12. /\ ip'[j.on][p] = v /\ (\A q \in Ports : q # p => ip'[j.on][q] = ip[j.on][q])
       /\ \A x \in Appliances : x # j.on => ip'[x] = ip[x]
  <2>1. ip' = [ip EXCEPT ![j.on][p] = v]
    BY <1>4, <1>11 DEF SetIpAfterSyncBackup
  <2>2. ip = [x \in Appliances |-> [q \in Ports |-> ip[x][q]]]
    BY DEF RoleInv, RoleShape
  <2>. QED
    BY <1>4, <2>1, <2>2
<1>13. /\ file'[j.on].ha = file[j.on].ha
       /\ file'[j.on].rows = [q \in DOMAIN file[j.on].rows \cup {p} |->
                                IF q = p THEN v ELSE file[j.on].rows[q]]
       /\ \A x \in Appliances : x # j.on => file'[x] = file[x]
  <2>. DEFINE rows == [q \in DOMAIN file[j.on].rows \cup {p} |->
                                IF q = p THEN ip'[j.on][p] ELSE file[j.on].rows[q]]
  <2>1. file' = [file EXCEPT ![j.on].rows = rows]
    BY <1>4 DEF SetIpAfterSyncBackup
  <2>2. rows = [q \in DOMAIN file[j.on].rows \cup {p} |->
                                IF q = p THEN v ELSE file[j.on].rows[q]]
    BY <1>12
  <2>3. TypedContent(file[j.on])
    BY <1>4 DEF RoleInv
  <2>. HIDE DEF rows
  <2>4. /\ file'[j.on].ha = file[j.on].ha /\ file'[j.on].rows = rows
        /\ \A x \in Appliances : x # j.on => file'[x] = file[x]
    BY <1>4, <2>1, <2>3 DEF RoleInv, RoleShape, TypedContent
  <2>. QED
    BY <2>2, <2>4
<1>14. Located(j) => Located(k)
  BY <1>4, <1>7, <1>10 DEF Located, SettingUp
<1>15. ASSUME Undisturbed(j), j.op = "local"
       PROVE  j.on = a /\ p \in DOMAIN file[a].rows /\ DOMAIN file'[a].rows = DOMAIN file[a].rows
              /\ j.todo \subseteq DOMAIN file[a].rows
  BY <1>2, <1>4, <1>13, <1>15 DEF Undisturbed, Located, Addresses, AtWork
<1>16. ASSUME Undisturbed(j) PROVE Addresses(k)'
  BY <1>2, <1>10, <1>15, <1>16 DEF Addresses, AtWork
<1>17. ASSUME Undisturbed(j) PROVE DOMAIN file'[a].rows = DOMAIN file[a].rows
  <2>1. CASE j.op = "local"
    BY <1>15, <1>17, <2>1
  <2>2. CASE j.op # "local"
    <3>1. j.on = b
      BY <1>2, <1>4, <1>17, <2>2 DEF Undisturbed, Located, Proceeds, SyncOps, SettingUp, AtWork
    <3>. QED
      BY <1>2, <1>13, <3>1 DEF AtWork
  <2>. QED
    BY <2>1, <2>2
<1>18. ASSUME Undisturbed(j), DOMAIN file[a].rows = Ports, Stage(j, a, b) PROVE Stage(k, a, b)'
  <2>1. CASE j.op = "sync" /\ TakesOver(j, a, b)
    <3>1. /\ j.on = b /\ Handed(a, b) /\ j.todo \subseteq Shared /\ j.content.ha = file[b].ha
          /\ \A q \in j.todo : j.content.rows[q] = file[a].rows[q]
          /\ \A q \in Shared \ j.todo : TakenOver(a, b, q)
      BY <1>4, <2>1 DEF TakesOver
    <3>2. file'[a] = file[a] /\ ip'[a] = ip[a]
      BY <1>2, <1>12, <1>13, <3>1 DEF AtWork
    <3>3. v = IF p \in DOMAIN file[a].ha.monitored THEN "peer" ELSE file[a].rows[p]
      BY <1>4, <1>11, <3>1 DEF AddressOf, Handed
    <3>4. Handed(a, b)'
      BY <1>13, <3>1, <3>2 DEF Handed
    <3>5. TakenOver(a, b, p)'
      BY <1>12, <1>13, <3>1, <3>2, <3>3 DEF TakenOver
    <3>6. \A q \in Shared \ j.todo : TakenOver(a, b, q)'
      BY <1>4, <1>12, <1>13, <3>1, <3>2 DEF TakenOver, Shared, Handed
    <3>7. TakesOver(k, a, b)'
      <4>1. CASE j.todo = {p}
        BY <1>7, <1>10, <3>1, <3>4, <3>5, <3>6, <4>1 DEF TakesOver
      <4>2. CASE j.todo # {p}
        <5>1. file'[b].ha = file[b].ha
          BY <1>13, <3>1
        <5>2. \A q \in Shared \ (j.todo \ {p}) : TakenOver(a, b, q)'
          BY <3>5, <3>6
        <5>. QED
          BY <1>7, <1>10, <3>1, <3>2, <3>4, <4>2, <5>1, <5>2 DEF TakesOver
      <4>. QED
        BY <4>1, <4>2
    <3>. QED
      BY <1>10, <1>18, <2>1, <3>2, <3>7 DEF Stage
  <2>2. CASE j.op = "local" /\ SetsUp(j, a, b)
    <3>1. /\ j.on = a /\ Peered(a, b) /\ j.todo \subseteq Shared /\ j.content.ha = file[a].ha
          /\ \A q \in j.todo : j.content.rows[q] = file[a].rows[q]
          /\ \A q \in Shared \ j.todo : SetRight(a, q)
          /\ file[b].ha.synced = file[a].ha.synced /\ file[a].ha.role = "primary"
      BY <1>4, <1>18, <2>2 DEF SetsUp, Stage
    <3>2. file'[b] = file[b] /\ ip'[b] = ip[b] /\ file'[a].ha = file[a].ha
      BY <1>2, <1>12, <1>13, <3>1 DEF AtWork
    <3>3. /\ p \in DOMAIN file[a].ha.monitored => v \in {"base", None}
          /\ p \notin DOMAIN file[a].ha.monitored => v = file[a].rows[p]
      BY <1>4, <1>11, <3>1 DEF AddressOf
    <3>4. \A q \in Shared : q \notin DOMAIN file[a].ha.monitored => file'[a].rows[q] = file[a].rows[q]
      BY <1>13, <1>18, <3>1, <3>3 DEF Shared
    <3>5. Peered(a, b)'
      BY <1>1, <3>1, <3>2, <3>4 DEF Peered, Handed, Relays, TakenOver
    <3>6. SetRight(a, p)'
      BY <1>12, <1>13, <3>1, <3>2, <3>3 DEF SetRight
    <3>7. \A q \in Shared \ j.todo : SetRight(a, q)'
      BY <1>4, <1>12, <1>13, <1>18, <3>1, <3>2 DEF SetRight, Shared
    <3>8. SetsUp(k, a, b)'
      <4>1. CASE j.todo = {p}
        BY <1>7, <1>10, <3>1, <3>2, <3>5, <3>6, <3>7, <4>1 DEF SetsUp
      <4>2. CASE j.todo # {p}
        <5>1. \A q \in Shared \ (j.todo \ {p}) : SetRight(a, q)'
          BY <3>6, <3>7
        <5>2. \A q \in j.todo \ {p} : file'[a].rows[q] = file[a].rows[q]
          BY <1>13, <1>18, <3>1 DEF Shared
        <5>. QED
          BY <1>7, <1>10, <3>1, <3>2, <3>5, <4>2, <5>1, <5>2 DEF SetsUp
      <4>. QED
        BY <4>1, <4>2
    <3>. QED
      BY <1>10, <1>18, <2>2, <3>1, <3>2, <3>8 DEF Stage
  <2>. QED
    BY <1>4, <1>18, <2>1, <2>2 DEF Stage, Sends, Stamps
<1>19. Follows(j, k, a, b)
  BY <1>2, <1>10, <1>14, <1>16, <1>17, <1>18 DEF Follows, Proceeds, AtWork
<1>. QED
  BY <1>2, <1>3, <1>6, <1>9, <1>19, SyncStep

LEMMA FailSyncs ==
    ASSUME RoleInv, SyncInv, NEW r \in Requests,
           Fail(r) \/ LoseAnswer(r) \/ \E p \in Ports : SetIpUnsaved(r, p)
    PROVE  SyncInv'
<1>1. job[r].step # "idle" /\ UNCHANGED <<file, keepalived>>
  BY DEF Fail, LoseAnswer, SetIpUnsaved, Unlucky, InFlight, At
<1>2. PICK j, a, b : AtWork(r, j, a, b)
  BY <1>1, WorkIs
<1>3. keepalived' = [x \in Appliances |-> keepalived'[x]]
  BY <1>1 DEF SyncInv
<1>4. j = job[r] /\ IsJob(j)
  BY <1>2 DEF AtWork
<1>5. CASE Fail(r)
  <2>1. PICK on : on = [j EXCEPT !.step = "generating", !.todo = {}, !.alone = FALSE]
    OBVIOUS
  <2>2. PICK k : k = IF j.op = "local" /\ j.step = "addressing" THEN on ELSE Idle
    OBVIOUS
  <2>3. job' = [job EXCEPT ![r] = k]
    BY <1>4, <1>5, <2>1, <2>2 DEF Fail, At
  <2>4. k.step = "idle" \/ ~ k.alone
    BY <1>4, <2>1, <2>2 DEF IsJob, Idle
  <2>. QED
    BY <1>2, <1>3, <2>3, <2>4, SyncStep
<1>6. CASE LoseAnswer(r)
  <2>1. PICK k : k = [j EXCEPT !.orphan = TRUE]
    OBVIOUS
  <2>2. job' = [job EXCEPT ![r] = k]
    BY <1>4, <1>6, <2>1 DEF LoseAnswer
  <2>3. /\ k.step = j.step /\ k.by = j.by /\ k.on = j.on /\ k.op = j.op
        /\ k.orphan /\ k.alone = j.alone
    BY <1>4, <2>1 DEF IsJob
  <2>4. Follows(j, k, a, b)
    BY <1>2, <2>3 DEF Follows, Proceeds, Located, AtWork
  <2>. QED
    BY <1>2, <1>3, <2>2, <2>4, SyncStep
<1>7. ASSUME NEW p \in Ports, SetIpUnsaved(r, p)
      PROVE  SyncInv'
  <2>1. PICK todo, step : todo = j.todo \ {p} /\ step = IF j.todo = {p} THEN "generating" ELSE j.step
    OBVIOUS
  <2>2. PICK k : k = [j EXCEPT !.todo = todo, !.alone = FALSE, !.step = step]
    OBVIOUS
  <2>3. job' = [job EXCEPT ![r] = k]
    BY <1>4, <1>7, <2>1, <2>2 DEF SetIpUnsaved
  <2>4. ~ k.alone
    BY <1>4, <2>2 DEF IsJob
  <2>. QED
    BY <1>2, <1>3, <2>3, <2>4, SyncStep
<1>. QED
  BY <1>5, <1>6, <1>7

\* A request that is made disturbs the ones in flight.
LEMMA BeginSyncs ==
    ASSUME RoleInv, SyncInv, NEW r \in Requests, NEW a \in Appliances, NEW op, NEW step, NEW ha,
           \/ step = "storing" /\ op \in {"create", "disable"}
           \/ step = "comparing" /\ op = "sync" /\ file[a].ha.role = "primary",
           Begin(r, a, op, step, ha)
    PROVE  SyncInv'
<1>1. PICK alone : alone = (InFlight = {})
  OBVIOUS
<1>2. PICK k : k = [op |-> op, step |-> step, by |-> a, on |-> a, ha |-> ha,
                    content |-> EmptyContent, todo |-> {}, id |-> asked + 1,
                    orphan |-> FALSE, stale |-> FALSE, alone |-> alone]
  OBVIOUS
<1>3. /\ UNCHANGED <<file, merged, ip, keepalived>>
      /\ job' = [s \in Requests |->
                 IF s = r THEN k
                 ELSE IF s \in InFlight THEN [job[s] EXCEPT !.alone = FALSE] ELSE job[s]]
  BY <1>1, <1>2 DEF Begin
<1>4. k.op = op /\ k.step = step /\ k.by = a /\ k.on = a /\ k.alone = alone
  BY <1>2
<1>5. job'[r] = k
  BY <1>3
<1>6. ASSUME NEW s \in Requests, s # r
      PROVE  s \in InFlight' => s \in InFlight /\ ~ job'[s].alone
  <2>1. CASE s \in InFlight
    <3>1. IsJob(job[s])
      BY <2>1, BusyRole DEF InFlight
    <3>2. job'[s] = [job[s] EXCEPT !.alone = FALSE]
      BY <1>3, <1>6, <2>1
    <3>. QED
      BY <2>1, <3>1, <3>2 DEF IsJob
  <2>2. CASE s \notin InFlight
    <3>1. job'[s] = job[s]
      BY <1>3, <1>6, <2>2
    <3>. QED
      BY <2>2, <3>1 DEF InFlight
  <2>. QED
    BY <2>1, <2>2
<1>7. InFlight \subseteq Requests /\ InFlight' \subseteq Requests
  BY DEF InFlight
<1>8. ASSUME r \in InFlight', k.alone
      PROVE  InFlight' = {r} /\ Located(k) /\ (Proceeds(k) => InStage(k)')
  <2>1. InFlight = {}
    BY <1>1, <1>4, <1>8
  <2>2. InFlight' = {r}
    BY <1>6, <1>7, <1>8, <2>1
  <2>3. Located(k)
    BY <1>4 DEF Located, SettingUp
  <2>4. Proceeds(k) => InStage(k)'
    BY <1>3, <1>4 DEF Proceeds, SyncOps, InStage, Addresses, Stage, Sends
  <2>. QED
    BY <2>2, <2>3, <2>4
<1>9. keepalived' = [x \in Appliances |-> keepalived'[x]]
  BY <1>3 DEF SyncInv
<1>. HIDE DEF InFlight
<1>. QED
  BY <1>5, <1>6, <1>7, <1>8, <1>9 DEF SyncInv

LEMMA AskSyncs ==
    ASSUME RoleInv, SyncInv, NEW r \in Requests, Ask(r)
    PROVE  SyncInv'
<1>1. ASSUME NEW a \in Appliances, NEW role \in {"primary", "backup"}, NEW chosen \in Choices,
             AskToCreate(r, a, role, chosen)
      PROVE  SyncInv'
  <2>1. \E ha : Begin(r, a, "create", "storing", ha)
    BY <1>1 DEF AskToCreate
  <2>. QED
    BY <2>1, BeginSyncs
<1>2. ASSUME NEW a \in Appliances, AskToDisable(r, a)
      PROVE  SyncInv'
  BY <1>2, BeginSyncs DEF AskToDisable
<1>3. ASSUME NEW a \in Appliances, AskToSync(r, a)
      PROVE  SyncInv'
  BY <1>3, BeginSyncs DEF AskToSync
<1>. QED
  BY <1>1, <1>2, <1>3 DEF Ask

\* A stop ends the work of the sync that is by itself, or leaves the peer as it was set.
LEMMA StopSyncs ==
    ASSUME RoleInv, SyncInv, NEW x \in Appliances, Restart(x) \/ Reboot(x)
    PROVE  SyncInv'
<1>1. /\ file' = [file EXCEPT ![x].rows = ip'[x]] /\ UNCHANGED <<merged, keepalived>>
      /\ job' = [r \in Requests |->
                 CASE r \in InFlight /\ On(r) = x -> Idle
                   [] r \in InFlight /\ On(r) # x /\ job[r].by = x -> [job[r] EXCEPT !.orphan = TRUE]
                   [] OTHER -> job[r]]
  BY DEF Restart, Reboot, Stop, Unlucky
<1>2. keepalived' = [y \in Appliances |-> keepalived'[y]]
  BY <1>1 DEF SyncInv
<1>3. ASSUME NEW s \in Requests, job'[s].step # "idle"
      PROVE  /\ s \in InFlight /\ On(s) # x /\ job'[s].alone = job[s].alone
             /\ Located(job[s]) => Located(job'[s])
             /\ (job'[s] = job[s] /\ job[s].by # x) \/ job'[s].orphan
  <2>1. CASE s \in InFlight
    <3>1. IsJob(job[s])
      BY <2>1, BusyRole DEF InFlight
    <3>2. Idle.step = "idle"
      BY DEF Idle
    <3>3. /\ On(s) # x
          /\ job'[s] = IF job[s].by = x THEN [job[s] EXCEPT !.orphan = TRUE] ELSE job[s]
      BY <1>1, <1>3, <2>1, <3>2
    <3>. QED
      BY <2>1, <3>1, <3>3 DEF IsJob, Located
  <2>2. CASE s \notin InFlight
    <3>1. job'[s] = job[s]
      BY <1>1, <2>2
    <3>. QED
      BY <1>3, <2>2, <3>1 DEF InFlight
  <2>. QED
    BY <2>1, <2>2
<1>4. ASSUME NEW s \in InFlight', job'[s].alone
      PROVE  InFlight' = {s} /\ Located(job'[s])
  <2>1. s \in Requests /\ job'[s].step # "idle"
    BY DEF InFlight
  <2>2. s \in InFlight /\ job[s].alone
    BY <1>3, <1>4, <2>1
  <2>3. InFlight = {s} /\ Located(job[s])
    BY <2>2 DEF SyncInv
  <2>4. \A t \in InFlight' : t \in InFlight
    BY <1>3 DEF InFlight
  <2>5. Located(job'[s])
    BY <1>3, <2>1, <2>3
  <2>. QED
    BY <2>3, <2>4, <2>5
<1>5. ASSUME NEW s \in InFlight', NEW j, j = job'[s], j.alone, Proceeds(j)
      PROVE  InStage(j)'
  <2>1. s \in Requests /\ job'[s].step # "idle"
    BY DEF InFlight
  <2>2. j = job[s] /\ j.on # x /\ j.by # x /\ s \in InFlight
    BY <1>3, <1>5, <2>1 DEF Proceeds, On
  <2>3. InStage(j)
    BY <1>5, <2>2 DEF SyncInv
  <2>4. job[s].step # "idle"
    BY <2>2 DEF InFlight
  <2>5. PICK k, a, b : AtWork(s, k, a, b)
    BY <2>1, <2>4, WorkIs
  <2>6. k = j /\ AtWork(s, j, a, b)
    BY <2>2, <2>5 DEF AtWork
  <2>7. x = b /\ j.on = a
    BY <2>2, <2>6, PairIs DEF AtWork
  <2>8. file'[a] = file[a] /\ ip'[a] = ip[a] /\ file'[b].ha = file[b].ha /\ file'[b].rows = ip'[b]
    <3>1. ip' = ip \/ \E v : ip' = [ip EXCEPT ![x] = v]
      BY DEF Restart, Reboot
    <3>2. ip'[a] = ip[a]
      BY <2>6, <2>7, <3>1 DEF AtWork, RoleShape
    <3>. QED
      BY <1>1, <2>6, <2>7, <3>2 DEF AtWork, RoleShape, TypedContent
  <2>9. ASSUME Peered(a, b) PROVE Peered(a, b)'
    <3>1. DOMAIN file[b].rows = Ports /\ \A p \in Shared : file[b].rows[p] = ip[b][p]
      BY <2>9 DEF Peered, Handed, TakenOver
    <3>2. DOMAIN ip'[b] = Ports /\ \A p \in Shared : ip'[b][p] = ip[b][p]
      <4>1. CASE Restart(x)
        BY <2>6, <4>1 DEF Restart, AtWork, RoleShape
      <4>2. CASE Reboot(x)
        <5>1. ip'[b] = [p \in Ports |-> IF p \in DOMAIN file[b].rows THEN file[b].rows[p] ELSE None]
          BY <2>6, <2>7, <4>2 DEF Reboot, AtWork, RoleShape
        <5>. QED
          BY <3>1, <5>1 DEF Shared
      <4>. QED
        BY <4>1, <4>2
    <3>3. Handed(a, b)' /\ Relays(a, b)'
      BY <1>1, <2>8, <2>9, <3>2 DEF Peered, Handed, Relays
    <3>4. ASSUME NEW p \in Shared PROVE TakenOver(a, b, p)'
      BY <2>8, <2>9, <3>2 DEF Peered, TakenOver
    <3>. QED
      BY <3>3, <3>4 DEF Peered
  <2>10. Addresses(j)'
    BY <2>3, <2>6, <2>8 DEF InStage, Addresses, AtWork
  <2>11. ASSUME Stage(j, a, b) PROVE Stage(j, a, b)'
    <3>1. CASE j.op = "sync" /\ Sends(j, a, b)
      BY <2>6, <2>7, <2>8, <2>11, <3>1 DEF Stage, Sends, AtWork
    <3>2. CASE j.op \in {"sync", "tell"} /\ Stamps(j, a, b)
      <4>1. Stamps(j, a, b)'
        BY <2>6, <2>7, <2>8, <2>9, <3>2 DEF Stamps, AtWork
      <4>. QED
        BY <2>8, <2>11, <3>2, <4>1 DEF Stage
    <3>3. CASE j.op = "local" /\ SetsUp(j, a, b)
      <4>1. \A p \in Shared : SetRight(a, p) => SetRight(a, p)'
        BY <2>8 DEF SetRight
      <4>2. SetsUp(j, a, b)'
        BY <2>8, <2>9, <3>3, <4>1 DEF SetsUp
      <4>. QED
        BY <2>8, <2>11, <3>3, <4>2 DEF Stage
    <3>. QED
      BY <2>6, <2>7, <2>11, <3>1, <3>2, <3>3 DEF Stage, TakesOver, AtWork
  <2>. QED
    BY <2>3, <2>6, <2>8, <2>10, <2>11 DEF InStage, AtWork
<1>6. \A s \in InFlight' : job'[s].alone /\ Proceeds(job'[s]) => InStage(job[s])'
  BY <1>5
<1>. HIDE DEF InFlight
<1>. QED
  BY <1>2, <1>4, <1>6 DEF SyncInv

LEMMA SyncInit == HaInit => SyncInv
<1>. SUFFICES ASSUME HaInit PROVE SyncInv
  OBVIOUS
<1>1. InFlight = {}
  BY DEF HaInit, InFlight, Idle
<1>2. keepalived = [a \in Appliances |-> keepalived[a]]
  BY DEF HaInit
<1>. QED
  BY <1>1, <1>2 DEF SyncInv

LEMMA SyncNext == RoleInv /\ SyncInv /\ [HaNext]_haVars => SyncInv'
<1>. SUFFICES ASSUME RoleInv, SyncInv, [HaNext]_haVars PROVE SyncInv'
  OBVIOUS
<1>1. ASSUME NEW r \in Requests, Serve(r) PROVE SyncInv'
  BY <1>1, UpdateConfigSyncs, SendSyncs, MergeSyncs, WriteFileSyncs, FetchSyncs, SetIpSyncs,
     GenerateSyncs, WriteHaSyncs, StampSyncs DEF Serve
<1>2. CASE \E r \in Requests : Ask(r) \/ Serve(r) \/ Fail(r) \/ LoseAnswer(r)
                              \/ \E p \in Ports : SetIpUnsaved(r, p)
  BY <1>1, <1>2, AskSyncs, FailSyncs
<1>3. CASE \E a \in Appliances : Restart(a) \/ Reboot(a)
  BY <1>3, StopSyncs
<1>4. CASE UNCHANGED haVars
  <2>1. UNCHANGED <<file, merged, ip, keepalived, job>>
    BY <1>4 DEF haVars
  <2>2. InFlight' = InFlight
    BY <2>1 DEF InFlight
  <2>3. ASSUME NEW j, InStage(j) PROVE InStage(j)'
    BY <2>1, <2>3 DEF InStage, Addresses, Stage, Sends, TakesOver, Stamps, SetsUp, Peered,
       Handed, Relays, TakenOver, SetRight
  <2>4. ASSUME NEW r \in InFlight, job[r].alone
        PROVE  InFlight = {r} /\ Located(job[r]) /\ (Proceeds(job[r]) => InStage(job[r])')
    <3>1. PICK j : j = job[r]
      OBVIOUS
    <3>2. InFlight = {r} /\ Located(j) /\ (Proceeds(j) => InStage(j))
      BY <2>4, <3>1 DEF SyncInv
    <3>3. Proceeds(j) => InStage(j)'
      BY <2>3, <3>2
    <3>. QED
      BY <2>1, <3>1, <3>2, <3>3
  <2>. HIDE DEF InFlight
  <2>. QED
    BY <2>1, <2>2, <2>4 DEF SyncInv
<1>. QED
  BY <1>2, <1>3, <1>4 DEF HaNext

\* A request is taken a step by its own step only.
LEMMA OthersStep ==
    ASSUME RoleInv, NEW s \in Requests, Serve(s) \/ Ask(s), NEW r \in Requests, r # s
    PROVE  job'[r].step = job[r].step
<1>1. job = [t \in Requests |-> job[t]]
  BY DEF RoleInv, RoleShape
<1>2. PICK a : a = On(s)
  OBVIOUS
<1>3. PICK jobs : jobs = Overtaken(a, s)
  OBVIOUS
<1>4. /\ jobs = [t \in Requests |-> jobs[t]] /\ jobs[r].step = job[r].step
  BY <1>3, OvertakenRoles
<1>5. ASSUME Serve(s) PROVE job'[r] \in {job[r], jobs[r]}
  <2>1. CASE UpdateConfig(s)
    BY <1>2, <1>3, <1>4, <2>1 DEF UpdateConfig, Return
  <2>2. CASE SyncBackup(s)
    BY <1>1, <1>2, <1>3, <1>4, <2>2 DEF SyncBackup
  <2>3. CASE WriteInterfaceConfigFile(s)
    BY <1>2, <1>3, <1>4, <2>3 DEF WriteInterfaceConfigFile, Return
  <2>4. CASE \E p \in Ports : SetIpAfterSyncBackup(s, p)
    BY <1>2, <1>3, <1>4, <2>4 DEF SetIpAfterSyncBackup
  <2>5. CASE ResetKeepAlived(s) \/ CompareDeviceInfo(s) \/ SendConfigToOtherDevice(s)
             \/ HaCopyConfig(s) \/ FetchConfigs(s) \/ CreateHaConfig(s) \/ WriteHa(s)
    BY <1>1, <2>5 DEF ResetKeepAlived, CompareDeviceInfo, SendConfigToOtherDevice, HaCopyConfig,
       FetchConfigs, CreateHaConfig, WriteHa, Return
  <2>6. CASE StampOwn(s) \/ UpdateLastSyncedAt(s)
    BY <1>1, <2>6 DEF StampOwn, UpdateLastSyncedAt, Stamp
  <2>. QED
    BY <1>5, <2>1, <2>2, <2>3, <2>4, <2>5, <2>6 DEF Serve
<1>6. ASSUME Ask(s) PROVE job'[r].step = job[r].step
  <2>1. job'[r] = IF r \in InFlight THEN [job[r] EXCEPT !.alone = FALSE] ELSE job[r]
    BY <1>6 DEF Ask, AskToCreate, AskToDisable, AskToSync, Begin
  <2>2. r \in InFlight => IsJob(job[r])
    BY BusyRole DEF InFlight
  <2>. QED
    BY <2>1, <2>2 DEF IsJob
<1>. QED
  BY <1>4, <1>5, <1>6

LEMMA FaultsCounted ==
    ASSUME faults \in Nat, [HaNext]_haVars
    PROVE  /\ faults' \in Nat
           /\ faults' = faults /\ ~ UNCHANGED haVars => \E s \in Requests : Ask(s) \/ Serve(s)
<1>1. ASSUME NEW s \in Requests, Ask(s) PROVE faults' = faults
  BY <1>1 DEF Ask, AskToCreate, AskToDisable, AskToSync, Begin
<1>2. ASSUME NEW s \in Requests, Serve(s) PROVE faults' = faults
  BY <1>2 DEF Serve, UpdateConfig, ResetKeepAlived, CompareDeviceInfo, SendConfigToOtherDevice,
     HaCopyConfig, SyncBackup, WriteInterfaceConfigFile, FetchConfigs, SetIpAfterSyncBackup,
     CreateHaConfig, WriteHa, StampOwn, UpdateLastSyncedAt, Stamp
<1>3. ASSUME NEW s \in Requests, Fail(s) \/ LoseAnswer(s) \/ \E p \in Ports : SetIpUnsaved(s, p)
      PROVE  faults' = faults + 1
  BY <1>3 DEF Fail, LoseAnswer, SetIpUnsaved, Unlucky
<1>4. ASSUME NEW a \in Appliances, Restart(a) \/ Reboot(a) PROVE faults' = faults + 1
  BY <1>4 DEF Restart, Reboot, Stop, Unlucky
<1>5. UNCHANGED haVars => faults' = faults
  BY DEF haVars
<1>. QED
  BY <1>1, <1>2, <1>3, <1>4, <1>5 DEF HaNext

\* What the primary writes to keepalived.conf the peer moves already.
LEMMA LastStepAgrees ==
    ASSUME RoleInv, SyncInv, NEW r \in Requests, job[r].step = "writing", job[r].op = "local",
           job[r].alone, WriteHa(r), NEW a, a = job[r].by, DOMAIN file[a].rows = Ports
    PROVE  Agree(a, PeerOf(a))'
<1>1. UNCHANGED <<file, merged, ip>>
  BY DEF WriteHa
<1>2. PICK j, x, b : AtWork(r, j, x, b)
  BY WorkIs
<1>3. j = job[r] /\ x = a /\ b = PeerOf(a) /\ a \in Appliances /\ a # b
  BY <1>2 DEF AtWork
<1>4. Located(j) /\ (Proceeds(j) => InStage(j))
  BY <1>2, <1>3 DEF SyncInv, AtWork
<1>5. j.on = a /\ ~ j.orphan
  BY <1>2, <1>3, <1>4 DEF Located, AtWork, TypedJob
<1>6. Stage(j, a, b)
  BY <1>3, <1>4, <1>5 DEF Proceeds, SyncOps, InStage
<1>7. /\ Peered(a, b) /\ file[b].ha.synced = file[a].ha.synced
      /\ j.content = file[a] /\ \A p \in Shared : SetRight(a, p)
  BY <1>3, <1>6 DEF Stage, SetsUp
<1>8. keepalived' = [keepalived EXCEPT ![a] = Conf(file[a])]
  BY <1>2, <1>3, <1>5, <1>7 DEF WriteHa, AtWork
<1>9. keepalived'[a] = Conf(file[a]) /\ keepalived'[b] = keepalived[b]
  BY <1>3, <1>8 DEF SyncInv
<1>10. file[a].ha.monitored = file[b].ha.monitored
  BY <1>7 DEF Peered, Handed
<1>11. ASSUME NEW p \in Ports \ {Dedicated}
       PROVE  /\ file[a].rows[p] = ip[a][p] /\ file[b].rows[p] = ip[b][p]
              /\ IF p \notin DOMAIN file[a].ha.monitored THEN ip[a][p] = ip[b][p]
                 ELSE ip[b][p] = "peer" /\ ip[a][p] \in {"base", None}
              /\ p \in DOMAIN keepalived'[a].virtual =>
                    /\ p \in DOMAIN keepalived'[b].virtual
                    /\ keepalived'[a].virtual[p] = keepalived'[b].virtual[p]
  <2>1. SetRight(a, p) /\ TakenOver(a, b, p) /\ p \in Shared
    BY <1>7, <1>11 DEF Peered, Shared
  <2>2. p \in DOMAIN Conf(file[a]).virtual =>
          /\ p \in DOMAIN file[a].ha.monitored
          /\ Conf(file[a]).virtual[p] = file[a].ha.monitored[p].virtual
    BY DEF Conf
  <2>3. p \in DOMAIN file[a].ha.monitored =>
          /\ p \in DOMAIN keepalived[b].virtual
          /\ keepalived[b].virtual[p] = file[a].ha.monitored[p].virtual
    BY <1>7, <2>1 DEF Peered, Relays
  <2>4. p \in DOMAIN keepalived'[a].virtual =>
          /\ p \in DOMAIN keepalived'[b].virtual
          /\ keepalived'[a].virtual[p] = keepalived'[b].virtual[p]
    BY <1>9, <2>2, <2>3
  <2>. QED
    BY <2>1, <2>4 DEF SetRight, TakenOver
<1>12. Agree(a, b)'
  BY <1>1, <1>7, <1>10, <1>11 DEF Agree
<1>. QED
  BY <1>3, <1>12

(* A sync that ends without a failure and met no other request leaves the    *)
(* pair in agreement, whatever requests, failures, stops and restarts came   *)
(* before it.                                                                *)
THEOREM SyncsAgree == HaSpec => SyncAgrees
<1>1. ASSUME RoleInv, SyncInv, faults \in Nat, HaNext, NEW r \in InFlight, NEW a \in {job[r].by},
             job[r].op = "local", job[r].alone, At(r, "writing"), At(r, "idle")', faults' = faults,
             DOMAIN file[a].rows = Ports
      PROVE  Agree(a, PeerOf(a))'
  <2>1. r \in Requests /\ job[r].step = "writing" /\ job'[r].step = "idle"
    BY <1>1 DEF InFlight, At
  <2>2. ~ UNCHANGED haVars
    BY <2>1 DEF haVars
  <2>3. PICK s \in Requests : Ask(s) \/ Serve(s)
    BY <1>1, <2>2, FaultsCounted
  <2>4. s = r
    BY <1>1, <2>1, <2>3, OthersStep
  <2>5. WriteHa(r)
    BY <2>1, <2>3, <2>4 DEF Ask, AskToCreate, AskToDisable, AskToSync, Begin, Serve, UpdateConfig,
       ResetKeepAlived, CompareDeviceInfo, SendConfigToOtherDevice, HaCopyConfig, SyncBackup,
       WriteInterfaceConfigFile, FetchConfigs, SetIpAfterSyncBackup, CreateHaConfig, StampOwn,
       UpdateLastSyncedAt, At
  <2>. QED
    BY <1>1, <2>1, <2>5, LastStepAgrees
<1>2. RoleInv /\ SyncInv /\ faults \in Nat /\ [HaNext]_haVars =>
        [\A r \in InFlight : \A a \in {job[r].by} :
           job[r].op = "local" /\ job[r].alone /\ At(r, "writing") /\ At(r, "idle")' /\ faults' = faults
           /\ DOMAIN file[a].rows = Ports
             => Agree(a, PeerOf(a))']_haVars
  BY <1>1
<1>3. HaInit => faults \in Nat
  BY DEF HaInit
<1>4. faults \in Nat /\ [HaNext]_haVars => (faults \in Nat)'
  BY FaultsCounted
<1>. QED
  BY <1>2, <1>3, <1>4, RoleInit, RoleNext, SyncInit, SyncNext, PTL DEF HaSpec, SyncAgrees
=============================================================================
