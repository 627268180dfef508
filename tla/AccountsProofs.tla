--------------------------- MODULE AccountsProofs ---------------------------
(***************************************************************************)
(* Theorems about Accounts, for any number of requests, names, passwords   *)
(* and devices: the saves of config.yaml are atomic, and an appliance that *)
(* has a licence is not signed up for again.                               *)
(***************************************************************************)
EXTENDS Accounts, TLAPS

IsRequest(q) ==
    /\ q = [kind |-> q.kind, arg |-> q.arg, stage |-> q.stage, next |-> q.next,
            row |-> q.row, raced |-> q.raced, late |-> q.late]
    /\ q.next # "new"

\* Only a request at its save has passed rows to SaveProfile or DeleteProfile,
\* and only a signup has passed a licence.
RequestInv ==
    /\ requests = [r \in Requests |-> requests[r]]
    /\ change = [r \in Requests |-> change[r]]
    /\ \A r \in Requests :
          /\ requests[r] = New \/ (IsRequest(requests[r]) /\ ~ At(r, "new"))
          /\ change[r] # None => At(r, "save")
          /\ change[r] # None /\ change[r].license # None => requests[r].kind = "Signup"

IsWriter(w) == /\ w = [request |-> w.request, rows |-> w.rows, step |-> w.step]
               /\ w.request \in Requests /\ w.step \in WriterSteps

\* The holder of WriteMu has a change to store, and the file it will replace is
\* the one it has computed from.
WriterInv ==
    writer # Unlocked =>
        /\ IsWriter(writer)
        /\ change[writer.request] # None
        /\ writer.step \in {"licensing", "licenceTorn"} => change[writer.request].license # None
        /\ ~ Torn => writer.rows = Applied(config, change[writer.request])
        /\ Torn => config = {}

\* Once a signup is late, no signup gets past its look for a licence, so that
\* nothing touches the licence file.
LateInv ==
    \A r \in Requests : ~ At(r, "new") /\ requests[r].late =>
        /\ license # None
        /\ requests[r].kind = "Signup"
        /\ requests[r].stage \in {"licence", "failed"}
        /\ \A s \in Requests : ~ At(s, "new") /\ requests[s].kind = "Signup" =>
              requests[s].stage \in {"licence", "failed", "done"}

AccountsInv == RequestInv /\ WriterInv /\ LateInv

-----------------------------------------------------------------------------
(* What a fetch does, whatever it looks for: it ends its request, takes it *)
(* to another stage, or passes a change of its own to SaveProfile.         *)

Fetching(r) ==
    /\ requests[r].stage \notin Ends \cup {"new", "save"}
    /\ UNCHANGED <<config, license, writer>>
    /\ requests' = [requests EXCEPT ![r] = requests'[r]]
    /\ IsRequest(requests'[r])
    /\ requests'[r].stage # "new"
    /\ requests'[r].kind = requests[r].kind /\ (requests'[r].late <=> requests[r].late)
    /\ At(r, "licence") /\ requests[r].kind = "Signup" /\ license # None =>
          requests'[r].stage = "failed"
    /\ \/ change' = change
       \/ /\ change' = [change EXCEPT ![r] = change'[r]]
          /\ requests'[r].stage = "save"
          /\ change'[r].license # None => requests[r].kind = "Signup"

LEMMA GoToFetches ==
    ASSUME RequestInv, NEW r \in Requests, NEW stage,
           requests[r].stage \notin Ends \cup {"new", "save"}, stage # "new",
           At(r, "licence") /\ requests[r].kind = "Signup" /\ license # None => stage = "failed",
           GoTo(r, stage)
    PROVE  Fetching(r)
<1>1. IsRequest(requests[r])
  BY DEF RequestInv, New, Ends
<1>. QED
  BY <1>1 DEF GoTo, Fetching, RequestInv, IsRequest

LEMMA SaveAfterFetches ==
    ASSUME RequestInv, NEW r \in Requests, NEW rows, NEW next,
           requests[r].stage \notin Ends \cup {"new", "save", "licence"}, next # "new",
           SaveAfter(r, rows, next)
    PROVE  Fetching(r)
<1>1. IsRequest(requests[r])
  BY DEF RequestInv, New, Ends
<1>. QED
  BY <1>1 DEF SaveAfter, Fetching, RequestInv, IsRequest, At

LEMMA SaveOverFetches ==
    ASSUME RequestInv, NEW r \in Requests, NEW row, NEW rows, NEW next,
           requests[r].stage \notin Ends \cup {"new", "save", "licence"}, next # "new",
           SaveOver(r, row, rows, next)
    PROVE  Fetching(r)
<1>1. IsRequest(requests[r])
  BY DEF RequestInv, New, Ends
<1>. QED
  BY <1>1 DEF SaveOver, Fetching, RequestInv, IsRequest, At

Fetch(r) ==
    \/ FetchLicence(r) \/ AccountMissing(r) \/ Authenticate(r)
    \/ CompareAfterHold(r) \/ Downgrade(r) \/ ResetAdmin(r) \/ ChangePassword(r)
    \/ CheckNames(r) \/ CreateChildAdmin(r) \/ RoleNameTaken(r) \/ CreateRolePermission(r)
    \/ Signup(r) \/ UpdateAdminPersonalDetails(r) \/ CreateDevice(r) \/ UpdateDevice(r)

LEMMA FetchFetches ==
    ASSUME RequestInv, NEW r \in Requests, Fetch(r)
    PROVE  Fetching(r)
<1>1. CASE FetchLicence(r)
  BY <1>1, GoToFetches DEF FetchLicence, At, Ends
<1>2. CASE AccountMissing(r)
  BY <1>2, GoToFetches DEF AccountMissing, At, Ends
<1>3. CASE Authenticate(r)
  BY <1>3, GoToFetches, SaveOverFetches DEF Authenticate, Compare, At, Ends
<1>4. CASE CompareAfterHold(r)
  BY <1>4, SaveAfterFetches DEF CompareAfterHold, At, Ends
<1>5. CASE Downgrade(r)
  BY <1>5, GoToFetches, SaveOverFetches DEF Downgrade, At, Ends
<1>6. CASE ResetAdmin(r) \/ ChangePassword(r)
  BY <1>6, GoToFetches, SaveOverFetches DEF ResetAdmin, ChangePassword, At, Ends
<1>7. CASE CheckNames(r) \/ RoleNameTaken(r)
  BY <1>7, GoToFetches DEF CheckNames, RoleNameTaken, At, Ends
<1>8. CASE CreateChildAdmin(r)
  BY <1>8, GoToFetches, SaveAfterFetches DEF CreateChildAdmin, At, Ends
<1>9. CASE CreateRolePermission(r)
  BY <1>9, SaveAfterFetches DEF CreateRolePermission, At, Ends
<1>10. CASE Signup(r)
  <2>1. requests[r].stage \notin Ends \cup {"new", "save", "licence"}
    BY <1>10 DEF Signup, At, Ends
  <2>2. IsRequest(requests[r])
    BY <2>1 DEF RequestInv, New
  <2>. QED
    BY <1>10, <2>1, <2>2 DEF Signup, At, Fetching, RequestInv, IsRequest
<1>11. CASE UpdateAdminPersonalDetails(r) \/ UpdateDevice(r)
  BY <1>11, GoToFetches, SaveOverFetches DEF UpdateAdminPersonalDetails, UpdateDevice, At, Ends
<1>12. CASE CreateDevice(r)
  BY <1>12, GoToFetches, SaveAfterFetches DEF CreateDevice, At, Ends
<1>. QED
  BY <1>1, <1>2, <1>3, <1>4, <1>5, <1>6, <1>7, <1>8, <1>9, <1>10, <1>11, <1>12 DEF Fetch
-----------------------------------------------------------------------------
(* The invariant is inductive.                                             *)

LEMMA InitInv == AccountsInit => AccountsInv
BY DEF AccountsInit, StoreInit, AccountsInv, RequestInv, WriterInv, LateInv, At, New, Unlocked

\* The writer's request waits at its save, so that no fetch is its own.
LEMMA FetchingInv ==
    ASSUME AccountsInv, NEW r \in Requests, Fetching(r)
    PROVE  AccountsInv'
<1>. USE DEF AccountsInv
<1>1. change[r] = None
  BY DEF RequestInv, Fetching, At
<1>2. \A s \in Requests \ {r} : requests'[s] = requests[s] /\ change'[s] = change[s]
  BY DEF Fetching, RequestInv
<1>3. RequestInv'
  <2>1. requests' = [s \in Requests |-> requests'[s]] /\ change' = [s \in Requests |-> change'[s]]
    BY DEF Fetching, RequestInv
  <2>2. IsRequest(requests[r])
    BY DEF Fetching, RequestInv, New
  <2>3. /\ IsRequest(requests'[r]) /\ requests'[r].stage # "new"
        /\ change'[r] # None =>
             requests'[r].stage = "save" /\ (change'[r].license # None => requests'[r].kind = "Signup")
    BY <1>1 DEF Fetching
  <2>. QED
    BY <1>2, <2>1, <2>3 DEF RequestInv, At
<1>4. WriterInv'
  <2>1. CASE writer = Unlocked
    BY <2>1 DEF Fetching, WriterInv
  <2>2. CASE writer # Unlocked
    <3>1. writer.request \in Requests \ {r}
      BY <1>1, <2>2 DEF WriterInv, IsWriter
    <3>2. change'[writer.request] = change[writer.request]
      BY <1>2, <3>1
    <3>. QED
      BY <2>2, <3>2 DEF Fetching, WriterInv, Torn
  <2>. QED
    BY <2>1, <2>2
<1>5. LateInv'
  <2>1. \A s \in Requests :
          /\ requests'[s].kind = requests[s].kind
          /\ requests'[s].late <=> requests[s].late
          /\ requests'[s].stage = "new" <=> requests[s].stage = "new"
    BY <1>2 DEF Fetching
  <2>2. license' = license
    BY DEF Fetching
  <2>3. SUFFICES ASSUME NEW q \in Requests, ~ At(q, "new")', requests'[q].late
                 PROVE  /\ license' # None
                        /\ requests'[q].kind = "Signup"
                        /\ requests'[q].stage \in {"licence", "failed"}
                        /\ \A s \in Requests : ~ At(s, "new")' /\ requests'[s].kind = "Signup" =>
                              requests'[s].stage \in {"licence", "failed", "done"}
    BY DEF LateInv
  <2>4. /\ license # None /\ requests[q].kind = "Signup"
        /\ requests[q].stage \in {"licence", "failed"}
        /\ \A s \in Requests : requests[s].stage # "new" /\ requests[s].kind = "Signup" =>
              requests[s].stage \in {"licence", "failed", "done"}
    <3>1. requests[q].stage # "new" /\ requests[q].late
      BY <2>1, <2>3 DEF At
    <3>. QED
      BY <3>1 DEF LateInv, At
  <2>5. requests[r].kind = "Signup" => requests'[r].stage = "failed"
    BY <2>4 DEF Fetching, At, Ends
  <2>. QED
    <3>1. requests'[q].stage \in {"licence", "failed"} /\ requests'[q].kind = "Signup"
      BY <1>2, <2>1, <2>4, <2>5
    <3>2. ASSUME NEW s \in Requests, ~ At(s, "new")', requests'[s].kind = "Signup"
          PROVE  requests'[s].stage \in {"licence", "failed", "done"}
      BY <1>2, <2>1, <2>4, <2>5, <3>2 DEF At
    <3>. QED
      BY <2>2, <2>4, <3>1, <3>2
<1>. QED
  BY <1>3, <1>4, <1>5

LEMMA BeginInv ==
    ASSUME AccountsInv, NEW r \in Requests, Begin(r)
    PROVE  AccountsInv'
<1>. USE DEF AccountsInv
<1>0. PICK kind \in Kinds : \E arg \in Arguments(kind) :
        /\ requests' = [requests EXCEPT ![r] =
                [kind |-> kind, arg |-> arg, stage |-> FirstStage[kind], next |-> "done",
                 row |-> None, raced |-> FALSE,
                 late |-> /\ kind = "Signup" /\ license # None
                          /\ \A s \in Requests : InFlight(s) => requests[s].kind # "Signup"]]
        /\ change' = IF kind = "DeleteDevice"
                     THEN [change EXCEPT ![r] = [rows |-> {}, license |-> None,
                                gone |-> {[section |-> "device", key |-> arg.key]}]]
                     ELSE change
  BY DEF Begin
<1>1. PICK arg \in Arguments(kind) :
        /\ requests' = [requests EXCEPT ![r] =
                [kind |-> kind, arg |-> arg, stage |-> FirstStage[kind], next |-> "done",
                 row |-> None, raced |-> FALSE,
                 late |-> /\ kind = "Signup" /\ license # None
                          /\ \A s \in Requests : InFlight(s) => requests[s].kind # "Signup"]]
        /\ change' = IF kind = "DeleteDevice"
                     THEN [change EXCEPT ![r] = [rows |-> {}, license |-> None,
                                gone |-> {[section |-> "device", key |-> arg.key]}]]
                     ELSE change
  BY <1>0
<1>2. /\ FirstStage[kind] # "new"
      /\ kind = "Signup" => FirstStage[kind] = "licence"
      /\ kind = "DeleteDevice" => FirstStage[kind] = "save"
  <2>1. kind \in {"Login", "ResetAdmin", "ChangePassword", "Signup", "CreateChildAdmin",
                  "CreateRolePermission", "UpdateAdminPersonalDetails", "CreateDevice",
                  "DeleteDevice", "UpdateDevice"}
    BY AccountsAssumption DEF Touched
  <2>. QED
    BY <2>1 DEF FirstStage
<1>3. change[r] = None /\ requests[r].stage = "new"
  BY DEF Begin, RequestInv, At
<1>4. UNCHANGED <<config, license, writer>>
  BY DEF Begin
<1>5. \A s \in Requests \ {r} : requests'[s] = requests[s] /\ change'[s] = change[s]
  BY <1>1 DEF RequestInv
<1>6. requests'[r] = [kind |-> kind, arg |-> arg, stage |-> FirstStage[kind], next |-> "done",
                      row |-> None, raced |-> FALSE, late |-> requests'[r].late]
  <2>. DEFINE late == /\ kind = "Signup" /\ license # None
                      /\ \A s \in Requests : InFlight(s) => requests[s].kind # "Signup"
              request == [kind |-> kind, arg |-> arg, stage |-> FirstStage[kind], next |-> "done",
                          row |-> None, raced |-> FALSE, late |-> late]
  <2>1. requests'[r] = request
    <3>. HIDE DEF request
    <3>1. requests' = [requests EXCEPT ![r] = request]
      BY <1>1 DEF request
    <3>. QED
      BY <3>1 DEF RequestInv
  <2>2. request.late = late
    OBVIOUS
  <2>. QED
    BY <2>1, <2>2
<1>7. RequestInv'
  <2>1. requests' = [s \in Requests |-> requests'[s]] /\ change' = [s \in Requests |-> change'[s]]
    BY <1>1 DEF RequestInv
  <2>2. IsRequest(requests'[r]) /\ requests'[r].stage # "new"
    BY <1>2, <1>6 DEF IsRequest
  <2>3. change'[r] # None => requests'[r].stage = "save" /\ change'[r].license = None
    BY <1>1, <1>2, <1>3, <1>6 DEF RequestInv
  <2>. QED
    BY <1>5, <2>1, <2>2, <2>3 DEF RequestInv, At
<1>8. WriterInv'
  <2>1. CASE writer = Unlocked
    BY <1>4, <2>1 DEF WriterInv
  <2>2. CASE writer # Unlocked
    <3>1. writer.request \in Requests \ {r}
      BY <1>3, <2>2 DEF WriterInv, IsWriter
    <3>2. change'[writer.request] = change[writer.request]
      BY <1>5, <3>1
    <3>. QED
      BY <1>4, <2>2, <3>2 DEF WriterInv, Torn
  <2>. QED
    BY <2>1, <2>2
<1>9. LateInv'
  <2>1. requests'[r].late =>
          /\ license # None /\ kind = "Signup"
          /\ \A s \in Requests : requests[s].stage # "new" /\ requests[s].kind = "Signup" =>
                requests[s].stage \in {"failed", "done"}
    BY <1>1 DEF RequestInv, InFlight, Ends
  <2>2. requests'[r].kind = kind /\ requests'[r].stage = FirstStage[kind]
    BY <1>6
  <2>. QED
    BY <1>2, <1>4, <1>5, <2>1, <2>2 DEF LateInv, At
<1>. QED
  BY <1>7, <1>8, <1>9

\* The licence file is rewritten for a signup at its save: no signup is late.
LEMMA NobodyLate ==
    ASSUME RequestInv, LateInv, writer.request \in Requests,
           change[writer.request] # None, change[writer.request].license # None
    PROVE  \A r \in Requests : ~ (~ At(r, "new") /\ requests[r].late)
BY DEF RequestInv, LateInv, At

LEMMA LockInv ==
    ASSUME AccountsInv, NEW r \in Requests, Lock(r)
    PROVE  AccountsInv'
<1>1. RequestInv' /\ LateInv'
  BY DEF AccountsInv, Lock, LockAndRead, RequestInv, LateInv, At
<1>2. /\ writer' = [request |-> r, rows |-> Applied(config, change[r]),
                     step |-> IF change[r].license = None THEN "computed" ELSE "licensing"]
      /\ UNCHANGED <<config, change>> /\ change[r] # None
  BY DEF Lock, LockAndRead
<1>3. /\ writer'.request = r /\ writer'.rows = Applied(config, change[r])
      /\ writer'.step \in {"computed", "licensing"}
      /\ writer'.step = "licensing" => change[r].license # None
  BY <1>2
<1>4. IsWriter(writer')
  BY <1>2, <1>3 DEF IsWriter, WriterSteps
<1>. QED
  BY <1>1, <1>2, <1>3, <1>4 DEF AccountsInv, WriterInv, Torn

LEMMA LicenceStepInv ==
    ASSUME AccountsInv, LicenceStep
    PROVE  AccountsInv'
<1>1. /\ writer # Unlocked /\ ~ Torn /\ writer.step \in {"licensing", "licenceTorn"}
      /\ UNCHANGED <<config, change, requests>>
      /\ \E step \in {"licenceTorn", "computed"} : writer' = [writer EXCEPT !.step = step]
  BY DEF LicenceStep, TruncateLicence, WriteLicence, LicenceTorn, Torn, Unlocked
<1>2. IsWriter(writer) /\ change[writer.request] # None /\ change[writer.request].license # None
  BY <1>1 DEF AccountsInv, WriterInv
<1>3. RequestInv'
  BY <1>1 DEF AccountsInv, RequestInv, At
<1>4. LateInv'
  BY <1>1, <1>2, NobodyLate DEF AccountsInv, LateInv, IsWriter, At
<1>5. WriterInv'
  <2>1. PICK step \in {"licenceTorn", "computed"} : writer' = [writer EXCEPT !.step = step]
    BY <1>1
  <2>2. /\ IsWriter(writer') /\ writer'.step = step
        /\ writer'.request = writer.request /\ writer'.rows = writer.rows
    BY <1>2, <2>1 DEF IsWriter, WriterSteps
  <2>. QED
    BY <1>1, <1>2, <2>2 DEF AccountsInv, WriterInv, Torn
<1>. QED
  BY <1>3, <1>4, <1>5 DEF AccountsInv

LEMMA ConfigStepInv ==
    ASSUME AccountsInv, ConfigStep
    PROVE  AccountsInv'
<1>1. /\ writer # Unlocked /\ writer.step = "computed" /\ config' = {}
      /\ writer' = [writer EXCEPT !.step = "torn"] /\ UNCHANGED <<license, change>>
  BY DEF ConfigStep, TruncateConfig, Unlocked
<1>2. IsWriter(writer) /\ change[writer.request] # None
  BY <1>1 DEF AccountsInv, WriterInv
<1>3. /\ IsWriter(writer') /\ writer'.step = "torn" /\ writer'.request = writer.request
  BY <1>1, <1>2 DEF IsWriter, WriterSteps
<1>4. WriterInv'
  BY <1>1, <1>2, <1>3 DEF WriterInv, Torn
<1>5. requests' = [r \in Requests |->
            IF Outdates(writer.request, r) THEN [requests[r] EXCEPT !.raced = TRUE]
                                           ELSE requests[r]]
  BY DEF ConfigStep
<1>6. \A r \in Requests :
        /\ requests'[r] = requests[r] \/
             (IsRequest(requests[r]) /\ requests'[r] = [requests[r] EXCEPT !.raced = TRUE])
  <2>1. TAKE r \in Requests
  <2>2. Outdates(writer.request, r) => IsRequest(requests[r])
    BY DEF AccountsInv, RequestInv, Outdates, InFlight, New
  <2>. QED
    BY <1>5, <2>2
<1>7. \A r \in Requests :
        /\ requests'[r] = New \/ (IsRequest(requests'[r]) /\ requests'[r].stage # "new")
        /\ requests'[r].stage = requests[r].stage
        /\ requests[r].stage # "new" =>
             /\ requests'[r].kind = requests[r].kind
             /\ requests'[r].late <=> requests[r].late
  <2>1. TAKE r \in Requests
  <2>2. requests[r] = New \/ (IsRequest(requests[r]) /\ requests[r].stage # "new")
    BY DEF AccountsInv, RequestInv, At
  <2>3. CASE requests'[r] = requests[r]
    BY <2>2, <2>3
  <2>4. CASE IsRequest(requests[r]) /\ requests'[r] = [requests[r] EXCEPT !.raced = TRUE]
    BY <2>2, <2>4 DEF IsRequest, New
  <2>. QED
    BY <1>6, <2>3, <2>4
<1>8. \A r \in Requests : change[r] # None => requests[r].stage # "new"
  BY DEF AccountsInv, RequestInv, At
<1>9. RequestInv'
  BY <1>1, <1>5, <1>7, <1>8 DEF AccountsInv, RequestInv, At
<1>10. LateInv'
  BY <1>1, <1>7 DEF AccountsInv, LateInv, At
<1>. QED
  BY <1>4, <1>9, <1>10 DEF AccountsInv

\* The answer to a save: the request has no change any more and goes on.
LEMMA AnswerInv ==
    ASSUME RequestInv, LateInv, NEW r \in Requests, NEW stage, stage # "new",
           change[r] # None, change' = [change EXCEPT ![r] = None],
           requests' = [requests EXCEPT ![r].stage = stage], UNCHANGED license
    PROVE  RequestInv' /\ LateInv'
<1>1. IsRequest(requests[r]) /\ requests[r].stage = "save"
  BY DEF RequestInv, New, At
<1>3. /\ IsRequest(requests'[r]) /\ requests'[r].stage = stage /\ change'[r] = None
      /\ requests'[r].kind = requests[r].kind
      /\ requests'[r].late <=> requests[r].late
  BY <1>1 DEF RequestInv, IsRequest
<1>4. \A s \in Requests \ {r} : requests'[s] = requests[s] /\ change'[s] = change[s]
  BY DEF RequestInv
<1>5. /\ requests' = [s \in Requests |-> requests'[s]] /\ change' = [s \in Requests |-> change'[s]]
  BY DEF RequestInv
<1>6. RequestInv'
  BY <1>3, <1>4, <1>5 DEF RequestInv, At
<1>7. ASSUME NEW q \in Requests, requests'[q].stage # "new", requests'[q].late
      PROVE  /\ license # None
             /\ requests'[q].kind = "Signup"
             /\ requests'[q].stage \in {"licence", "failed"}
             /\ \A s \in Requests : requests'[s].stage # "new" /\ requests'[s].kind = "Signup" =>
                   requests'[s].stage \in {"licence", "failed", "done"}
  <2>1. requests[q].stage # "new" /\ requests[q].late
    BY <1>1, <1>3, <1>4, <1>7
  <2>2. /\ license # None /\ requests[q].kind = "Signup"
        /\ requests[q].stage \in {"licence", "failed"}
        /\ \A s \in Requests : requests[s].stage # "new" /\ requests[s].kind = "Signup" =>
              requests[s].stage \in {"licence", "failed", "done"}
    BY <2>1 DEF LateInv, At
  <2>. QED
    BY <1>1, <1>3, <1>4, <2>2
<1>8. LateInv'
  BY <1>7 DEF LateInv, At
<1>. QED
  BY <1>6, <1>8

LEMMA SavedInv ==
    ASSUME AccountsInv, NEW r \in Requests, Saved(r)
    PROVE  AccountsInv'
<1>1. /\ writer # Unlocked /\ writer.request = r /\ writer' = Unlocked
      /\ change' = [change EXCEPT ![r] = None] /\ UNCHANGED license
      /\ requests' = [requests EXCEPT ![r].stage = requests[r].next]
  BY DEF Saved, WriteConfig, Torn, Unlocked
<1>2. change[r] # None
  BY <1>1 DEF AccountsInv, WriterInv
<1>3. requests[r].next # "new"
  BY <1>2 DEF AccountsInv, RequestInv, IsRequest, New, At
<1>4. RequestInv' /\ LateInv'
  BY <1>1, <1>2, <1>3, AnswerInv DEF AccountsInv
<1>. QED
  BY <1>1, <1>4 DEF AccountsInv, WriterInv

LEMMA SaveFailsInv ==
    ASSUME AccountsInv, NEW r \in Requests, SaveFails(r)
    PROVE  AccountsInv'
<1>1. /\ writer # Unlocked /\ writer.request # r /\ change[r] # None
      /\ change' = [change EXCEPT ![r] = None] /\ UNCHANGED <<config, license, writer>>
      /\ requests' = [requests EXCEPT ![r].stage =
            IF requests[r].kind = "Login" /\ requests[r].next # "done"
            THEN requests[r].next ELSE "failed"]
  BY DEF SaveFails, LockTimeout
<1>. DEFINE stage == IF requests[r].kind = "Login" /\ requests[r].next # "done"
                     THEN requests[r].next ELSE "failed"
<1>2. requests[r].next # "new"
  BY <1>1 DEF AccountsInv, RequestInv, IsRequest, New, At
<1>3. stage # "new" /\ requests' = [requests EXCEPT ![r].stage = stage]
  BY <1>1, <1>2
<1>. HIDE DEF stage
<1>4. RequestInv' /\ LateInv'
  BY <1>1, <1>3, AnswerInv DEF AccountsInv
<1>5. change'[writer.request] = change[writer.request]
  BY <1>1 DEF AccountsInv, RequestInv, WriterInv, IsWriter
<1>. QED
  BY <1>1, <1>4, <1>5 DEF AccountsInv, WriterInv, Torn

LEMMA RestartInv ==
    ASSUME AccountsInv, Restart
    PROVE  AccountsInv'
<1>1. /\ writer' = Unlocked /\ change' = [r \in Requests |-> None] /\ UNCHANGED license
      /\ requests' = [r \in Requests |-> IF InFlight(r) THEN [requests[r] EXCEPT !.stage = "failed"]
                                                        ELSE requests[r]]
  BY DEF Restart, StopStore
<1>2. \A r \in Requests :
        /\ requests'[r] = New \/ (IsRequest(requests'[r]) /\ requests'[r].stage # "new")
        /\ requests'[r].stage = "failed" \/ requests'[r] = requests[r]
        /\ requests'[r].stage # "new" =>
             /\ requests[r].stage # "new"
             /\ requests'[r].kind = requests[r].kind
             /\ requests'[r].late <=> requests[r].late
  <2>1. TAKE r \in Requests
  <2>2. requests[r] = New \/ (IsRequest(requests[r]) /\ requests[r].stage # "new")
    BY DEF AccountsInv, RequestInv, At
  <2>3. CASE InFlight(r)
    BY <1>1, <2>2, <2>3 DEF InFlight, New, IsRequest
  <2>4. CASE ~ InFlight(r)
    BY <1>1, <2>2, <2>4
  <2>. QED
    BY <2>3, <2>4
<1>3. RequestInv'
  BY <1>1, <1>2 DEF RequestInv, At
<1>4. LateInv'
  BY <1>1, <1>2 DEF AccountsInv, LateInv, At
<1>. QED
  BY <1>1, <1>3, <1>4 DEF AccountsInv, WriterInv

LEMMA StepInv == AccountsInv /\ [AccountsNext]_accountVars => AccountsInv'
<1>. SUFFICES ASSUME AccountsInv, [AccountsNext]_accountVars PROVE AccountsInv'
  OBVIOUS
<1>1. CASE \E r \in Requests : Fetch(r)
  BY <1>1, FetchFetches, FetchingInv DEF AccountsInv
<1>2. CASE \E r \in Requests : Begin(r)
  BY <1>2, BeginInv
<1>3. CASE \E r \in Requests : Lock(r) \/ Saved(r) \/ SaveFails(r)
  BY <1>3, LockInv, SavedInv, SaveFailsInv
<1>4. CASE LicenceStep \/ ConfigStep \/ Restart
  BY <1>4, LicenceStepInv, ConfigStepInv, RestartInv
<1>5. CASE HoldElapses \/ LicenceExpires \/ UNCHANGED accountVars
  BY <1>5 DEF HoldElapses, LicenceExpires, accountVars, AccountsInv, RequestInv, WriterInv,
              LateInv, At, Torn
<1>. QED
  BY <1>1, <1>2, <1>3, <1>4, <1>5 DEF AccountsNext, RequestStep, Fetch

(* The invariant in every reachable state. *)
LEMMA AccountsInvariant == AccountsSpec => []AccountsInv
<1>. QED
  BY InitInv, StepInv, PTL DEF AccountsSpec

(* Whatever the other requests do to config.yaml, a signup that comes when  *)
(* another one has licensed the appliance never passes a change on: neither *)
(* CheckNames nor the torn config.yaml decides about it, FetchLicence does. *)
THEOREM LateSignupNeverSaves == AccountsSpec => []LateSignupRefused
<1>1. AccountsInv => LateSignupRefused
  BY DEF AccountsInv, LateInv, RequestInv, LateSignupRefused, At
<1>. QED
  BY <1>1, AccountsInvariant, PTL

-----------------------------------------------------------------------------
(* The refinement of ConfigMap.                                            *)

LEMMA InitMaps == AccountsInit => Promise!MapInit
BY DEF AccountsInit, StoreInit, Promise!MapInit, PendingChanges, Torn, Unlocked

LEMMA AskMaps ==
    ASSUME RequestInv, WriterInv, NEW r \in Requests, change[r] = None,
           UNCHANGED <<config, writer>>, change' = [change EXCEPT ![r] = change'[r]]
    PROVE  Promise!Ask(r)
<1>1. Torn => writer.request # r
  BY DEF WriterInv, Torn, Unlocked
<1>2. UNCHANGED StoredRows /\ PendingChanges[r] = None
  BY <1>1 DEF PendingChanges, StoredRows, Torn
<1>3. \A s \in Requests : PendingChanges'[s] = IF s = r THEN change'[r] ELSE PendingChanges[s]
  BY <1>1 DEF PendingChanges, Torn, RequestInv
<1>4. PendingChanges' = [PendingChanges EXCEPT ![r] = PendingChanges'[r]]
  BY <1>3 DEF PendingChanges
<1>. QED
  BY <1>2, <1>4 DEF Promise!Ask

LEMMA StepMaps ==
    AccountsInv /\ [AccountsNext]_accountVars => [Promise!MapNext]_<<StoredRows, PendingChanges>>
<1>. SUFFICES ASSUME AccountsInv, [AccountsNext]_accountVars
              PROVE  Promise!MapNext \/ UNCHANGED <<StoredRows, PendingChanges>>
  OBVIOUS
<1>. USE DEF AccountsInv
<1>1. CASE \E r \in Requests : Fetch(r)
  <2>1. PICK r \in Requests : Fetching(r)
    BY <1>1, FetchFetches
  <2>2. CASE change' = change
    BY <2>1, <2>2 DEF Fetching, StoredRows, PendingChanges, Torn
  <2>3. CASE change' = [change EXCEPT ![r] = change'[r]]
    <3>1. change[r] = None
      BY <2>1 DEF Fetching, RequestInv, At
    <3>. QED
      BY <2>1, <2>3, <3>1, AskMaps DEF Fetching, Promise!MapNext
  <2>. QED
    BY <2>1, <2>2, <2>3 DEF Fetching
<1>2. CASE \E r \in Requests : Begin(r)
  <2>1. PICK r \in Requests : Begin(r)
    BY <1>2
  <2>2. UNCHANGED <<config, writer>> /\ change[r] = None
    BY <2>1 DEF Begin, RequestInv, At
  <2>3. change' = [change EXCEPT ![r] = change'[r]]
    BY <2>1 DEF Begin, RequestInv
  <2>. QED
    BY <2>2, <2>3, AskMaps DEF Promise!MapNext
<1>3. CASE (\E r \in Requests : Lock(r)) \/ LicenceStep
  BY <1>3 DEF Lock, LockAndRead, LicenceStep, TruncateLicence, WriteLicence, LicenceTorn,
              StoredRows, PendingChanges, Torn, Unlocked, WriterInv, IsWriter
<1>4. CASE ConfigStep
  <2>1. /\ writer # Unlocked /\ ~ Torn /\ writer.step = "computed"
        /\ writer' = [writer EXCEPT !.step = "torn"] /\ UNCHANGED change
    BY <1>4 DEF ConfigStep, TruncateConfig, Unlocked, Torn
  <2>2. /\ IsWriter(writer) /\ change[writer.request] # None
        /\ writer.rows = Applied(config, change[writer.request])
    BY <2>1 DEF WriterInv
  <2>3. Torn' /\ writer'.rows = writer.rows /\ writer'.request = writer.request
    BY <2>1, <2>2 DEF IsWriter, Torn
  <2>4. Promise!Commit(writer.request)
    <3>. DEFINE w == writer.request
    <3>1. w \in Requests /\ PendingChanges[w] = change[w]
      BY <2>1, <2>2 DEF PendingChanges, IsWriter
    <3>2. StoredRows' = Applied(StoredRows, PendingChanges[w])
      BY <2>1, <2>2, <2>3, <3>1 DEF StoredRows
    <3>3. PendingChanges' = [PendingChanges EXCEPT ![w] = None]
      BY <2>1, <2>3, <3>1 DEF PendingChanges
    <3>. QED
      BY <2>2, <3>1, <3>2, <3>3 DEF Promise!Commit, Promise!Applied, Promise!Put, Promise!Without,
                               Promise!SameRow, Applied, Put, Without, SameRow
  <2>. QED
    BY <2>2, <2>4 DEF Promise!MapNext, IsWriter
<1>5. CASE \E r \in Requests : Saved(r)
  <2>1. PICK r \in Requests : Saved(r)
    BY <1>5
  <2>2. /\ Torn /\ writer.request = r /\ config' \in Overwritten(config, writer.rows)
        /\ writer' = Unlocked /\ change' = [change EXCEPT ![r] = None]
    BY <2>1 DEF Saved, WriteConfig
  <2>3. config' = writer.rows /\ ~ Torn'
    BY <2>2 DEF WriterInv, Overwritten, Torn, Unlocked
  <2>. QED
    BY <2>2, <2>3 DEF StoredRows, PendingChanges, RequestInv
<1>6. CASE \E r \in Requests : SaveFails(r)
  <2>1. PICK r \in Requests : SaveFails(r)
    BY <1>6
  <2>2. Promise!Abandon(r)
    BY <2>1 DEF SaveFails, LockTimeout, Promise!Abandon, StoredRows, PendingChanges, RequestInv, Torn
  <2>. QED
    BY <2>2 DEF Promise!MapNext
<1>7. CASE Restart
  BY <1>7 DEF Restart, StopStore, Promise!MapNext, Promise!Stop, StoredRows, PendingChanges,
              WriterInv, Torn, Unlocked
<1>8. CASE HoldElapses \/ LicenceExpires \/ UNCHANGED accountVars
  BY <1>8 DEF HoldElapses, LicenceExpires, accountVars, StoredRows, PendingChanges, Torn
<1>. QED
  BY <1>1, <1>2, <1>3, <1>4, <1>5, <1>6, <1>7, <1>8 DEF AccountsNext, RequestStep, Fetch

(* The detailed store implements the map: among any number of requests that *)
(* ask, wait for WriteMu, give up and are cut off by a restart, each save   *)
(* is applied whole, to the rows the save before it left, or not at all.    *)
THEOREM StoreImplementsMap == AccountsSpec => SavesAreAtomic
<1>. QED
  BY InitMaps, StepMaps, AccountsInvariant, PTL
  DEF AccountsSpec, SavesAreAtomic, Promise!MapSpec, Promise!mapVars
-----------------------------------------------------------------------------
(* The rows of the file, and what a request knows of them.                 *)

RowFields ==
    [auth |-> {"section", "key", "name", "password", "attempts", "since", "super"},
     admin |-> {"section", "key", "name", "role"}, role |-> {"section", "key", "name"},
     permission |-> {"section", "key", "level"}, device |-> {"section", "key", "serial", "ip"}]

IsRow(x) ==
    /\ x.section \in Sections /\ x.key \in Keys
    /\ DOMAIN x = RowFields[x.section] /\ x = [f \in DOMAIN x |-> x[f]]
    /\ x.section = "auth" => x.attempts \in 0..InvalidPasswordLimit
AreRows(rows) == \A x \in rows : IsRow(x) /\ \A y \in rows : SameRow(x, y) => x = y

NamedSections == {"auth", "role", "device"}
\* y takes the place of x: it has the same name, and other fields as the request may.
Replaces(y, x, fields) ==
    /\ SameRow(x, y) /\ \A f \in DOMAIN x : x[f] = y[f] \/ f \in fields
    /\ x.section \in NamedSections => Identity(x) = Identity(y)

StagesOf ==
    [Login |-> {"licence", "account", "compare", "permissions"},
     ResetAdmin |-> {"licence", "account"}, ChangePassword |-> {"account"},
     Signup |-> {"licence", "names", "roleName"}, CreateChildAdmin |-> {"names", "references"},
     CreateRolePermission |-> {"roleName"}, UpdateAdminPersonalDetails |-> {"admin"},
     CreateDevice |-> {"serial"}, DeleteDevice |-> {}, UpdateDevice |-> {"device"}]

\* A login that waits for the save of a counter it has cleared, or has its answer.
Clears(q, c) == q.stage = "compare" \/ (c # None /\ q.next = "compare")

IsChange(q, c) ==
    /\ AreRows(c.rows) /\ \A x \in c.rows : x.section \in Touched[q.kind]
    /\ c.license \in {None, "key"}
    /\ IF q.kind = "DeleteDevice" THEN c.rows = {} /\ \A x \in c.gone : x.section = "device"
                                  ELSE c.gone = {}

\* A request, and what it has passed on, whatever the others do.
IsTyped(q, c) ==
    /\ q.kind \in Kinds /\ q.raced \in BOOLEAN
    /\ q.stage \in StagesOf[q.kind] \cup Ends \cup {"save"}
    /\ q.next \in {"done"} \cup (IF q.kind = "Login" THEN {"failed", "compare", "permissions"} ELSE {})
    /\ q.kind = "ResetAdmin" => q.arg.name = DefaultName
    /\ Clears(q, c) => /\ IsRow(q.row) /\ q.row.section = "auth" /\ q.row.attempts = 0
                       /\ c # None => c.rows = {q.row}
    /\ c # None => IsChange(q, c)

TypeInv ==
    /\ \A r \in Requests : ~ At(r, "new") => IsTyped(requests[r], change[r])
    /\ AreRows(StoredRows)
    /\ license \in {None, "key"} /\ epoch \in 1..MaxEpoch /\ wrong \in Nat

\* The keys of what a request has in hand.
Avoids(q, c, k) ==
    /\ c # None => \A x \in c.rows : x.key # k
    /\ Clears(q, c) => q.row.key # k

Owns(r) == Torn /\ writer.request = r

\* The key of r is new until r has saved; a login saves no row of its own.
Unwritten(r) == At(r, "new") \/ (InFlight(r) /\ (Owns(r) => requests[r].kind = "Login"))
KeyInv ==
    \A r \in Requests : Unwritten(r) =>
        /\ \A x \in StoredRows : x.key # r
        /\ \A s \in Requests : s # r \/ (~ At(r, "new") /\ requests[r].kind = "Login") =>
              Avoids(requests[s], change[s], r)

\* What a save that nobody overtook does to the rows.
Fits(r, rows, stored, fields) ==
    \A x \in rows :
        \/ /\ x.key = r
           /\ x.section \in NamedSections =>
                 \A y \in stored : y.section = x.section => Identity(y) # Identity(x)
        \/ \E y \in stored : Replaces(x, y, fields)

\* A wrong password adds to the attempts in the file.
Counts(q, rows, w) ==
    q.kind = "Login" /\ q.next = "failed" =>
        \A x \in rows : x.section = "auth" /\ x.key = Seed => w + 1 <= x.attempts

\* The row a login has cleared is the one of the file, but for the counter.
Clear(row, stored) == \E y \in stored : Replaces(row, y, {"attempts", "since"})

\* What an undisturbed request r may rest on, if it is as q and has passed c on.
IsAlone(r, q, c) ==
    /\ c # None /\ ~ Owns(r) =>
          Fits(r, c.rows, StoredRows, Fields(q.kind)) /\ Counts(q, c.rows, wrong)
    /\ Clears(q, c) =>
          /\ Clear(q.row, StoredRows)
          /\ (q.stage = "compare" \/ Owns(r)) /\ q.row.key = Seed => wrong = 0
    /\ (q.stage = "roleName" /\ q.kind = "Signup") \/ q.stage = "references" =>
          \A y \in StoredRows : y.section = "auth" => y.name # q.arg.name

AloneInv ==
    \A r \in Requests : InFlight(r) /\ ~ requests[r].raced => IsAlone(r, requests[r], change[r])

WrongInv == \A x \in StoredRows : x.section = "auth" /\ x.key = Seed => wrong <= x.attempts

RowsInv == TypeInv /\ KeyInv /\ AloneInv /\ WrongInv

-----------------------------------------------------------------------------
(* What Put and its kin do to rows.                                        *)

LEMMA AppliedIsFromBoth ==
    ASSUME NEW content, NEW c, NEW x \in Applied(content, c)
    PROVE  \/ x \in c.rows
           \/ x \in content /\ ~ \E y \in c.rows : SameRow(x, y)
BY DEF Applied, Put, Without, SameRow

LEMMA AppliedKeeps ==
    ASSUME NEW content, NEW c, c.gone = {}, NEW x \in content
    PROVE  x \in Applied(content, c) \/ \E y \in c.rows : SameRow(x, y) /\ y \in Applied(content, c)
BY DEF Applied, Put, Without, SameRow

LEMMA AppliedElsewhere ==
    ASSUME NEW content, NEW c, NEW section, \A x \in c.rows \cup c.gone : x.section # section
    PROVE  \A x : x.section = section => (x \in Applied(content, c) <=> x \in content)
BY DEF Applied, Put, Without, SameRow

LEMMA AppliedAreRows ==
    ASSUME NEW content, NEW c, AreRows(content), AreRows(c.rows)
    PROVE  AreRows(Applied(content, c))
<1>1. SUFFICES ASSUME NEW x \in Applied(content, c), NEW y \in Applied(content, c), SameRow(x, y)
               PROVE  x = y
  BY AppliedIsFromBoth DEF AreRows
<1>. QED
  BY <1>1, AppliedIsFromBoth DEF AreRows, SameRow

LEMMA RowOfSection ==
    ASSUME NEW x, IsRow(x)
    PROVE  /\ x.section = "auth" => DOMAIN x = {"section", "key", "name", "password", "attempts", "since", "super"}
           /\ x.section = "admin" => DOMAIN x = {"section", "key", "name", "role"}
           /\ x.section = "permission" => DOMAIN x = {"section", "key", "level"}
           /\ x.section = "device" => DOMAIN x = {"section", "key", "serial", "ip"}
BY DEF IsRow, RowFields

\* A row with some fields replaced.
LEMMA RowChanged ==
    ASSUME NEW x, IsRow(x), NEW y, NEW fields,
           y = [f \in DOMAIN x |-> y[f]], \A f \in DOMAIN x : y[f] = x[f] \/ f \in fields,
           "section" \notin fields, "key" \notin fields,
           x.section \in NamedSections => Identity(x) = Identity(y),
           x.section = "auth" => y.attempts \in 0..InvalidPasswordLimit
    PROVE  IsRow(y) /\ SameRow(x, y) /\ Replaces(y, x, fields)
<1>1. {"section", "key"} \subseteq DOMAIN x
  BY DEF IsRow, RowFields, Sections
<1>2. x.section = y.section /\ x.key = y.key /\ DOMAIN y = DOMAIN x
  BY <1>1
<1>3. y = [f \in DOMAIN y |-> y[f]]
  BY <1>2
<1>. QED
  BY <1>2, <1>3 DEF IsRow, SameRow, Replaces

LEMMA ClearedRow ==
    ASSUME NEW x, IsRow(x), x.section = "auth"
    PROVE  LET y == ClearTimeout(x) IN
           /\ IsRow(y) /\ SameRow(x, y) /\ Replaces(y, x, {"attempts", "since"})
           /\ y.attempts = 0 /\ y.name = x.name
<1>. DEFINE y == ClearTimeout(x)
<1>1. /\ DOMAIN x = {"section", "key", "name", "password", "attempts", "since", "super"}
      /\ x = [f \in DOMAIN x |-> x[f]]
  BY RowOfSection DEF IsRow
<1>2. y = [f \in DOMAIN x |-> IF f = "since" THEN epoch ELSE IF f = "attempts" THEN 0 ELSE x[f]]
  BY <1>1 DEF ClearTimeout
<1>. HIDE DEF y
<1>3. /\ \A f \in DOMAIN x : y[f] = x[f] \/ f \in {"attempts", "since"}
      /\ y.attempts = 0 /\ y.name = x.name /\ y.section = "auth"
  BY <1>1, <1>2
<1>4. y = [f \in DOMAIN x |-> y[f]] /\ y.attempts \in 0..InvalidPasswordLimit
  BY <1>2, <1>3, AccountsAssumption
<1>5. Identity(x) = Identity(y)
  BY <1>3 DEF Identity
<1>6. IsRow(y) /\ SameRow(x, y) /\ Replaces(y, x, {"attempts", "since"})
  BY <1>3, <1>4, <1>5, RowChanged
<1>. QED
  BY <1>3, <1>6 DEF y

LEMMA CountedRow ==
    ASSUME NEW x, IsRow(x), x.section = "auth", ~ Limited(x)
    PROVE  LET y == InvalidAttempted(x) IN
           /\ IsRow(y) /\ SameRow(x, y) /\ Replaces(y, x, {"attempts", "since"})
           /\ y.attempts = x.attempts + 1
<1>. DEFINE y == InvalidAttempted(x)
<1>1. /\ DOMAIN x = {"section", "key", "name", "password", "attempts", "since", "super"}
      /\ x = [f \in DOMAIN x |-> x[f]] /\ x.attempts \in 0..InvalidPasswordLimit
  BY RowOfSection DEF IsRow
<1>2. y = [f \in DOMAIN x |-> IF f = "since" THEN epoch
                              ELSE IF f = "attempts" THEN x.attempts + 1 ELSE x[f]]
  BY <1>1 DEF InvalidAttempted
<1>. HIDE DEF y
<1>3. /\ \A f \in DOMAIN x : y[f] = x[f] \/ f \in {"attempts", "since"}
      /\ y.attempts = x.attempts + 1 /\ y.name = x.name /\ y.section = "auth"
  BY <1>1, <1>2
<1>4. y.attempts \in 0..InvalidPasswordLimit
  BY <1>1, <1>3, AccountsAssumption DEF Limited
<1>5. y = [f \in DOMAIN x |-> y[f]]
  BY <1>2
<1>6. Identity(x) = Identity(y)
  BY <1>3 DEF Identity
<1>7. IsRow(y) /\ SameRow(x, y) /\ Replaces(y, x, {"attempts", "since"})
  BY <1>3, <1>4, <1>5, <1>6, RowChanged
<1>. QED
  BY <1>3, <1>7 DEF y

\* A row of which one other field is replaced.
LEMMA FieldReplaced ==
    ASSUME NEW x, IsRow(x), NEW f, NEW v, f \notin {"section", "key", "attempts"},
           x.section = "device" => f # "serial", x.section \in {"auth", "role"} => f # "name"
    PROVE  LET y == [x EXCEPT ![f] = v] IN IsRow(y) /\ SameRow(x, y) /\ Replaces(y, x, {f})
<1>. DEFINE y == [x EXCEPT ![f] = v]
<1>1. x = [g \in DOMAIN x |-> x[g]]
  BY DEF IsRow
<1>2. y = [g \in DOMAIN x |-> IF g = f THEN v ELSE x[g]]
  BY <1>1
<1>. HIDE DEF y
<1>3. \A g \in DOMAIN x : y[g] = x[g] \/ g \in {f}
  BY <1>2
<1>4. /\ x.section = "auth" => DOMAIN x = {"section", "key", "name", "password", "attempts", "since", "super"}
      /\ x.section = "role" => DOMAIN x = {"section", "key", "name"}
      /\ x.section = "device" => DOMAIN x = {"section", "key", "serial", "ip"}
      /\ {"section", "key"} \subseteq DOMAIN x
      /\ x.section = "auth" => x.attempts \in 0..InvalidPasswordLimit
  BY DEF IsRow, RowFields, Sections
<1>5. y.section = x.section
  BY <1>2, <1>4
<1>6. x.section = "auth" => y.attempts = x.attempts
  BY <1>2, <1>4
<1>7. x.section \in NamedSections => Identity(x) = Identity(y)
  BY <1>2, <1>4, <1>5 DEF NamedSections, Identity
<1>8. y = [g \in DOMAIN x |-> y[g]]
  BY <1>2
<1>. QED
  BY <1>3, <1>4, <1>6, <1>7, <1>8, RowChanged DEF y

-----------------------------------------------------------------------------
(* What a fetch must take care of: its own request, as nothing else moves. *)

LEMMA SameRows ==
    ASSUME UNCHANGED <<config, writer>>
    PROVE  /\ StoredRows' = StoredRows
           /\ \A s \in Requests : Owns(s)' <=> Owns(s)
BY DEF StoredRows, Owns, Torn

LEMMA FetchKeeps ==
    ASSUME AccountsInv, RowsInv, NEW r \in Requests, requests[r].stage \notin Ends,
           change[r] = None, NEW q, NEW c, requests' = [requests EXCEPT ![r] = q], change' = [change EXCEPT ![r] = c],
           UNCHANGED <<config, license, writer, epoch, expired, wrong>>,
           q.stage # "new", IsTyped(q, c),
           \A s \in Requests : Unwritten(s) /\ (s # r \/ q.kind = "Login") => Avoids(q, c, s),
           q.stage \notin Ends /\ ~ q.raced => IsAlone(r, q, c)
    PROVE  RowsInv'
<1>1. /\ requests'[r] = q /\ change'[r] = c
      /\ \A s \in Requests : s # r => requests'[s] = requests[s] /\ change'[s] = change[s]
  BY DEF AccountsInv, RequestInv
<1>2. /\ StoredRows' = StoredRows /\ \A s \in Requests : Owns(s)' <=> Owns(s)
      /\ \A kind : Fields(kind)' = Fields(kind)
  BY SameRows DEF Fields
<1>3. ~ Owns(r) /\ Unwritten(r)
  BY DEF AccountsInv, WriterInv, Owns, Torn, Unlocked, InFlight, At, Unwritten
<1>4. TypeInv'
  BY <1>1, <1>2 DEF RowsInv, TypeInv, At
<1>5. \A s \in Requests : (At(s, "new")' => At(s, "new")) /\ (Unwritten(s)' => Unwritten(s))
  BY <1>1, <1>2, <1>3 DEF Unwritten, InFlight, At
<1>6. KeyInv'
  <2>1. SUFFICES ASSUME NEW s \in Requests, Unwritten(s)', NEW t \in Requests,
                        t # s \/ (~ At(s, "new")' /\ requests'[s].kind = "Login")
                 PROVE  Avoids(requests'[t], change'[t], s)
    BY <1>2, <1>5 DEF KeyInv, RowsInv
  <2>2. CASE t = r
    BY <1>1, <1>5, <2>1, <2>2
  <2>3. CASE t # r
    <3>1. t # s \/ (~ At(s, "new") /\ requests[s].kind = "Login")
      BY <1>1, <2>1, <2>3 DEF At
    <3>. QED
      BY <1>1, <1>5, <2>1, <2>3, <3>1 DEF KeyInv, RowsInv
  <2>. QED
    BY <2>2, <2>3
<1>7. AloneInv'
  <2>1. SUFFICES ASSUME NEW s \in Requests, InFlight(s)', ~ requests'[s].raced
                 PROVE  IsAlone(s, requests[s], change[s])'
    BY DEF AloneInv
  <2>2. IsAlone(s, requests'[s], change'[s])
    <3>1. CASE s = r
      BY <1>1, <2>1, <3>1 DEF InFlight
    <3>2. CASE s # r
      BY <1>1, <2>1, <3>2 DEF InFlight, AloneInv, RowsInv
    <3>. QED
      BY <3>1, <3>2
  <2>. QED
    BY <1>2, <2>2 DEF IsAlone
<1>8. WrongInv'
  BY <1>2 DEF WrongInv, RowsInv
<1>. QED
  BY <1>4, <1>6, <1>7, <1>8 DEF RowsInv

\* A request in the middle of its look-ups.
LEMMA Looking ==
    ASSUME AccountsInv, RowsInv, NEW r \in Requests,
           requests[r].stage \notin Ends \cup {"new", "save"}
    PROVE  /\ InFlight(r) /\ change[r] = None /\ IsRequest(requests[r])
           /\ IsTyped(requests[r], change[r]) /\ requests[r].stage \in StagesOf[requests[r].kind]
           /\ Torn => config = {}
           /\ ~ Torn => StoredRows = config
BY DEF InFlight, AccountsInv, RequestInv, RowsInv, TypeInv, At, New, Ends, IsTyped, WriterInv,
       StoredRows, Torn, Unlocked

LEMMA GoToKeeps ==
    ASSUME AccountsInv, RowsInv, NEW r \in Requests, NEW stage, GoTo(r, stage),
           requests[r].stage \notin Ends \cup {"new", "save"},
           stage \in StagesOf[requests[r].kind] \cup Ends, stage \notin {"new", "save", "compare"},
           (stage = "roleName" /\ requests[r].kind = "Signup") \/ stage = "references" =>
              \A y \in config : y.section = "auth" => y.name # requests[r].arg.name
    PROVE  RowsInv'
<1>. DEFINE q == [requests[r] EXCEPT !.stage = stage, !.raced = @ \/ Torn]
<1>1. requests' = [requests EXCEPT ![r] = q] /\ change' = [change EXCEPT ![r] = None]
  BY Looking DEF GoTo, AccountsInv, RequestInv
<1>2. /\ q.stage = stage /\ q.kind = requests[r].kind /\ q.next = requests[r].next
      /\ q.arg = requests[r].arg /\ q.raced = (requests[r].raced \/ Torn)
  BY Looking DEF IsRequest
<1>. HIDE DEF q
<1>3. IsTyped(q, None)
  <2>1. q.raced \in BOOLEAN
    BY <1>2, Looking DEF IsTyped, Torn
  <2>. QED
    BY <1>2, <2>1, Looking DEF IsTyped, Clears
<1>4. \A s \in Requests : Avoids(q, None, s)
  BY <1>2 DEF Avoids, Clears
<1>5. ~ q.raced => IsAlone(r, q, None)
  BY <1>2, Looking DEF IsAlone, Clears
<1>. QED
  BY <1>1, <1>2, <1>3, <1>4, <1>5, FetchKeeps, Looking DEF GoTo

\* The changes of SaveAfter and SaveOver; without Torn the rows are those of the file.
LEMMA SaveKeeps ==
    ASSUME AccountsInv, RowsInv, NEW r \in Requests, NEW q, NEW rows, NEW key,
           requests[r].stage \notin Ends \cup {"new", "save"},
           q.stage = "save", q.kind = requests[r].kind, q.arg = requests[r].arg,
           key \in {None, "key"},
           requests' = [requests EXCEPT ![r] = q],
           change' = [change EXCEPT ![r] = [rows |-> rows, gone |-> {}, license |-> key]],
           UNCHANGED <<config, license, writer, epoch, expired, wrong>>,
           q.raced \in BOOLEAN, Torn => q.raced, requests[r].kind # "DeleteDevice",
           q.next \in {"done"} \cup (IF q.kind = "Login" THEN {"failed", "compare", "permissions"} ELSE {}),
           AreRows(rows), \A x \in rows : x.section \in Touched[q.kind],
           q.next = "compare" =>
              IsRow(q.row) /\ q.row.section = "auth" /\ q.row.attempts = 0 /\ rows = {q.row},
           \A x \in rows, s \in Requests :
              Unwritten(s) /\ (s # r \/ q.kind = "Login") => x.key # s,
           ~ q.raced => /\ Fits(r, rows, config, Fields(q.kind))
                        /\ Counts(q, rows, wrong)
                        /\ q.next = "compare" => Clear(q.row, config)
    PROVE  RowsInv'
<1>. DEFINE c == [rows |-> rows, gone |-> {}, license |-> key]
<1>1. c.rows = rows /\ c.gone = {} /\ c.license = key /\ change' = [change EXCEPT ![r] = c]
  OBVIOUS
<1>. HIDE DEF c
<1>2. IsTyped(q, c)
  BY <1>1, Looking DEF IsTyped, Clears, IsChange
<1>3. \A s \in Requests : Unwritten(s) /\ (s # r \/ q.kind = "Login") => Avoids(q, c, s)
  BY <1>1 DEF Avoids, Clears
<1>4. ~ q.raced => IsAlone(r, q, c)
  BY <1>1, Looking DEF IsAlone, Clears, Owns
<1>. QED
  BY <1>1, <1>2, <1>3, <1>4, FetchKeeps, Looking

LEMMA KindOfStage ==
    ASSUME NEW q, q.kind \in Kinds, q.stage \in StagesOf[q.kind]
    PROVE  /\ q.kind \in DOMAIN Touched
           /\ q.stage \in {"references"} => q.kind = "CreateChildAdmin"
           /\ q.stage = "names" => q.kind \in {"Signup", "CreateChildAdmin"}
           /\ q.stage = "roleName" => q.kind \in {"Signup", "CreateRolePermission"}
           /\ q.stage = "admin" => q.kind = "UpdateAdminPersonalDetails"
           /\ q.stage = "serial" => q.kind = "CreateDevice"
           /\ q.stage = "device" => q.kind = "UpdateDevice"
           /\ q.stage \in {"compare", "permissions"} => q.kind = "Login"
           /\ q.stage = "account" => q.kind \in {"Login", "ResetAdmin", "ChangePassword"}
           /\ q.stage = "licence" => q.kind \in {"Login", "ResetAdmin", "Signup"}
           /\ q.kind # "DeleteDevice"
<1>1. q.kind \in DOMAIN Touched
  BY AccountsAssumption
<1>. QED
  BY <1>1 DEF Touched, StagesOf

\* A row of the file is to be replaced by y.
LEMMA OverKeeps ==
    ASSUME AccountsInv, RowsInv, NEW r \in Requests, NEW row, NEW y, NEW next, NEW x \in config,
           NEW fields,
           requests[r].stage \notin Ends \cup {"new", "save"},
           SaveOver(r, row, {y}, next),
           next \in {"done"} \cup (IF requests[r].kind = "Login" THEN {"failed", "compare", "permissions"} ELSE {}),
           IsRow(y), Replaces(y, x, fields), fields \subseteq Fields(requests[r].kind),
           x.section \in Touched[requests[r].kind],
           next = "compare" => /\ row = y /\ y.section = "auth" /\ y.attempts = 0
                               /\ fields = {"attempts", "since"},
           next = "failed" /\ x.section = "auth" => y.attempts = x.attempts + 1
    PROVE  RowsInv'
<1>. DEFINE q == [requests[r] EXCEPT !.stage = "save", !.next = next, !.row = row, !.raced = Torn]
            rows == {y}
<1>1. /\ requests' = [requests EXCEPT ![r] = q]
      /\ change' = [change EXCEPT ![r] = [rows |-> rows, gone |-> {}, license |-> None]]
      /\ UNCHANGED <<config, license, writer, epoch, expired, wrong>>
  BY DEF SaveOver
<1>2. ~ Torn /\ StoredRows = config
  BY Looking
<1>3. /\ q.stage = "save" /\ q.kind = requests[r].kind /\ q.arg = requests[r].arg
      /\ q.next = next /\ q.row = row /\ q.raced = Torn
  BY Looking DEF IsRequest
<1>. HIDE DEF q
<1>4. y.section = x.section /\ y.key = x.key
  BY DEF Replaces, SameRow
<1>5. AreRows(rows) /\ \A z \in rows : z.section \in Touched[q.kind]
  BY <1>3, <1>4 DEF AreRows
<1>6. \A z \in rows, s \in Requests : Unwritten(s) /\ (s # r \/ q.kind = "Login") => z.key # s
  BY <1>2, <1>4 DEF RowsInv, KeyInv
<1>7. Fits(r, rows, config, Fields(q.kind))
  BY <1>3 DEF Fits, Replaces
<1>8. x.section = "auth" /\ x.key = Seed => wrong <= x.attempts /\ x.attempts \in Nat /\ wrong \in Nat
  BY <1>2 DEF RowsInv, WrongInv, TypeInv, AreRows, IsRow
<1>9. Counts(q, rows, wrong)
  BY <1>3, <1>4, <1>8 DEF Counts
<1>10. next = "compare" => Clear(row, config)
  BY DEF Clear
<1>11. q.raced \in BOOLEAN /\ requests[r].kind # "DeleteDevice"
  BY <1>3, Looking, KindOfStage DEF Torn, IsTyped
<1>12. q.next = "compare" =>
          /\ IsRow(q.row) /\ q.row.section = "auth" /\ q.row.attempts = 0
          /\ rows = {q.row} /\ Clear(q.row, config)
  BY <1>3, <1>10
<1>13. q.next \in {"done"} \cup (IF q.kind = "Login" THEN {"failed", "compare", "permissions"} ELSE {})
  BY <1>3
<1>. HIDE DEF rows
<1>14. Torn => q.raced
  BY <1>2
<1>15. None \in {None, "key"}
  OBVIOUS
<1>. QED
  BY <1>1, <1>3, <1>5, <1>6, <1>7, <1>9, <1>11, <1>12, <1>13, <1>14, <1>15, SaveKeeps

LEMMA AuthenticateKeeps ==
    ASSUME AccountsInv, RowsInv, NEW r \in Requests, Authenticate(r)
    PROVE  RowsInv'
<1>1. /\ requests[r].kind = "Login" /\ requests[r].stage = "account"
      /\ requests[r].stage \notin Ends \cup {"new", "save"}
  BY DEF Authenticate, At, Ends
<1>2. "auth" \in Touched["Login"] /\ {"attempts", "since"} \subseteq Fields("Login")
  BY DEF Touched, Fields
<1>3. PICK row \in AccountsOf(r) :
          \/ Limited(row) /\ Held(row) /\ GoTo(r, "failed")
          \/ Limited(row) /\ ~ Held(row)
             /\ SaveOver(r, ClearTimeout(row), {ClearTimeout(row)}, "compare")
          \/ ~ Limited(row) /\ Compare(r, row)
  BY DEF Authenticate
<1>4. row \in config /\ row.section = "auth" /\ IsRow(row)
  BY <1>1, <1>3, Looking DEF AccountsOf, Named, RowsInv, TypeInv, AreRows
<1>5. CASE GoTo(r, "failed")
  BY <1>1, <1>5, GoToKeeps DEF Ends
<1>6. CASE SaveOver(r, ClearTimeout(row), {ClearTimeout(row)}, "compare")
  <2>. DEFINE y == ClearTimeout(row)
  <2>1. IsRow(y) /\ SameRow(row, y) /\ Replaces(y, row, {"attempts", "since"}) /\ y.attempts = 0
    BY <1>4, ClearedRow
  <2>2. SaveOver(r, y, {y}, "compare")
    BY <1>6
  <2>. HIDE DEF y
  <2>. QED
    BY <1>1, <1>2, <1>4, <2>1, <2>2, OverKeeps DEF SameRow
<1>7. CASE ~ Limited(row) /\ Compare(r, row)
  <2>1. CASE SaveOver(r, row, {ClearTimeout(row)}, "permissions")
    <3>. DEFINE y == ClearTimeout(row)
    <3>1. IsRow(y) /\ Replaces(y, row, {"attempts", "since"})
      BY <1>4, ClearedRow
    <3>2. SaveOver(r, row, {y}, "permissions")
      BY <2>1
    <3>. HIDE DEF y
    <3>. QED
      BY <1>1, <1>2, <1>4, <3>1, <3>2, OverKeeps
  <2>2. CASE SaveOver(r, row, {InvalidAttempted(row)}, "failed")
    <3>. DEFINE y == InvalidAttempted(row)
    <3>1. IsRow(y) /\ Replaces(y, row, {"attempts", "since"}) /\ y.attempts = row.attempts + 1
      BY <1>4, <1>7, CountedRow
    <3>2. SaveOver(r, row, {y}, "failed")
      BY <2>2
    <3>. HIDE DEF y
    <3>. QED
      BY <1>1, <1>2, <1>4, <3>1, <3>2, OverKeeps
  <2>. QED
    BY <1>7, <2>1, <2>2 DEF Compare
<1>. QED
  BY <1>3, <1>5, <1>6, <1>7

\* Fetches that only decide about the next look-up.
LEMMA LookUpsKeep ==
    ASSUME AccountsInv, RowsInv, NEW r \in Requests,
           FetchLicence(r) \/ AccountMissing(r) \/ CheckNames(r) \/ RoleNameTaken(r)
    PROVE  RowsInv'
<1>. DEFINE q == requests[r]
<1>1. q.stage \in {"licence", "account", "names", "roleName"}
  BY DEF FetchLicence, AccountMissing, CheckNames, RoleNameTaken, At
<1>2. q.stage \notin Ends \cup {"new", "save"}
  BY <1>1 DEF Ends
<1>3. q.kind \in Kinds /\ q.stage \in StagesOf[q.kind]
  BY <1>2, Looking DEF IsTyped
<1>4. CASE FetchLicence(r)
  <2>1. q.kind = "Signup" => "names" \in StagesOf[q.kind]
    BY DEF StagesOf
  <2>2. q.kind # "Signup" => "account" \in StagesOf[q.kind]
    BY <1>3, <1>4, KindOfStage DEF StagesOf, FetchLicence, At
  <2>. QED
    BY <1>2, <1>4, <2>1, <2>2, GoToKeeps DEF FetchLicence, Ends
<1>5. CASE AccountMissing(r) \/ RoleNameTaken(r)
  BY <1>2, <1>5, GoToKeeps DEF AccountMissing, RoleNameTaken, Ends
<1>6. CASE CheckNames(r)
  <2>1. /\ q.kind \in {"Signup", "CreateChildAdmin"}
        /\ \/ GoTo(r, "failed")
           \/ /\ Named("auth", q.arg.name) = {}
              /\ GoTo(r, IF q.kind = "Signup" THEN "roleName" ELSE "references")
    BY <1>3, <1>6, KindOfStage DEF CheckNames, At
  <2>2. Named("auth", q.arg.name) = {} => \A y \in config : y.section = "auth" => y.name # q.arg.name
    BY DEF Named
  <2>3. /\ q.kind = "Signup" => "roleName" \in StagesOf[q.kind]
        /\ q.kind = "CreateChildAdmin" => "references" \in StagesOf[q.kind]
    BY DEF StagesOf
  <2>. QED
    BY <1>2, <2>1, <2>2, <2>3, GoToKeeps DEF Ends
<1>. QED
  BY <1>4, <1>5, <1>6

\* The password is compared after the counter was cleared: the row may be old.
LEMMA CompareAfterHoldKeeps ==
    ASSUME AccountsInv, RowsInv, NEW r \in Requests, CompareAfterHold(r)
    PROVE  RowsInv'
<1>. DEFINE row == requests[r].row
<1>1. /\ requests[r].stage = "compare"
      /\ requests[r].stage \notin Ends \cup {"new", "save"}
      /\ \/ SaveAfter(r, {ClearTimeout(row)}, "permissions")
         \/ SaveAfter(r, {InvalidAttempted(row)}, "failed")
  BY DEF CompareAfterHold, At, Ends
<1>2. /\ requests[r].kind = "Login" /\ IsRow(row) /\ row.section = "auth" /\ row.attempts = 0
  BY <1>1, Looking, KindOfStage DEF IsTyped, Clears
<1>3. \A s \in Requests : Unwritten(s) => row.key # s
  BY <1>1, <1>2 DEF RowsInv, KeyInv, Avoids, Clears, At
<1>4. ~ requests[r].raced => Clear(row, StoredRows) /\ (row.key = Seed => wrong = 0)
  BY <1>1, Looking DEF RowsInv, AloneInv, IsAlone, Clears, At
<1>5. PICK y, next :
        /\ SaveAfter(r, {y}, next) /\ next \in {"permissions", "failed"}
        /\ IsRow(y) /\ Replaces(y, row, {"attempts", "since"})
        /\ next = "failed" => y.attempts = 1
  <2>1. CASE SaveAfter(r, {ClearTimeout(row)}, "permissions")
    <3>. DEFINE y == ClearTimeout(row)
    <3>1. IsRow(y) /\ Replaces(y, row, {"attempts", "since"}) /\ SaveAfter(r, {y}, "permissions")
      BY <1>2, <2>1, ClearedRow
    <3>. HIDE DEF y
    <3>. QED
      BY <3>1
  <2>2. CASE SaveAfter(r, {InvalidAttempted(row)}, "failed")
    <3>. DEFINE y == InvalidAttempted(row)
    <3>1. /\ IsRow(y) /\ Replaces(y, row, {"attempts", "since"}) /\ SaveAfter(r, {y}, "failed")
          /\ y.attempts = 1
      BY <1>2, <2>2, CountedRow, AccountsAssumption DEF Limited
    <3>. HIDE DEF y
    <3>. QED
      BY <3>1
  <2>. QED
    BY <1>1, <2>1, <2>2
<1>. HIDE DEF row
<1>. DEFINE q == [requests[r] EXCEPT !.stage = "save", !.next = next, !.raced = @ \/ Torn]
            rows == {y}
<1>6. /\ requests' = [requests EXCEPT ![r] = q]
      /\ change' = [change EXCEPT ![r] = [rows |-> rows, gone |-> {}, license |-> None]]
      /\ UNCHANGED <<config, license, writer, epoch, expired, wrong>>
  BY <1>5 DEF SaveAfter
<1>7. /\ q.stage = "save" /\ q.kind = "Login" /\ q.arg = requests[r].arg /\ q.next = next
      /\ q.raced = (requests[r].raced \/ Torn)
  BY <1>1, <1>2, Looking DEF IsRequest
<1>. HIDE DEF q
<1>8. y.section = "auth" /\ y.key = row.key
  BY <1>2, <1>5 DEF Replaces, SameRow
<1>9. AreRows(rows) /\ \A z \in rows : z.section \in Touched[q.kind]
  BY <1>5, <1>7, <1>8 DEF AreRows, Touched
<1>10. \A z \in rows, s \in Requests : Unwritten(s) => z.key # s
  BY <1>3, <1>8
<1>11. ~ q.raced => Fits(r, rows, config, Fields(q.kind)) /\ Counts(q, rows, wrong)
  <2>1. SUFFICES ASSUME ~ q.raced
                 PROVE  Fits(r, rows, config, Fields("Login")) /\ Counts(q, rows, wrong)
    BY <1>7
  <2>2. ~ Torn /\ ~ requests[r].raced /\ StoredRows = config
    BY <1>1, <1>7, <2>1, Looking
  <2>3. PICK x \in config : Replaces(row, x, {"attempts", "since"})
    BY <1>4, <2>2 DEF Clear
  <2>4. {"attempts", "since"} \subseteq Fields("Login")
    BY DEF Fields
  <2>5. IsRow(x)
    BY <2>2 DEF RowsInv, TypeInv, AreRows
  <2>6. x.section = "auth" /\ DOMAIN x = DOMAIN row
    BY <1>2, <2>3, <2>5, RowOfSection DEF Replaces, SameRow
  <2>7. Replaces(y, x, Fields("Login"))
    BY <1>2, <1>5, <2>3, <2>4, <2>6 DEF Replaces, SameRow
  <2>. QED
    BY <1>4, <1>5, <1>7, <1>8, <2>2, <2>7 DEF Fits, Counts
<1>12. q.raced \in BOOLEAN
  BY <1>1, <1>7, Looking DEF IsTyped, Torn
<1>13. /\ Torn => q.raced
       /\ q.next \in {"permissions", "failed"} /\ q.kind = requests[r].kind
       /\ requests[r].kind # "DeleteDevice"
       /\ None \in {None, "key"}
  BY <1>2, <1>5, <1>7
<1>. HIDE DEF rows
<1>. QED
  BY <1>1, <1>6, <1>7, <1>9, <1>10, <1>11, <1>12, <1>13, SaveKeeps

\* The rows of RoleAndAction of one role are replaced all at once.
LEMMA DowngradeKeeps ==
    ASSUME AccountsInv, RowsInv, NEW r \in Requests, Downgrade(r)
    PROVE  RowsInv'
<1>. DEFINE levels == UNION {Keyed("permission", a.role) : a \in Keyed("admin", requests[r].row.key)}
            rows == {[x EXCEPT !.level = "readonly"] : x \in levels}
<1>1. /\ requests[r].stage = "permissions"
      /\ requests[r].stage \notin Ends \cup {"new", "save"}
      /\ \/ GoTo(r, "failed") \/ GoTo(r, "done")
         \/ expired /\ levels # {} /\ SaveOver(r, requests[r].row, rows, "done")
  BY DEF Downgrade, At, Ends
<1>2. requests[r].kind = "Login"
  BY <1>1, Looking, KindOfStage DEF IsTyped
<1>3. CASE GoTo(r, "failed") \/ GoTo(r, "done")
  BY <1>1, <1>3, GoToKeeps DEF Ends
<1>4. CASE expired /\ levels # {} /\ SaveOver(r, requests[r].row, rows, "done")
  <2>1. levels \subseteq config /\ \A x \in levels : x.section = "permission"
    BY DEF Keyed
  <2>2. ~ Torn /\ StoredRows = config
    BY <1>1, <1>4, <2>1, Looking
  <2>3. \A x \in levels : IsRow(x) /\ \A y \in levels : SameRow(x, y) => x = y
    BY <2>1, <2>2 DEF RowsInv, TypeInv, AreRows
  <2>4. \A y \in rows : \E x \in levels : y = [x EXCEPT !.level = "readonly"]
    OBVIOUS
  <2>. HIDE DEF levels, rows
  <2>5. \A x \in levels : LET y == [x EXCEPT !.level = "readonly"] IN
            IsRow(y) /\ SameRow(x, y) /\ Replaces(y, x, {"level"})
    BY <2>1, <2>3, FieldReplaced
  <2>6. \A y \in rows : \E x \in levels :
            /\ IsRow(y) /\ SameRow(x, y) /\ Replaces(y, x, {"level"})
            /\ y = [x EXCEPT !.level = "readonly"]
    BY <2>4, <2>5
  <2>. DEFINE q == [requests[r] EXCEPT !.stage = "save", !.next = "done",
                                       !.row = requests[r].row, !.raced = Torn]
  <2>7. /\ requests' = [requests EXCEPT ![r] = q]
        /\ change' = [change EXCEPT ![r] = [rows |-> rows, gone |-> {}, license |-> None]]
        /\ UNCHANGED <<config, license, writer, epoch, expired, wrong>>
    BY <1>4 DEF SaveOver
  <2>8. /\ q.stage = "save" /\ q.kind = "Login" /\ q.arg = requests[r].arg /\ q.next = "done"
        /\ q.raced = Torn /\ q.kind = requests[r].kind
    BY <1>1, <1>2, Looking DEF IsRequest
  <2>. HIDE DEF q
  <2>9. AreRows(rows)
    <3>1. SUFFICES ASSUME NEW y \in rows, NEW z \in rows, SameRow(y, z)
                   PROVE  IsRow(y) /\ y = z
      BY DEF AreRows, SameRow
    <3>2. PICK x \in levels : IsRow(y) /\ SameRow(x, y) /\ y = [x EXCEPT !.level = "readonly"]
      BY <2>6
    <3>3. PICK w \in levels : SameRow(w, z) /\ z = [w EXCEPT !.level = "readonly"]
      BY <2>6
    <3>. QED
      BY <2>3, <3>1, <3>2, <3>3 DEF SameRow
  <2>10. \A z \in rows : z.section \in Touched[q.kind]
    BY <2>1, <2>6, <2>8 DEF SameRow, Touched
  <2>11. \A z \in rows, s \in Requests : Unwritten(s) => z.key # s
    BY <2>1, <2>2, <2>6 DEF SameRow, RowsInv, KeyInv
  <2>12. {"level"} \subseteq Fields(q.kind)
    BY <1>4, <2>8 DEF Fields
  <2>13. Fits(r, rows, config, Fields(q.kind)) /\ Counts(q, rows, wrong)
    BY <2>1, <2>6, <2>8, <2>12 DEF Fits, Replaces, Counts
  <2>14. /\ q.raced \in BOOLEAN /\ (Torn => q.raced) /\ None \in {None, "key"}
         /\ q.next \in {"done"} /\ requests[r].kind # "DeleteDevice"
    BY <1>2, <2>8 DEF Torn
  <2>. QED
    BY <1>1, <2>7, <2>8, <2>9, <2>10, <2>11, <2>13, <2>14, SaveKeeps
<1>. QED
  BY <1>1, <1>3, <1>4

\* A row of the file with the fields of the request in it.
LEMMA RewritesKeep ==
    ASSUME AccountsInv, RowsInv, NEW r \in Requests,
           ChangePassword(r) \/ UpdateAdminPersonalDetails(r) \/ UpdateDevice(r)
    PROVE  RowsInv'
<1>1. requests[r].stage \notin Ends \cup {"new", "save"}
  BY DEF ChangePassword, UpdateAdminPersonalDetails, UpdateDevice, At, Ends
<1>2. CASE GoTo(r, "failed")
  BY <1>1, <1>2, GoToKeeps DEF Ends
<1>3. ASSUME NEW x \in config, NEW f \in {"password", "name", "ip"}, NEW v,
             SaveOver(r, x, {[x EXCEPT ![f] = v]}, "done"),
             f \in Fields(requests[r].kind), x.section \in Touched[requests[r].kind],
             x.section = "device" => f # "serial", x.section \in {"auth", "role"} => f # "name"
      PROVE  RowsInv'
  <2>1. IsRow(x)
    BY <1>1, Looking DEF RowsInv, TypeInv, AreRows
  <2>. DEFINE y == [x EXCEPT ![f] = v]
  <2>2. IsRow(y) /\ Replaces(y, x, {f})
    BY <1>3, <2>1, FieldReplaced
  <2>3. SaveOver(r, x, {y}, "done")
    BY <1>3
  <2>. HIDE DEF y
  <2>. QED
    BY <1>1, <1>3, <2>2, <2>3, OverKeeps
<1>4. CASE ChangePassword(r)
  <2>1. /\ "password" \in Fields("ChangePassword")
        /\ Touched["ChangePassword"] = {"auth"}
    BY DEF Fields, Touched
  <2>2. PICK row \in Keyed("auth", requests[r].arg.key) :
            \/ GoTo(r, "failed")
            \/ SaveOver(r, row, {[row EXCEPT !.password = requests[r].arg.password]}, "done")
    BY <1>4 DEF ChangePassword, AccountsOf
  <2>. QED
    BY <1>2, <1>3, <1>4, <2>1, <2>2 DEF Keyed, ChangePassword
<1>5. CASE UpdateAdminPersonalDetails(r)
  <2>1. /\ "name" \in Fields("UpdateAdminPersonalDetails")
        /\ Touched["UpdateAdminPersonalDetails"] = {"admin"}
        /\ requests[r].kind = "UpdateAdminPersonalDetails"
    BY <1>1, <1>5, Looking, KindOfStage DEF Fields, Touched, UpdateAdminPersonalDetails, At, IsTyped
  <2>. QED
    BY <1>2, <1>3, <1>5, <2>1 DEF Keyed, UpdateAdminPersonalDetails
<1>6. CASE UpdateDevice(r)
  <2>1. /\ "ip" \in Fields("UpdateDevice")
        /\ Touched["UpdateDevice"] = {"device"}
        /\ requests[r].kind = "UpdateDevice"
    BY <1>1, <1>6, Looking, KindOfStage DEF Fields, Touched, UpdateDevice, At, IsTyped
  <2>. QED
    BY <1>2, <1>3, <1>6, <2>1 DEF Keyed, UpdateDevice
<1>. QED
  BY <1>4, <1>5, <1>6

\* The name in the row is DefaultName already, as the row was found by it.
LEMMA ResetAdminKeeps ==
    ASSUME AccountsInv, RowsInv, NEW r \in Requests, ResetAdmin(r)
    PROVE  RowsInv'
<1>1. /\ requests[r].kind = "ResetAdmin" /\ requests[r].stage = "account"
      /\ requests[r].stage \notin Ends \cup {"new", "save"}
  BY DEF ResetAdmin, At, Ends
<1>2. PICK x \in Named("auth", DefaultName) :
          SaveOver(r, x, {AdminAgain(x)}, "done")
  <2>1. requests[r].arg.name = DefaultName
    BY <1>1, Looking DEF IsTyped
  <2>2. AccountsOf(r) = Named("auth", DefaultName)
    BY <1>1, <2>1 DEF AccountsOf
  <2>. QED
    BY <2>2 DEF ResetAdmin
<1>3. x \in config /\ x.section = "auth" /\ x.name = DefaultName /\ IsRow(x)
  BY <1>1, <1>2, Looking DEF Named, RowsInv, TypeInv, AreRows
<1>. DEFINE y == AdminAgain(x)
            fields == {"password", "super", "name"}
<1>4. /\ DOMAIN x = {"section", "key", "name", "password", "attempts", "since", "super"}
      /\ x = [f \in DOMAIN x |-> x[f]] /\ x.attempts \in 0..InvalidPasswordLimit
  BY <1>3, RowOfSection DEF IsRow
<1>5. y = [f \in DOMAIN x |-> IF f = "password" THEN DefaultPassword
                              ELSE IF f = "super" THEN TRUE
                              ELSE IF f = "name" THEN DefaultName ELSE x[f]]
  BY <1>4 DEF AdminAgain
<1>6. SaveOver(r, x, {y}, "done")
  BY <1>2
<1>. HIDE DEF y
<1>7. /\ \A f \in DOMAIN x : y[f] = x[f] \/ f \in fields
      /\ y.section = "auth" /\ y.name = x.name /\ y.attempts = x.attempts
  BY <1>3, <1>4, <1>5
<1>8. y = [f \in DOMAIN x |-> y[f]]
  BY <1>5
<1>9. Identity(x) = Identity(y)
  BY <1>3, <1>7 DEF Identity
<1>10. "section" \notin fields /\ "key" \notin fields
  OBVIOUS
<1>11. fields \subseteq Fields("ResetAdmin") /\ x.section \in Touched["ResetAdmin"]
  BY <1>3 DEF Fields, Touched
<1>. HIDE DEF fields
<1>12. IsRow(y) /\ Replaces(y, x, fields)
  BY <1>3, <1>4, <1>7, <1>8, <1>9, <1>10, RowChanged
<1>. QED
  BY <1>1, <1>3, <1>6, <1>11, <1>12, OverKeeps

\* New rows are under the key of the request, and not named as any that it saw.
LEMMA NewRowsKeep ==
    ASSUME AccountsInv, RowsInv, NEW r \in Requests, NEW q, NEW rows, NEW key,
           requests[r].stage \notin Ends \cup {"new", "save"},
           q.stage = "save", q.kind = requests[r].kind, q.arg = requests[r].arg,
           key \in {None, "key"}, q.next = "done",
           q.raced \in BOOLEAN, Torn => q.raced,
           requests' = [requests EXCEPT ![r] = q],
           change' = [change EXCEPT ![r] = [rows |-> rows, gone |-> {}, license |-> key]],
           UNCHANGED <<config, license, writer, epoch, expired, wrong>>,
           \A x \in rows : IsRow(x) /\ x.key = r /\ x.section \in Touched[q.kind],
           \A x, y \in rows : x.section = y.section => x = y,
           q.kind # "Login",
           ~ q.raced => \A x \in rows : x.section \in NamedSections =>
              \A y \in config : y.section = x.section => Identity(y) # Identity(x)
    PROVE  RowsInv'
<1>1. AreRows(rows)
  BY DEF AreRows, SameRow
<1>2. \A z \in rows, s \in Requests : Unwritten(s) /\ (s # r \/ q.kind = "Login") => z.key # s
  OBVIOUS
<1>3. ~ q.raced => Fits(r, rows, config, Fields(q.kind)) /\ Counts(q, rows, wrong)
  BY DEF Fits, Counts
<1>4. requests[r].kind # "DeleteDevice"
  BY Looking, KindOfStage DEF IsTyped
<1>5. \A x \in rows : x.section \in Touched[q.kind]
  OBVIOUS
<1>. QED
  BY <1>1, <1>2, <1>3, <1>4, <1>5, SaveKeeps

LEMMA NewRows ==
    ASSUME NEW r \in Requests, NEW n, NEW p, NEW super, NEW role, NEW s, NEW ip
    PROVE  /\ IsRow(Auth(r, n, p, super)) /\ IsRow(AdminRow(r, n, role)) /\ IsRow(Role(r, n))
           /\ IsRow(Permission(r)) /\ IsRow(Device(r, s, ip))
<1>1. InvalidPasswordLimit \in Nat
  BY AccountsAssumption
<1>2. IsRow(Auth(r, n, p, super))
  BY <1>1 DEF Auth, IsRow, RowFields, Sections, Keys
<1>3. IsRow(AdminRow(r, n, role)) /\ IsRow(Role(r, n))
  BY DEF AdminRow, Role, IsRow, RowFields, Sections, Keys
<1>4. IsRow(Permission(r)) /\ IsRow(Device(r, s, ip))
  BY DEF Permission, Device, IsRow, RowFields, Sections, Keys
<1>. QED
  BY <1>2, <1>3, <1>4

\* Requests that make rows of their own.
LEMMA CreatesKeep ==
    ASSUME AccountsInv, RowsInv, NEW r \in Requests,
           CreateChildAdmin(r) \/ CreateRolePermission(r) \/ CreateDevice(r) \/ Signup(r)
    PROVE  RowsInv'
<1>. DEFINE arg == requests[r].arg
            kind == requests[r].kind
            Wrote(rows, key) ==
              \E q : /\ q.stage = "save" /\ q.kind = kind /\ q.arg = arg /\ q.next = "done"
                     /\ q.raced = (requests[r].raced \/ Torn)
                     /\ requests' = [requests EXCEPT ![r] = q]
                     /\ change' = [change EXCEPT ![r] = [rows |-> rows, gone |-> {}, license |-> key]]
                     /\ UNCHANGED <<config, license, writer, epoch, expired, wrong>>
<1>1. requests[r].stage \notin Ends \cup {"new", "save"}
  BY DEF CreateChildAdmin, CreateRolePermission, CreateDevice, Signup, At, Ends
<1>2. /\ IsRequest(requests[r]) /\ IsTyped(requests[r], change[r]) /\ InFlight(r)
      /\ kind \in Kinds /\ requests[r].stage \in StagesOf[kind]
      /\ ~ Torn => StoredRows = config
  BY <1>1, Looking DEF IsTyped
<1>3. CASE GoTo(r, "failed")
  BY <1>1, <1>3, GoToKeeps DEF Ends
<1>4. ASSUME NEW rows, SaveAfter(r, rows, "done") PROVE Wrote(rows, None)
  <2>. DEFINE q == [requests[r] EXCEPT !.stage = "save", !.next = "done", !.raced = @ \/ Torn]
  <2>1. /\ q.stage = "save" /\ q.kind = kind /\ q.arg = arg /\ q.next = "done"
        /\ q.raced = (requests[r].raced \/ Torn)
    BY <1>2 DEF IsRequest
  <2>2. requests' = [requests EXCEPT ![r] = q]
    BY <1>4 DEF SaveAfter
  <2>. HIDE DEF q
  <2>. QED
    BY <1>4, <2>1, <2>2 DEF SaveAfter
<1>5. ASSUME NEW rows, NEW key, key \in {None, "key"}, Wrote(rows, key),
             \A x \in rows : IsRow(x) /\ x.key = r /\ x.section \in Touched[kind],
             \A x, y \in rows : x.section = y.section => x = y,
             kind # "Login",
             ~ Torn /\ ~ requests[r].raced => \A x \in rows : x.section \in NamedSections =>
                \A y \in config : y.section = x.section => Identity(y) # Identity(x)
      PROVE  RowsInv'
  <2>1. PICK q : /\ q.stage = "save" /\ q.kind = kind /\ q.arg = arg /\ q.next = "done"
                 /\ q.raced = (requests[r].raced \/ Torn)
                 /\ requests' = [requests EXCEPT ![r] = q]
                 /\ change' = [change EXCEPT ![r] = [rows |-> rows, gone |-> {}, license |-> key]]
                 /\ UNCHANGED <<config, license, writer, epoch, expired, wrong>>
    BY <1>5
  <2>2. q.raced \in BOOLEAN /\ (Torn => q.raced)
    BY <1>2, <2>1 DEF IsTyped, Torn
  <2>3. ~ q.raced => \A x \in rows : x.section \in NamedSections =>
            \A y \in config : y.section = x.section => Identity(y) # Identity(x)
    BY <1>5, <2>1
  <2>4. /\ \A x \in rows : IsRow(x) /\ x.key = r /\ x.section \in Touched[q.kind]
        /\ \A x, y \in rows : x.section = y.section => x = y
        /\ q.kind # "Login" /\ key \in {None, "key"}
    BY <1>5, <2>1
  <2>. HIDE DEF Wrote
  <2>. QED
    BY <1>1, <2>1, <2>2, <2>3, <2>4, NewRowsKeep
<1>. HIDE DEF Wrote
<1>6. CASE CreateChildAdmin(r)
  <2>. DEFINE account == Auth(r, arg.name, DefaultPassword, FALSE)
              admin == AdminRow(r, arg.name, arg.role)
  <2>1. kind = "CreateChildAdmin" /\ requests[r].stage = "references"
    BY <1>2, <1>6, KindOfStage DEF CreateChildAdmin, At
  <2>2. ~ Torn /\ ~ requests[r].raced => \A y \in config : y.section = "auth" => y.name # arg.name
    BY <1>2, <2>1 DEF RowsInv, AloneInv, IsAlone
  <2>3. /\ IsRow(account) /\ account.key = r /\ account.section = "auth" /\ Identity(account) = arg.name
        /\ IsRow(admin) /\ admin.key = r /\ admin.section = "admin"
    BY NewRows DEF Auth, AdminRow, Identity
  <2>4. GoTo(r, "failed") \/ SaveAfter(r, {account, admin}, "done")
    BY <1>6 DEF CreateChildAdmin
  <2>. HIDE DEF account, admin
  <2>5. \A x \in {account, admin} : x.section \in Touched[kind]
    BY <2>1, <2>3 DEF Touched
  <2>6. ~ Torn /\ ~ requests[r].raced => \A x \in {account, admin} : x.section \in NamedSections =>
            \A y \in config : y.section = x.section => Identity(y) # Identity(x)
    BY <2>2, <2>3 DEF NamedSections, Identity
  <2>. QED
    BY <1>3, <1>4, <1>5, <2>1, <2>3, <2>4, <2>5, <2>6
<1>7. CASE CreateRolePermission(r)
  <2>. DEFINE role == Role(r, arg.name)
              permission == Permission(r)
  <2>1. kind = "CreateRolePermission"
    BY <1>7 DEF CreateRolePermission
  <2>2. \A y \in config : y.section = "role" => y.name # arg.name
    BY <1>7 DEF CreateRolePermission, Named
  <2>3. /\ IsRow(role) /\ role.key = r /\ role.section = "role" /\ Identity(role) = arg.name
        /\ IsRow(permission) /\ permission.key = r /\ permission.section = "permission"
    BY NewRows DEF Role, Permission, Identity
  <2>4. SaveAfter(r, {role, permission}, "done")
    BY <1>7 DEF CreateRolePermission
  <2>. HIDE DEF role, permission
  <2>5. \A x \in {role, permission} : x.section \in Touched[kind]
    BY <2>1, <2>3 DEF Touched
  <2>6. \A x \in {role, permission} : x.section \in NamedSections =>
            \A y \in config : y.section = x.section => Identity(y) # Identity(x)
    BY <2>2, <2>3 DEF NamedSections, Identity
  <2>. QED
    BY <1>4, <1>5, <2>1, <2>3, <2>4, <2>5, <2>6
<1>8. CASE CreateDevice(r)
  <2>. DEFINE device == Device(r, arg.serial, CHOOSE ip \in Ips : TRUE)
  <2>1. kind = "CreateDevice"
    BY <1>2, <1>8, KindOfStage DEF CreateDevice, At
  <2>2. IsRow(device) /\ device.key = r /\ device.section = "device" /\ Identity(device) = arg.serial
    BY NewRows DEF Device, Identity
  <2>3. \/ GoTo(r, "failed")
        \/ /\ \A y \in config : y.section = "device" => y.serial # arg.serial
           /\ SaveAfter(r, {device}, "done")
    BY <1>8 DEF CreateDevice
  <2>. HIDE DEF device
  <2>4. device.section \in Touched[kind]
    BY <2>1, <2>2 DEF Touched
  <2>5. (\A y \in config : y.section = "device" => y.serial # arg.serial) =>
           \A y \in config : y.section = device.section => Identity(y) # Identity(device)
    BY <2>2 DEF Identity
  <2>. QED
    BY <1>3, <1>4, <1>5, <2>1, <2>2, <2>3, <2>4, <2>5
<1>9. CASE Signup(r)
  <2>. DEFINE role == Role(r, SuperRole)
              permission == Permission(r)
              admin == AdminRow(r, arg.name, r)
              account == Auth(r, arg.name, DefaultPassword, TRUE)
              rows == {role, permission, admin, account}
              q == [requests[r] EXCEPT !.stage = "save", !.raced = @ \/ Torn]
  <2>1. kind = "Signup" /\ requests[r].stage = "roleName"
    BY <1>9 DEF Signup, At
  <2>2. ~ Torn /\ ~ requests[r].raced => \A y \in config : y.section = "auth" => y.name # arg.name
    BY <1>2, <2>1 DEF RowsInv, AloneInv, IsAlone
  <2>3. \A y \in config : y.section = "role" => y.name # SuperRole
    BY <1>9 DEF Signup, Named
  <2>4. /\ IsRow(role) /\ role.key = r /\ role.section = "role" /\ Identity(role) = SuperRole
        /\ IsRow(permission) /\ permission.key = r /\ permission.section = "permission"
        /\ IsRow(admin) /\ admin.key = r /\ admin.section = "admin"
        /\ IsRow(account) /\ account.key = r /\ account.section = "auth" /\ Identity(account) = arg.name
    BY NewRows DEF Role, Permission, AdminRow, Auth, Identity
  <2>5. requests[r].next = "done"
    BY <1>2, <2>1 DEF IsTyped
  <2>6. /\ q.stage = "save" /\ q.kind = kind /\ q.arg = arg /\ q.next = "done"
        /\ q.raced = (requests[r].raced \/ Torn)
    BY <1>2, <2>5 DEF IsRequest
  <2>7. /\ requests' = [requests EXCEPT ![r] = q]
        /\ change' = [change EXCEPT ![r] = [rows |-> rows, gone |-> {}, license |-> "key"]]
        /\ UNCHANGED <<config, license, writer, epoch, expired, wrong>>
    BY <1>9 DEF Signup
  <2>. HIDE DEF role, permission, admin, account, q
  <2>8. Wrote(rows, "key")
    <3>. HIDE DEF rows
    <3>. QED
      BY <2>6, <2>7 DEF Wrote
  <2>9. \A x \in rows : IsRow(x) /\ x.key = r /\ x.section \in Touched[kind]
    BY <2>1, <2>4 DEF Touched, Sections
  <2>10. \A x, y \in rows : x.section = y.section => x = y
    BY <2>4
  <2>11. ~ Torn /\ ~ requests[r].raced => \A x \in rows : x.section \in NamedSections =>
            \A y \in config : y.section = x.section => Identity(y) # Identity(x)
    BY <2>2, <2>3, <2>4 DEF NamedSections, Identity
  <2>. HIDE DEF rows
  <2>. QED
    BY <1>5, <2>1, <2>8, <2>9, <2>10, <2>11
<1>. QED
  BY <1>6, <1>7, <1>8, <1>9

LEMMA FetchesKeep ==
    ASSUME AccountsInv, RowsInv, NEW r \in Requests, Fetch(r)
    PROVE  RowsInv'
BY LookUpsKeep, AuthenticateKeeps, CompareAfterHoldKeeps, DowngradeKeeps, ResetAdminKeeps,
   RewritesKeep, CreatesKeep DEF Fetch

-----------------------------------------------------------------------------
(* The other steps.                                                        *)

LEMMA InitRows == AccountsInit => RowsInv
<1>. SUFFICES ASSUME AccountsInit PROVE RowsInv
  OBVIOUS
<1>1. /\ writer = Unlocked /\ StoredRows = config /\ ~ Torn
      /\ \A r \in Requests : requests[r] = New /\ change[r] = None
  BY DEF AccountsInit, StoreInit, StoredRows, Torn, Unlocked
<1>2. \A r \in Requests : requests[r].stage = "new"
  BY <1>1 DEF New
<1>3. epoch \in 1..MaxEpoch /\ wrong = 0 /\ license \in {None, "key"}
  BY AccountsAssumption DEF AccountsInit
<1>4. /\ AreRows(config)
      /\ \A x \in config : x.key = Seed /\ (x.section = "auth" => x.attempts = 0)
  <2>1. CASE config = {}
    BY <2>1 DEF AreRows
  <2>2. CASE config = SignedUp
    <3>. DEFINE auth == Auth(Seed, DefaultName, DefaultPassword, TRUE)
                admin == AdminRow(Seed, DefaultName, Seed)
                role == Role(Seed, SuperRole)
                permission == Permission(Seed)
    <3>1. IsRow(auth) /\ auth.section = "auth" /\ auth.key = Seed /\ auth.attempts = 0
      BY AccountsAssumption DEF Auth, IsRow, RowFields, Sections, Keys
    <3>2. IsRow(admin) /\ admin.section = "admin" /\ admin.key = Seed
      BY DEF AdminRow, IsRow, RowFields, Sections, Keys
    <3>3. IsRow(role) /\ role.section = "role" /\ role.key = Seed
      BY DEF Role, IsRow, RowFields, Sections, Keys
    <3>4. IsRow(permission) /\ permission.section = "permission" /\ permission.key = Seed
      BY DEF Permission, IsRow, RowFields, Sections, Keys
    <3>5. config = {auth, admin, role, permission}
      BY <2>2 DEF SignedUp
    <3>. HIDE DEF auth, admin, role, permission
    <3>. QED
      BY <3>1, <3>2, <3>3, <3>4, <3>5 DEF AreRows, SameRow
  <2>. QED
    BY <2>1, <2>2 DEF AccountsInit
<1>5. TypeInv
  BY <1>1, <1>2, <1>3, <1>4 DEF TypeInv, At
<1>6. KeyInv
  BY <1>1, <1>2, <1>4, AccountsAssumption DEF KeyInv, Unwritten, InFlight, At, Avoids, Clears
<1>7. AloneInv /\ WrongInv
  BY <1>1, <1>2, <1>3, <1>4 DEF AloneInv, InFlight, WrongInv
<1>. QED
  BY <1>5, <1>6, <1>7 DEF RowsInv

LEMMA BeginKeeps ==
    ASSUME AccountsInv, RowsInv, NEW r \in Requests, Begin(r)
    PROVE  RowsInv'
<1>1. PICK kind \in Kinds : \E arg \in Arguments(kind) :
        /\ requests' = [requests EXCEPT ![r] =
              [kind |-> kind, arg |-> arg, stage |-> FirstStage[kind], next |-> "done",
               row |-> None, raced |-> FALSE,
               late |-> /\ kind = "Signup" /\ license # None
                        /\ \A s \in Requests : InFlight(s) => requests[s].kind # "Signup"]]
        /\ change' = IF kind = "DeleteDevice"
                     THEN [change EXCEPT ![r] = [rows |-> {}, license |-> None,
                              gone |-> {[section |-> "device", key |-> arg.key]}]]
                     ELSE change
  BY DEF Begin
<1>2. PICK arg \in Arguments(kind) :
        /\ requests' = [requests EXCEPT ![r] =
              [kind |-> kind, arg |-> arg, stage |-> FirstStage[kind], next |-> "done",
               row |-> None, raced |-> FALSE,
               late |-> /\ kind = "Signup" /\ license # None
                        /\ \A s \in Requests : InFlight(s) => requests[s].kind # "Signup"]]
        /\ change' = IF kind = "DeleteDevice"
                     THEN [change EXCEPT ![r] = [rows |-> {}, license |-> None,
                              gone |-> {[section |-> "device", key |-> arg.key]}]]
                     ELSE change
  BY <1>1
<1>. DEFINE q == [kind |-> kind, arg |-> arg, stage |-> FirstStage[kind], next |-> "done",
                  row |-> None, raced |-> FALSE,
                  late |-> /\ kind = "Signup" /\ license # None
                           /\ \A s \in Requests : InFlight(s) => requests[s].kind # "Signup"]
            c == IF kind = "DeleteDevice"
                 THEN [rows |-> {}, license |-> None,
                       gone |-> {[section |-> "device", key |-> arg.key]}]
                 ELSE None
<1>3. /\ q.kind = kind /\ q.arg = arg /\ q.stage = FirstStage[kind] /\ q.next = "done"
      /\ q.raced = FALSE
  OBVIOUS
<1>4. /\ requests[r].stage = "new" /\ change[r] = None
      /\ change = [s \in Requests |-> change[s]]
  BY DEF Begin, AccountsInv, RequestInv, At
<1>5. /\ requests' = [requests EXCEPT ![r] = q] /\ change' = [change EXCEPT ![r] = c]
  BY <1>2, <1>4
<1>6. \/ c = None /\ kind # "DeleteDevice"
      \/ /\ kind = "DeleteDevice" /\ c.rows = {} /\ c.license = None
         /\ c.gone = {[section |-> "device", key |-> arg.key]}
  OBVIOUS
<1>. HIDE DEF q, c
<1>7. kind \in DOMAIN Touched
  BY AccountsAssumption
<1>8. /\ FirstStage[kind] \in StagesOf[kind] \cup {"save"}
      /\ FirstStage[kind] \notin {"new", "compare", "references", "done", "failed"}
      /\ kind = "Signup" => FirstStage[kind] # "roleName"
  BY <1>7 DEF FirstStage, StagesOf, Touched
<1>9. kind = "ResetAdmin" => arg.name = DefaultName
  BY DEF Arguments
<1>10. c # None => IsChange(q, c)
  BY <1>3, <1>6 DEF IsChange, AreRows
<1>11. ~ Clears(q, c)
  BY <1>3, <1>8 DEF Clears
<1>12. IsTyped(q, c)
  BY <1>3, <1>8, <1>9, <1>10, <1>11 DEF IsTyped
<1>13. \A s \in Requests : Avoids(q, c, s)
  BY <1>6, <1>11 DEF Avoids
<1>14. IsAlone(r, q, c)
  BY <1>3, <1>6, <1>8, <1>11 DEF IsAlone, Fits, Counts
<1>15. UNCHANGED <<config, license, writer, epoch, expired, wrong>>
  BY DEF Begin
<1>16. requests[r].stage \notin Ends /\ q.stage # "new"
  BY <1>3, <1>4, <1>8 DEF Ends
<1>. QED
  BY <1>4, <1>5, <1>12, <1>13, <1>14, <1>15, <1>16, FetchKeeps

\* The rows of the sections a save leaves alone say the same before and after.
LEMMA FitsElsewhere ==
    ASSUME NEW r, NEW rows, NEW old, NEW new, NEW fields,
           \A x : (\E y \in rows : x.section = y.section) => (x \in old <=> x \in new),
           Fits(r, rows, old, fields)
    PROVE  Fits(r, rows, new, fields)
BY DEF Fits, Replaces, SameRow

\* The save itself: what it does to the count, and to whom it is news.
LEMMA ConfigStepKeeps ==
    ASSUME AccountsInv, RowsInv, ConfigStep
    PROVE  RowsInv'
<1>0. writer # Unlocked /\ writer.step = "computed" /\ writer.request \in Requests
  BY DEF ConfigStep, TruncateConfig, AccountsInv, WriterInv, Unlocked, IsWriter
<1>. PICK s \in Requests : s = writer.request
  BY <1>0
<1>. DEFINE c == change[s]
<1>1. /\ writer # Unlocked /\ ~ Torn /\ s \in Requests /\ c # None
      /\ writer.rows = Applied(config, c) /\ StoredRows = config
      /\ writer.step = "computed"
  BY DEF ConfigStep, TruncateConfig, AccountsInv, WriterInv, Torn, Unlocked, IsWriter, StoredRows
<1>2. /\ Torn' /\ writer'.request = s /\ StoredRows' = Applied(config, c)
      /\ UNCHANGED <<license, change, epoch, expired>>
  BY <1>1 DEF ConfigStep, TruncateConfig, Torn, StoredRows, AccountsInv, WriterInv, IsWriter
<1>3. /\ At(s, "save") /\ InFlight(s) /\ IsTyped(requests[s], c) /\ IsChange(requests[s], c)
      /\ \A r \in Requests : ~ Owns(r) /\ (Owns(r)' <=> r = s)
  BY <1>1, <1>2 DEF AccountsInv, RequestInv, InFlight, At, Ends, RowsInv, TypeInv, IsTyped, Owns
<1>4. /\ AreRows(config) /\ AreRows(StoredRows')
      /\ wrong' = WrongAfter(s) /\ wrong \in Nat
  BY <1>1, <1>2, <1>3, AppliedAreRows DEF RowsInv, TypeInv, IsChange, ConfigStep
<1>5. \A r \in Requests :
        /\ ~ Outdates(s, r) => requests'[r] = requests[r]
        /\ Outdates(s, r) => requests'[r].raced = TRUE
        /\ requests'[r].stage = requests[r].stage
        /\ ~ At(r, "new") => /\ requests'[r].kind = requests[r].kind
                             /\ requests'[r].next = requests[r].next
                             /\ requests'[r].arg = requests[r].arg
                             /\ requests'[r].row = requests[r].row
                             /\ requests[r].raced \in BOOLEAN => requests'[r].raced \in BOOLEAN
  <2>1. TAKE r \in Requests
  <2>2. requests'[r] = IF Outdates(s, r) THEN [requests[r] EXCEPT !.raced = TRUE] ELSE requests[r]
    BY DEF ConfigStep
  <2>3. Outdates(s, r) => IsRequest(requests[r])
    BY DEF AccountsInv, RequestInv, Outdates, InFlight, New
  <2>. QED
    BY <2>2, <2>3 DEF IsRequest
<1>. HIDE DEF c
<1>6. TypeInv'
  <2>1. \A r \in Requests : ~ At(r, "new")' => IsTyped(requests'[r], change'[r])
    BY <1>2, <1>5 DEF RowsInv, TypeInv, IsTyped, IsChange, Clears, At
  <2>2. wrong' \in Nat
    BY <1>4 DEF WrongAfter
  <2>. QED
    BY <1>2, <1>4, <2>1, <2>2 DEF RowsInv, TypeInv
<1>7. \A x \in StoredRows' : x \in c.rows \/ (x \in config /\ ~ \E y \in c.rows : SameRow(x, y))
  BY <1>2, AppliedIsFromBoth
<1>8. KeyInv'
  <2>1. SUFFICES ASSUME NEW r \in Requests, Unwritten(r)'
                 PROVE  /\ \A x \in StoredRows' : x.key # r
                        /\ \A t \in Requests :
                              t # r \/ (~ At(r, "new")' /\ requests'[r].kind = "Login") =>
                                 Avoids(requests'[t], change'[t], r)
    BY DEF KeyInv
  <2>2. Unwritten(r)
    BY <1>3, <1>5, <2>1 DEF Unwritten, InFlight, At
  <2>3. s # r \/ (~ At(r, "new") /\ requests[r].kind = "Login")
    BY <1>3, <1>5, <2>1 DEF Unwritten, At
  <2>4. \A x \in c.rows : x.key # r
    BY <1>1, <2>2, <2>3 DEF RowsInv, KeyInv, Avoids, c
  <2>5. \A x \in StoredRows' : x.key # r
    BY <1>1, <1>7, <2>2, <2>4 DEF RowsInv, KeyInv
  <2>6. ASSUME NEW t \in Requests, t # r \/ (~ At(r, "new")' /\ requests'[r].kind = "Login")
        PROVE  Avoids(requests'[t], change'[t], r)
    <3>1. Avoids(requests[t], change[t], r)
      BY <1>5, <2>2, <2>6 DEF RowsInv, KeyInv, At
    <3>2. At(t, "new") => change[t] = None
      BY DEF AccountsInv, RequestInv, At
    <3>. QED
      BY <1>2, <1>5, <3>1, <3>2 DEF Avoids, Clears, At
  <2>. QED
    BY <2>5, <2>6
<1>9. ~ requests[s].raced => IsAlone(s, requests[s], c)
  BY <1>1, <1>3 DEF RowsInv, AloneInv, c
<1>10. AloneInv'
  <2>1. SUFFICES ASSUME NEW r \in Requests, InFlight(r)', ~ requests'[r].raced
                 PROVE  IsAlone(r, requests[r], change[r])'
    BY DEF AloneInv
  <2>2. /\ ~ Outdates(s, r) /\ requests'[r] = requests[r] /\ InFlight(r)
        /\ IsAlone(r, requests[r], change[r]) /\ IsTyped(requests[r], change[r])
    BY <1>5, <2>1 DEF RowsInv, AloneInv, TypeInv, InFlight, At
  <2>3. Fields(requests[r].kind)' = Fields(requests[r].kind)
    BY <1>2, <2>2 DEF Fields
  <2>4. CASE r # s
    <3>1. \A x \in c.rows \cup c.gone : x.section \notin Touched[requests[r].kind]
      BY <2>2, <2>4 DEF Outdates, c
    <3>2. \A x : x.section \in Touched[requests[r].kind] => (x \in StoredRows' <=> x \in config)
      <4>1. \A section : (\A x \in c.rows \cup c.gone : x.section # section) =>
               \A x : x.section = section => (x \in Applied(config, c) <=> x \in config)
        BY AppliedElsewhere
      <4>. QED
        BY <1>2, <3>1, <4>1
    <3>3. "auth" \in Touched[requests[r].kind] => wrong' = wrong
      BY <1>4, <3>1 DEF WrongAfter, c
    <3>4. requests[r].kind \in {"Login", "Signup", "CreateChildAdmin"} =>
             "auth" \in Touched[requests[r].kind]
      BY DEF Touched, Sections
    <3>5. change[r] # None =>
             Fits(r, change[r].rows, StoredRows', Fields(requests[r].kind))
             /\ Counts(requests[r], change[r].rows, wrong')
      <4>1. SUFFICES ASSUME change[r] # None
                     PROVE  Fits(r, change[r].rows, StoredRows', Fields(requests[r].kind))
                            /\ Counts(requests[r], change[r].rows, wrong')
        OBVIOUS
      <4>2. /\ Fits(r, change[r].rows, config, Fields(requests[r].kind))
            /\ Counts(requests[r], change[r].rows, wrong)
            /\ \A x \in change[r].rows : x.section \in Touched[requests[r].kind]
        BY <1>1, <1>3, <2>2, <4>1 DEF IsAlone, IsTyped, IsChange
      <4>3. Fits(r, change[r].rows, StoredRows', Fields(requests[r].kind))
        BY <3>2, <4>2, FitsElsewhere
      <4>4. Counts(requests[r], change[r].rows, wrong')
        BY <3>3, <3>4, <4>2 DEF Counts
      <4>. QED
        BY <4>3, <4>4
    <3>6. Clears(requests[r], change[r]) =>
             /\ Clear(requests[r].row, StoredRows')
             /\ (requests[r].stage = "compare") /\ requests[r].row.key = Seed => wrong' = 0
      <4>1. SUFFICES ASSUME Clears(requests[r], change[r])
                     PROVE  /\ Clear(requests[r].row, StoredRows')
                            /\ requests[r].stage = "compare" /\ requests[r].row.key = Seed => wrong' = 0
        OBVIOUS
      <4>2. requests[r].kind = "Login" /\ requests[r].row.section = "auth"
        <5>1. requests[r].kind \in DOMAIN Touched
          BY <2>2, AccountsAssumption DEF IsTyped
        <5>2. requests[r].kind = "Login"
          BY <2>2, <4>1, <5>1 DEF IsTyped, Clears, StagesOf, Touched, Ends
        <5>. QED
          BY <2>2, <4>1, <5>2 DEF IsTyped
      <4>3. /\ Clear(requests[r].row, config)
            /\ requests[r].stage = "compare" /\ requests[r].row.key = Seed => wrong = 0
        BY <1>1, <2>2, <4>1 DEF IsAlone
      <4>4. Clear(requests[r].row, StoredRows')
        BY <3>2, <3>4, <4>2, <4>3 DEF Clear, Replaces, SameRow
      <4>. QED
        BY <3>3, <3>4, <4>2, <4>3, <4>4
    <3>7. (requests[r].stage = "roleName" /\ requests[r].kind = "Signup") \/ requests[r].stage = "references" =>
             \A y \in StoredRows' : y.section = "auth" => y.name # requests[r].arg.name
      <4>1. requests[r].stage = "references" => requests[r].kind = "CreateChildAdmin"
        BY <2>2, KindOfStage DEF IsTyped, Ends
      <4>. QED
        BY <1>1, <2>2, <3>2, <3>4, <4>1 DEF IsAlone
    <3>. QED
      BY <1>2, <1>3, <2>2, <2>3, <2>4, <3>5, <3>6, <3>7 DEF IsAlone
  <2>5. CASE r = s
    <3>1. requests[s].stage = "save" /\ Owns(s)' /\ change'[s] = c
      BY <1>1, <1>2, <1>3 DEF At, c
    <3>2. requests[s].next = "compare" =>
             Clear(requests[s].row, StoredRows') /\ (requests[s].row.key = Seed => wrong' = 0)
      <4>1. SUFFICES ASSUME requests[s].next = "compare"
                     PROVE  Clear(requests[s].row, StoredRows') /\ (requests[s].row.key = Seed => wrong' = 0)
        OBVIOUS
      <4>. DEFINE row == requests[s].row
      <4>2. Clears(requests[s], c) /\ c.rows = {row} /\ row.section = "auth"
        BY <1>1, <1>3, <4>1 DEF Clears, IsTyped
      <4>3. PICK y \in config : Replaces(row, y, {"attempts", "since"})
        BY <1>1, <1>9, <2>1, <2>2, <2>5, <4>2 DEF IsAlone, Clear
      <4>4. requests[s].kind = "Login"
        BY <1>3, <4>1 DEF IsTyped
      <4>5. c.gone = {}
        BY <1>3, <4>4 DEF IsChange
      <4>6. row \in Applied(config, c)
        <5>1. y \in Applied(config, c) \/ \E z \in c.rows : SameRow(y, z) /\ z \in Applied(config, c)
          BY <4>5, AppliedKeeps
        <5>2. y \in Applied(config, c) => y \in c.rows
          BY <4>2, <4>3, AppliedIsFromBoth DEF Replaces
        <5>. QED
          BY <4>2, <5>1, <5>2
      <4>7. Replaces(row, row, {"attempts", "since"})
        BY DEF Replaces, SameRow
      <4>8. row.key = Seed => wrong' = 0
        BY <1>4, <2>2, <2>5, <4>1, <4>2, <4>4 DEF WrongAfter, c
      <4>. QED
        BY <1>2, <4>6, <4>7, <4>8 DEF Clear
    <3>3. requests'[s] = requests[s]
      BY <2>2, <2>5
    <3>4. IsAlone(s, requests[s], change[s])'
      BY <3>1, <3>2, <3>3 DEF IsAlone, Clears
    <3>. QED
      BY <2>5, <3>4
  <2>. QED
    BY <2>4, <2>5
<1>11. WrongInv'
  <2>1. SUFFICES ASSUME NEW x \in StoredRows', x.section = "auth", x.key = Seed
                 PROVE  wrong' <= x.attempts
    BY DEF WrongInv
  <2>2. x.attempts \in Nat
    BY <1>4, <2>1 DEF AreRows, IsRow
  <2>3. CASE x \in c.rows
    <3>1. wrong' = IF requests[s].raced THEN 0
                   ELSE IF requests[s].kind # "Login" THEN wrong
                   ELSE IF requests[s].next = "failed" THEN wrong + 1 ELSE 0
      BY <1>4, <2>1, <2>3 DEF WrongAfter, c
    <3>2. CASE requests[s].raced \/ (requests[s].kind = "Login" /\ requests[s].next # "failed")
      BY <2>2, <3>1, <3>2
    <3>3. CASE ~ requests[s].raced /\ requests[s].kind = "Login" /\ requests[s].next = "failed"
      BY <1>1, <1>3, <1>9, <2>1, <2>3, <3>1, <3>3 DEF IsAlone, Counts
    <3>4. CASE ~ requests[s].raced /\ requests[s].kind # "Login"
      <4>1. Fits(s, c.rows, config, Fields(requests[s].kind))
        BY <1>1, <1>3, <1>9, <3>4 DEF IsAlone
      <4>2. PICK y \in config : Replaces(x, y, Fields(requests[s].kind))
        BY <1>1, <2>1, <2>3, <4>1, AccountsAssumption DEF Fits
      <4>3. y.section = "auth" /\ y.key = Seed /\ IsRow(y)
        BY <1>4, <2>1, <4>2 DEF Replaces, SameRow, AreRows
      <4>4. "attempts" \in DOMAIN y /\ "attempts" \notin Fields(requests[s].kind)
        BY <3>4, <4>3, RowOfSection DEF Fields
      <4>5. y.attempts = x.attempts
        BY <4>2, <4>4 DEF Replaces
      <4>. QED
        BY <1>1, <3>1, <3>4, <4>3, <4>5 DEF RowsInv, WrongInv
    <3>. QED
      BY <3>2, <3>3, <3>4
  <2>4. CASE x \in config /\ ~ \E y \in c.rows : SameRow(x, y)
    <3>1. wrong' = wrong
      BY <1>4, <2>1, <2>4 DEF WrongAfter, SameRow, c
    <3>. QED
      BY <1>1, <2>1, <2>4, <3>1 DEF RowsInv, WrongInv
  <2>. QED
    BY <1>7, <2>3, <2>4
<1>. QED
  BY <1>6, <1>8, <1>10, <1>11 DEF RowsInv

LEMMA FitsMore ==
    ASSUME NEW r, NEW rows, NEW stored, NEW fields, NEW more, fields \subseteq more,
           Fits(r, rows, stored, fields)
    PROVE  Fits(r, rows, stored, more)
BY DEF Fits, Replaces

\* Steps that no request and no row can tell.
LEMMA QuietKeeps ==
    ASSUME RowsInv, UNCHANGED <<requests, change, epoch, wrong>>, StoredRows' = StoredRows,
           \A r \in Requests : Owns(r)' <=> Owns(r), license' \in {None, "key"},
           expired => expired'
    PROVE  RowsInv'
<1>1. TypeInv'
  BY DEF RowsInv, TypeInv, At
<1>2. KeyInv' /\ WrongInv'
  BY DEF RowsInv, KeyInv, WrongInv, Unwritten, InFlight, At
<1>3. AloneInv'
  <2>1. SUFFICES ASSUME NEW r \in Requests, InFlight(r), ~ requests[r].raced
                 PROVE  IsAlone(r, requests[r], change[r])'
    BY DEF AloneInv, InFlight
  <2>2. IsAlone(r, requests[r], change[r])
    BY <2>1 DEF RowsInv, AloneInv
  <2>3. Fields(requests[r].kind) \subseteq Fields(requests[r].kind)'
    BY DEF Fields
  <2>4. change[r] # None /\ ~ Owns(r) =>
           Fits(r, change[r].rows, StoredRows, Fields(requests[r].kind)')
    BY <2>2, <2>3, FitsMore DEF IsAlone
  <2>. QED
    BY <2>2, <2>4 DEF IsAlone
<1>. QED
  BY <1>1, <1>2, <1>3 DEF RowsInv

LEMMA WriterKeeps ==
    ASSUME AccountsInv, RowsInv, (\E r \in Requests : Lock(r)) \/ LicenceStep
    PROVE  RowsInv'
<1>1. CASE \E r \in Requests : Lock(r)
  <2>1. PICK r \in Requests : Lock(r)
    BY <1>1
  <2>2. ~ Torn /\ ~ Torn' /\ UNCHANGED <<config, license, change, requests, epoch, expired, wrong>>
    <3>1. writer' = [request |-> r, rows |-> Applied(config, change[r]),
                     step |-> IF change[r].license = None THEN "computed" ELSE "licensing"]
      BY <2>1 DEF Lock, LockAndRead
    <3>2. writer'.step # "torn"
      BY <3>1
    <3>. QED
      BY <2>1, <3>2 DEF Lock, LockAndRead, Torn, Unlocked
  <2>3. license \in {None, "key"}
    BY DEF RowsInv, TypeInv
  <2>. QED
    BY <2>2, <2>3, QuietKeeps DEF StoredRows, Owns
<1>2. CASE LicenceStep
  <2>1. /\ ~ Torn /\ writer # Unlocked /\ UNCHANGED <<config, change, requests, epoch, expired, wrong>>
        /\ \/ writer' = [writer EXCEPT !.step = "licenceTorn"] /\ license' = None
           \/ /\ writer' = [writer EXCEPT !.step = "computed"]
              /\ license' = change[writer.request].license
    BY <1>2 DEF LicenceStep, TruncateLicence, WriteLicence, LicenceTorn, Torn, Unlocked
  <2>2. IsWriter(writer) /\ change[writer.request] # None
    BY <2>1 DEF AccountsInv, WriterInv
  <2>3. ~ Torn'
    BY <2>1, <2>2 DEF Torn, IsWriter
  <2>4. change[writer.request].license \in {None, "key"}
    BY <2>2 DEF IsWriter, AccountsInv, RequestInv, RowsInv, TypeInv, IsTyped, IsChange, At
  <2>. QED
    BY <2>1, <2>3, <2>4, QuietKeeps DEF StoredRows, Owns
<1>. QED
  BY <1>1, <1>2

\* The answer to a save.
LEMMA AnswerKeeps ==
    ASSUME AccountsInv, RowsInv, NEW r \in Requests, NEW stage, change[r] # None,
           requests' = [requests EXCEPT ![r].stage = stage], change' = [change EXCEPT ![r] = None],
           StoredRows' = StoredRows, UNCHANGED <<license, epoch, expired>>, wrong' \in {0, wrong},
           \A s \in Requests : s # r => (Owns(s)' <=> Owns(s)),
           stage = "failed" \/ stage = requests[r].next,
           stage = "compare" /\ ~ requests[r].raced /\ requests[r].row.key = Seed => wrong' = 0
    PROVE  RowsInv'
<1>. DEFINE q == [requests[r] EXCEPT !.stage = stage]
<1>1. /\ At(r, "save") /\ InFlight(r) /\ IsRequest(requests[r]) /\ IsTyped(requests[r], change[r])
  BY DEF AccountsInv, RequestInv, InFlight, At, Ends, New, RowsInv, TypeInv
<1>2. /\ q.stage = stage /\ q.kind = requests[r].kind /\ q.next = requests[r].next
      /\ q.arg = requests[r].arg /\ q.row = requests[r].row /\ q.raced = requests[r].raced
  BY <1>1 DEF IsRequest
<1>3. /\ requests'[r] = q /\ change'[r] = None
      /\ \A s \in Requests : s # r => requests'[s] = requests[s] /\ change'[s] = change[s]
  BY DEF AccountsInv, RequestInv
<1>. HIDE DEF q
<1>4. stage \in {"done", "failed"} \/ (q.kind = "Login" /\ stage \in {"compare", "permissions"})
  BY <1>1, <1>2 DEF IsTyped
<1>5. Clears(q, None) => Clears(requests[r], change[r]) /\ stage = "compare"
  BY <1>1, <1>2, <1>4 DEF Clears, IsTyped
<1>6. IsTyped(q, None)
  <2>1. stage \in StagesOf[q.kind] \cup Ends
    BY <1>4 DEF StagesOf, Ends
  <2>. QED
    BY <1>1, <1>2, <1>5, <2>1 DEF IsTyped
<1>7. wrong' \in Nat /\ wrong' <= wrong /\ wrong \in Nat
  BY DEF RowsInv, TypeInv
<1>8. TypeInv'
  BY <1>3, <1>6, <1>7 DEF RowsInv, TypeInv, At
<1>9. KeyInv'
  <2>1. SUFFICES ASSUME NEW s \in Requests, Unwritten(s)'
                 PROVE  /\ \A x \in StoredRows' : x.key # s
                        /\ \A t \in Requests :
                              t # s \/ (~ At(s, "new")' /\ requests'[s].kind = "Login") =>
                                 Avoids(requests'[t], change'[t], s)
    BY DEF KeyInv
  <2>2. Unwritten(s) /\ (s = r => requests[r].kind = "Login")
    BY <1>1, <1>2, <1>3, <1>4, <2>1 DEF Unwritten, InFlight, At, Ends
  <2>3. ASSUME NEW t \in Requests, t # s \/ (~ At(s, "new")' /\ requests'[s].kind = "Login")
        PROVE  Avoids(requests'[t], change'[t], s)
    <3>1. t # s \/ (~ At(s, "new") /\ requests[s].kind = "Login")
      BY <1>1, <1>2, <1>3, <2>3 DEF At
    <3>2. Avoids(requests[t], change[t], s)
      BY <2>2, <3>1 DEF RowsInv, KeyInv
    <3>. QED
      BY <1>2, <1>3, <1>5, <3>2 DEF Avoids
  <2>. QED
    BY <2>2, <2>3 DEF RowsInv, KeyInv
<1>10. AloneInv'
  <2>1. SUFFICES ASSUME NEW s \in Requests, InFlight(s)', ~ requests'[s].raced
                 PROVE  IsAlone(s, requests[s], change[s])'
    BY DEF AloneInv
  <2>2. \A kind : Fields(kind)' = Fields(kind)
    BY DEF Fields
  <2>3. CASE s = r
    <3>1. IsAlone(r, requests[r], change[r]) /\ q.stage \in {"compare", "permissions"}
      BY <1>1, <1>2, <1>3, <1>4, <2>1, <2>3 DEF RowsInv, AloneInv, InFlight, Ends
    <3>2. Clears(q, None) => Clear(q.row, StoredRows) /\ (q.row.key = Seed => wrong' = 0)
      BY <1>2, <1>3, <1>5, <2>1, <2>3, <3>1 DEF IsAlone
    <3>. QED
      BY <1>3, <2>3, <3>1, <3>2 DEF IsAlone
  <2>4. CASE s # r
    <3>1. IsAlone(s, requests[s], change[s]) /\ requests'[s] = requests[s] /\ change'[s] = change[s]
      BY <1>3, <2>1, <2>4 DEF RowsInv, AloneInv, InFlight
    <3>2. Owns(s)' <=> Owns(s)
      BY <2>4
    <3>3. change[s] # None /\ ~ Owns(s) => Counts(requests[s], change[s].rows, wrong')
      <4>1. SUFFICES ASSUME change[s] # None, ~ Owns(s), NEW x \in change[s].rows,
                            requests[s].kind = "Login", requests[s].next = "failed",
                            x.section = "auth", x.key = Seed
                     PROVE  wrong' + 1 <= x.attempts
        BY DEF Counts
      <4>2. wrong + 1 <= x.attempts
        BY <3>1, <4>1 DEF IsAlone, Counts
      <4>3. IsTyped(requests[s], change[s])
        BY <4>1 DEF AccountsInv, RequestInv, RowsInv, TypeInv, At
      <4>4. x.attempts \in Nat
        BY <4>1, <4>3, AccountsAssumption DEF IsTyped, IsChange, AreRows, IsRow
      <4>. QED
        BY <1>7, <4>2, <4>4
    <3>4. wrong = 0 => wrong' = 0
      BY <1>7
    <3>. QED
      BY <2>2, <3>1, <3>2, <3>3, <3>4 DEF IsAlone
  <2>. QED
    BY <2>3, <2>4
<1>11. WrongInv'
  <2>1. SUFFICES ASSUME NEW x \in StoredRows, x.section = "auth", x.key = Seed
                 PROVE  wrong' <= x.attempts
    BY DEF WrongInv
  <2>2. x.attempts \in Nat /\ wrong <= x.attempts
    BY <2>1, AccountsAssumption DEF RowsInv, TypeInv, AreRows, IsRow, WrongInv
  <2>. QED
    BY <1>7, <2>2
<1>. QED
  BY <1>8, <1>9, <1>10, <1>11 DEF RowsInv

LEMMA AnswersKeep ==
    ASSUME AccountsInv, RowsInv, NEW r \in Requests, Saved(r) \/ SaveFails(r)
    PROVE  RowsInv'
<1>1. CASE Saved(r)
  <2>1. /\ Torn /\ writer.request = r /\ writer' = Unlocked /\ writer # Unlocked
        /\ config' \in Overwritten(config, writer.rows)
        /\ change' = [change EXCEPT ![r] = None]
        /\ requests' = [requests EXCEPT ![r].stage = requests[r].next]
        /\ UNCHANGED <<license, epoch, expired, wrong>>
    BY <1>1 DEF Saved, WriteConfig, Torn, Unlocked
  <2>2. config = {} /\ change[r] # None
    BY <2>1 DEF AccountsInv, WriterInv
  <2>3. ~ Torn' /\ config' = writer.rows
    BY <2>1, <2>2 DEF Torn, Unlocked, Overwritten
  <2>4. StoredRows' = StoredRows /\ \A s \in Requests : s # r => (Owns(s)' <=> Owns(s))
    BY <2>1, <2>3 DEF StoredRows, Owns
  <2>5. requests[r].next = "compare" /\ ~ requests[r].raced /\ requests[r].row.key = Seed => wrong = 0
    <3>1. Owns(r) /\ InFlight(r)
      BY <2>1, <2>2 DEF Owns, InFlight, At, Ends, AccountsInv, RequestInv
    <3>. QED
      BY <2>2, <3>1 DEF RowsInv, AloneInv, IsAlone, Clears
  <2>. DEFINE stage == requests[r].next
  <2>6. requests' = [requests EXCEPT ![r].stage = stage] /\ stage = requests[r].next
    BY <2>1
  <2>. HIDE DEF stage
  <2>. QED
    BY <2>1, <2>2, <2>4, <2>5, <2>6, AnswerKeeps
<1>2. CASE SaveFails(r)
  <2>. DEFINE stage == IF requests[r].kind = "Login" /\ requests[r].next # "done"
                       THEN requests[r].next ELSE "failed"
  <2>1. /\ change[r] # None /\ change' = [change EXCEPT ![r] = None]
        /\ requests' = [requests EXCEPT ![r].stage = stage]
        /\ wrong' = (IF FindsHoldOver(r) THEN 0 ELSE wrong)
        /\ UNCHANGED <<config, license, writer, epoch, expired>>
    BY <1>2 DEF SaveFails, LockTimeout
  <2>2. /\ stage = "failed" \/ stage = requests[r].next
        /\ stage = "compare" => requests[r].kind = "Login" /\ requests[r].next = "compare"
    OBVIOUS
  <2>. HIDE DEF stage
  <2>3. stage = "compare" /\ ~ requests[r].raced /\ requests[r].row.key = Seed => wrong' = 0
    BY <2>1, <2>2 DEF FindsHoldOver
  <2>. QED
    BY <2>1, <2>2, <2>3, SameRows, AnswerKeeps
<1>. QED
  BY <1>1, <1>2

\* Nobody is in flight after the end of the process, nor when a hold runs out.
LEMMA EndsKeep ==
    ASSUME AccountsInv, RowsInv, HoldElapses \/ Restart
    PROVE  RowsInv'
<1>1. CASE HoldElapses
  <2>1. /\ UNCHANGED <<config, license, writer, change, requests, expired, wrong>>
        /\ epoch' \in 1..MaxEpoch /\ \A r \in Requests : ~ InFlight(r)'
    BY <1>1, AccountsAssumption DEF HoldElapses, InFlight, RowsInv, TypeInv
  <2>. QED
    BY <2>1, SameRows DEF RowsInv, TypeInv, KeyInv, AloneInv, WrongInv, Unwritten, At, InFlight
<1>2. CASE Restart
  <2>1. /\ writer' = Unlocked /\ UNCHANGED <<config, license, epoch, expired, wrong>>
        /\ \A r \in Requests :
              /\ change'[r] = None
              /\ requests'[r] = IF InFlight(r) THEN [requests[r] EXCEPT !.stage = "failed"]
                                               ELSE requests[r]
    BY <1>2 DEF Restart, StopStore
  <2>2. StoredRows' \subseteq StoredRows /\ ~ Torn'
    BY <2>1 DEF StoredRows, Torn, Unlocked, AccountsInv, WriterInv
  <2>3. \A r \in Requests :
          /\ ~ InFlight(r)' /\ (At(r, "new")' <=> At(r, "new"))
          /\ ~ At(r, "new") => IsTyped(requests'[r], None)
          /\ ~ Clears(requests'[r], None)
    <3>1. TAKE r \in Requests
    <3>2. InFlight(r) => IsRequest(requests[r])
      BY DEF InFlight, AccountsInv, RequestInv, New
    <3>3. /\ ~ InFlight(r)' /\ (At(r, "new")' <=> At(r, "new"))
          /\ requests'[r].stage \in Ends \cup {"new"}
          /\ InFlight(r) => /\ requests'[r].kind = requests[r].kind
                            /\ requests'[r].next = requests[r].next
                            /\ requests'[r].arg = requests[r].arg
                            /\ requests'[r].raced = requests[r].raced
      BY <2>1, <3>2 DEF InFlight, At, Ends, IsRequest
    <3>4. ~ Clears(requests'[r], None)
      BY <3>3 DEF Clears, Ends
    <3>5. ~ At(r, "new") => IsTyped(requests[r], change[r])
      BY DEF RowsInv, TypeInv
    <3>6. ~ At(r, "new") => IsTyped(requests'[r], None)
      <4>1. /\ requests'[r].kind = requests[r].kind /\ requests'[r].next = requests[r].next
            /\ requests'[r].arg = requests[r].arg /\ requests'[r].raced = requests[r].raced
        BY <2>1, <3>3
      <4>2. ~ At(r, "new") => requests'[r].stage \in Ends
        BY <3>3 DEF At, Ends
      <4>. QED
        BY <3>4, <3>5, <4>1, <4>2 DEF IsTyped
    <3>. QED
      BY <3>3, <3>4, <3>6
  <2>4. TypeInv'
    BY <2>1, <2>2, <2>3 DEF RowsInv, TypeInv, AreRows
  <2>5. KeyInv'
    BY <2>1, <2>2, <2>3 DEF RowsInv, KeyInv, Unwritten, Avoids
  <2>6. AloneInv' /\ WrongInv'
    BY <2>1, <2>2, <2>3 DEF RowsInv, AloneInv, WrongInv
  <2>. QED
    BY <2>4, <2>5, <2>6 DEF RowsInv
<1>. QED
  BY <1>1, <1>2

LEMMA StepKeeps == AccountsInv /\ RowsInv /\ [AccountsNext]_accountVars => RowsInv'
<1>. SUFFICES ASSUME AccountsInv, RowsInv, [AccountsNext]_accountVars PROVE RowsInv'
  OBVIOUS
<1>1. CASE \E r \in Requests : Fetch(r) \/ Begin(r)
  BY <1>1, FetchesKeep, BeginKeeps
<1>2. CASE (\E r \in Requests : Lock(r)) \/ LicenceStep
  BY <1>2, WriterKeeps
<1>3. CASE \E r \in Requests : Saved(r) \/ SaveFails(r)
  BY <1>3, AnswersKeep
<1>4. CASE ConfigStep \/ HoldElapses \/ Restart
  BY <1>4, ConfigStepKeeps, EndsKeep
<1>5. CASE LicenceExpires \/ UNCHANGED accountVars
  <2>1. UNCHANGED <<config, license, writer, change, requests, epoch, wrong>> /\ (expired => expired')
    BY <1>5 DEF LicenceExpires, accountVars
  <2>2. license \in {None, "key"}
    BY DEF RowsInv, TypeInv
  <2>. QED
    BY <2>1, <2>2, SameRows, QuietKeeps
<1>. QED
  BY <1>1, <1>2, <1>3, <1>4, <1>5 DEF AccountsNext, RequestStep, Fetch

LEMMA RowsInvariant == AccountsSpec => []RowsInv
<1>1. RowsInv /\ AccountsInv /\ [AccountsNext]_accountVars => RowsInv'
  BY StepKeeps
<1>. QED
  BY <1>1, InitRows, AccountsInvariant, PTL DEF AccountsSpec

-----------------------------------------------------------------------------
(* The theorems about the rows.                                            *)

(* Requests, rows and counters keep their types: a row belongs to a section *)
(* of the file and is alone with its key, and no counter of wrong passwords *)
(* passes the limit.                                                        *)
THEOREM AccountsTypeCorrect == AccountsSpec => []AccountsTypeOK
<1>1. AccountsInv /\ RowsInv => AccountsTypeOK
  <2>. SUFFICES ASSUME AccountsInv, RowsInv PROVE AccountsTypeOK
    OBVIOUS
  <2>1. StoreTypeOK
    BY DEF AccountsInv, WriterInv, RequestInv, IsWriter, StoreTypeOK
  <2>2. \A r \in Requests : ~ At(r, "new") =>
          /\ requests[r].kind \in Kinds /\ requests[r].stage \in Stages \cup Ends
          /\ requests[r].next \in Stages \cup Ends /\ requests[r].raced \in BOOLEAN
          /\ change[r] # None => requests[r].stage = "save"
    <3>1. SUFFICES ASSUME NEW r \in Requests, ~ At(r, "new")
                   PROVE  /\ requests[r].kind \in Kinds /\ requests[r].stage \in Stages \cup Ends
                          /\ requests[r].next \in Stages \cup Ends /\ requests[r].raced \in BOOLEAN
                          /\ change[r] # None => requests[r].stage = "save"
      OBVIOUS
    <3>2. IsTyped(requests[r], change[r])
      BY <3>1 DEF RowsInv, TypeInv
    <3>3. requests[r].kind \in DOMAIN Touched
      BY <3>2, AccountsAssumption DEF IsTyped
    <3>4. requests[r].stage \in Stages \cup Ends
      BY <3>2, <3>3 DEF IsTyped, StagesOf, Touched, Stages, Ends
    <3>5. requests[r].next \in Stages \cup Ends
      BY <3>2 DEF IsTyped, Stages, Ends
    <3>. QED
      BY <3>2, <3>4, <3>5 DEF IsTyped, AccountsInv, RequestInv, At
  <2>3. \A x \in StoredRows : /\ x.section \in Sections /\ x.key \in Keys
                              /\ x.section = "auth" => x.attempts \in 0..InvalidPasswordLimit
    BY DEF RowsInv, TypeInv, AreRows, IsRow
  <2>4. \A x, y \in StoredRows : SameRow(x, y) => x = y
    BY DEF RowsInv, TypeInv, AreRows
  <2>. QED
    BY <2>1, <2>2, <2>3, <2>4 DEF RowsInv, TypeInv, AccountsTypeOK
<1>. QED
  BY <1>1, AccountsInvariant, RowsInvariant, PTL

\* The step of a save that was not overtaken.
LEMMA SavingAlone ==
    ASSUME AccountsInv, RowsInv, [AccountsNext]_accountVars, NEW r \in Requests, SavesAlone(r)
    PROVE  /\ ConfigStep /\ InFlight(r) /\ change[r] # None /\ StoredRows = config
           /\ StoredRows' = Applied(config, change[r])
           /\ Fits(r, change[r].rows, config, Fields(requests[r].kind))
           /\ IsTyped(requests[r], change[r]) /\ Unwritten(r)
<1>1. writer # Unlocked /\ writer.request = r /\ ~ Torn /\ Torn' /\ ~ requests[r].raced
  BY DEF SavesAlone
<1>2. ConfigStep
  <2>1. ~ \E s \in Requests : Fetch(s) \/ Begin(s)
    BY <1>1, FetchFetches DEF Fetching, Begin, Torn, AccountsInv
  <2>2. ~ LicenceStep
    <3>1. IsWriter(writer)
      BY <1>1 DEF AccountsInv, WriterInv
    <3>2. SUFFICES ASSUME LicenceStep PROVE FALSE
      OBVIOUS
    <3>3. writer'.step \in {"licenceTorn", "computed"}
      BY <3>1, <3>2 DEF LicenceStep, TruncateLicence, WriteLicence, IsWriter
    <3>. QED
      BY <1>1, <3>3 DEF Torn
  <2>3. ~ (\E s \in Requests : Lock(s) \/ Saved(s) \/ SaveFails(s))
    BY <1>1 DEF Lock, LockAndRead, Saved, WriteConfig, SaveFails, LockTimeout, Torn
  <2>4. ~ (HoldElapses \/ LicenceExpires \/ Restart \/ UNCHANGED accountVars)
    BY <1>1 DEF HoldElapses, LicenceExpires, Restart, StopStore, Torn, Unlocked, accountVars
  <2>. QED
    BY <2>1, <2>2, <2>3, <2>4 DEF AccountsNext, RequestStep, Fetch
<1>3. /\ writer.rows = Applied(config, change[r]) /\ change[r] # None /\ IsWriter(writer)
      /\ StoredRows = config
  BY <1>1 DEF AccountsInv, WriterInv, StoredRows
<1>4. StoredRows' = writer.rows
  BY <1>1, <1>2, <1>3 DEF ConfigStep, TruncateConfig, StoredRows, IsWriter
<1>5. InFlight(r) /\ ~ Owns(r) /\ ~ At(r, "new")
  BY <1>1, <1>3 DEF AccountsInv, RequestInv, InFlight, At, Ends, Owns
<1>6. IsTyped(requests[r], change[r]) /\ Unwritten(r)
  BY <1>5 DEF RowsInv, TypeInv, Unwritten
<1>7. Fits(r, change[r].rows, config, Fields(requests[r].kind))
  BY <1>1, <1>3, <1>5 DEF RowsInv, AloneInv, IsAlone
<1>. QED
  BY <1>2, <1>3, <1>4, <1>5, <1>6, <1>7

(* A request whose fetch and save nobody overtook gives back every row as    *)
(* the file has it, but for the fields it is there to change, and revives no *)
(* deleted row, although it writes back whole rows that it read long ago.    *)
THEOREM UndisturbedSavesKeep == AccountsSpec => OnlyRacesRevert
<1>1. AccountsInv /\ RowsInv /\ [AccountsNext]_accountVars =>
        [\A r \in Requests : SavesAlone(r) =>
            LET kind == requests[r].kind IN
            /\ \A x \in StoredRows : kind # "DeleteDevice" =>
                  \E y \in StoredRows' : /\ SameRow(x, y)
                                         /\ \A f \in DOMAIN x : x[f] = y[f] \/ f \in Fields(kind)
            /\ \A y \in StoredRows' : y.key # r => \E x \in StoredRows : SameRow(x, y)]_accountVars
  <2>1. SUFFICES ASSUME AccountsInv, RowsInv, [AccountsNext]_accountVars,
                        NEW r \in Requests, SavesAlone(r)
                 PROVE  /\ \A x \in StoredRows : requests[r].kind # "DeleteDevice" =>
                              \E y \in StoredRows' : /\ SameRow(x, y)
                                 /\ \A f \in DOMAIN x : x[f] = y[f] \/ f \in Fields(requests[r].kind)
                        /\ \A y \in StoredRows' : y.key # r => \E x \in StoredRows : SameRow(x, y)
    OBVIOUS
  <2>2. /\ StoredRows = config /\ StoredRows' = Applied(config, change[r])
        /\ Fits(r, change[r].rows, config, Fields(requests[r].kind))
        /\ requests[r].kind # "DeleteDevice" => change[r].gone = {}
        /\ AreRows(config) /\ \A x \in config : x.key # r
    BY <2>1, SavingAlone DEF IsTyped, IsChange, RowsInv, TypeInv, KeyInv
  <2>3. ASSUME NEW x \in StoredRows, requests[r].kind # "DeleteDevice"
        PROVE  \E y \in StoredRows' : /\ SameRow(x, y)
                  /\ \A f \in DOMAIN x : x[f] = y[f] \/ f \in Fields(requests[r].kind)
    <3>1. CASE x \in StoredRows'
      BY <3>1 DEF SameRow
    <3>2. ASSUME NEW z \in change[r].rows, SameRow(x, z), z \in StoredRows'
          PROVE  \E y \in StoredRows' : /\ SameRow(x, y)
                    /\ \A f \in DOMAIN x : x[f] = y[f] \/ f \in Fields(requests[r].kind)
      <4>1. z.key # r
        BY <2>2, <2>3, <3>2 DEF SameRow
      <4>2. PICK w \in config : Replaces(z, w, Fields(requests[r].kind))
        BY <2>2, <4>1 DEF Fits
      <4>3. w = x
        BY <2>2, <2>3, <3>2, <4>2 DEF Replaces, SameRow, AreRows
      <4>. QED
        BY <3>2, <4>2, <4>3 DEF Replaces
    <3>3. x \in StoredRows' \/ \E z \in change[r].rows : SameRow(x, z) /\ z \in StoredRows'
      BY <2>2, <2>3, AppliedKeeps
    <3>. QED
      BY <3>1, <3>2, <3>3
  <2>4. ASSUME NEW y \in StoredRows', y.key # r
        PROVE  \E x \in StoredRows : SameRow(x, y)
    <3>1. y \in change[r].rows \/ y \in config
      BY <2>2, <2>4, AppliedIsFromBoth
    <3>2. CASE y \in change[r].rows
      BY <2>2, <2>4, <3>2 DEF Fits, Replaces, SameRow
    <3>3. CASE y \in config
      BY <2>2, <3>3 DEF SameRow
    <3>. QED
      BY <3>1, <3>2, <3>3
  <2>. QED
    BY <2>3, <2>4
<1>. QED
  BY <1>1, AccountsInvariant, RowsInvariant, PTL DEF AccountsSpec, OnlyRacesRevert

(* Two accounts, roles or devices of one name are never the work of a save  *)
(* that nobody overtook: the look-up of the name is then still true when    *)
(* the rows are stored.                                                     *)
THEOREM UndisturbedSavesAddNoTwin == AccountsSpec => OnlyRacesDuplicate
<1>1. AccountsInv /\ RowsInv /\ [AccountsNext]_accountVars =>
        [\A r \in Requests : SavesAlone(r) =>
            Twins(StoredRows') \subseteq
               {y \in StoredRows' : \E x \in Twins(StoredRows) : SameRow(x, y)}]_accountVars
  <2>1. SUFFICES ASSUME AccountsInv, RowsInv, [AccountsNext]_accountVars,
                        NEW r \in Requests, SavesAlone(r), NEW y \in Twins(StoredRows')
                 PROVE  y \in StoredRows' /\ \E x \in Twins(StoredRows) : SameRow(x, y)
    OBVIOUS
  <2>2. /\ StoredRows = config /\ StoredRows' = Applied(config, change[r])
        /\ Fits(r, change[r].rows, config, Fields(requests[r].kind))
    BY <2>1, SavingAlone
  <2>3. ASSUME NEW v \in StoredRows', v.section \in NamedSections
        PROVE  \/ v.key = r /\ \A w \in config : w.section = v.section => Identity(w) # Identity(v)
               \/ \E w \in config : SameRow(w, v) /\ Identity(w) = Identity(v)
    <3>1. v \in change[r].rows \/ v \in config
      BY <2>2, AppliedIsFromBoth
    <3>. QED
      BY <2>2, <2>3, <3>1 DEF Fits, Replaces, SameRow
  <2>4. PICK z \in StoredRows' : /\ y \in StoredRows' /\ y.section \in NamedSections
                                 /\ z.section = y.section /\ z.key # y.key
                                 /\ Identity(z) = Identity(y)
    BY <2>1 DEF Twins, NamedSections
  <2>5. \/ y.key = r /\ \A w \in config : w.section = y.section => Identity(w) # Identity(y)
        \/ \E w \in config : SameRow(w, y) /\ Identity(w) = Identity(y)
    BY <2>3, <2>4
  <2>6. \/ z.key = r /\ \A w \in config : w.section = z.section => Identity(w) # Identity(z)
        \/ \E w \in config : SameRow(w, z) /\ Identity(w) = Identity(z)
    BY <2>3, <2>4
  <2>7. PICK x \in config, w \in config : /\ SameRow(x, y) /\ Identity(x) = Identity(y)
                                          /\ SameRow(w, z) /\ Identity(w) = Identity(z)
    BY <2>4, <2>5, <2>6 DEF SameRow
  <2>8. x \in Twins(StoredRows)
    BY <2>2, <2>4, <2>7 DEF Twins, SameRow, NamedSections
  <2>. QED
    BY <2>4, <2>7, <2>8
<1>. QED
  BY <1>1, AccountsInvariant, RowsInvariant, PTL DEF AccountsSpec, OnlyRacesDuplicate

\* Only the two comparisons take a login from these stages to a save.
LEMMA Comparing ==
    ASSUME AccountsInv, [AccountsNext]_accountVars, NEW r \in Requests,
           At(r, "account") \/ At(r, "compare"), requests[r].kind = "Login",
           requests'[r].stage = "save"
    PROVE  Authenticate(r) \/ CompareAfterHold(r)
<1>1. ASSUME NEW s \in Requests, Fetch(s)
      PROVE  Authenticate(r) \/ CompareAfterHold(r)
  <2>1. requests' = [requests EXCEPT ![s] = requests'[s]]
    BY <1>1, FetchFetches DEF Fetching, AccountsInv
  <2>2. s = r
    BY <2>1 DEF AccountsInv, RequestInv, At
  <2>3. ~ AccountMissing(r)
    <3>1. SUFFICES ASSUME AccountMissing(r) PROVE FALSE
      OBVIOUS
    <3>2. IsRequest(requests[r])
      BY DEF AccountsInv, RequestInv, New, At
    <3>3. requests'[r] = [requests[r] EXCEPT !.stage = "failed", !.raced = @ \/ Torn]
      BY <3>1 DEF AccountMissing, GoTo, AccountsInv, RequestInv
    <3>4. requests'[r].stage = "failed"
      BY <3>2, <3>3 DEF IsRequest
    <3>. QED
      BY <3>4
  <2>. QED
    BY <1>1, <2>2, <2>3 DEF Fetch, FetchLicence, Downgrade, ResetAdmin, ChangePassword, CheckNames,
       CreateChildAdmin, RoleNameTaken, CreateRolePermission, Signup,
       UpdateAdminPersonalDetails, CreateDevice, UpdateDevice, At
<1>2. ASSUME NEW s \in Requests, Begin(s) \/ Saved(s) \/ SaveFails(s) PROVE FALSE
  <2>1. requests'[r] = requests[r] \/ s = r
    BY <1>2 DEF Begin, Saved, SaveFails, AccountsInv, RequestInv
  <2>2. ~ Begin(r)
    BY DEF Begin, At
  <2>3. ~ (Saved(r) \/ SaveFails(r))
    BY DEF Saved, WriteConfig, SaveFails, LockTimeout, AccountsInv, WriterInv, RequestInv, Torn,
           Unlocked, At
  <2>. QED
    BY <1>2, <2>1, <2>2, <2>3 DEF At
<1>3. ASSUME ConfigStep PROVE FALSE
  <2>1. requests'[r] = requests[r] \/ requests'[r] = [requests[r] EXCEPT !.raced = TRUE]
    BY <1>3 DEF ConfigStep
  <2>2. IsRequest(requests[r])
    BY DEF AccountsInv, RequestInv, New, At
  <2>. QED
    BY <2>1, <2>2 DEF IsRequest, At
<1>4. ASSUME Restart PROVE FALSE
  <2>1. requests'[r] = requests[r] \/ requests'[r] = [requests[r] EXCEPT !.stage = "failed"]
    BY <1>4 DEF Restart
  <2>2. IsRequest(requests[r])
    BY DEF AccountsInv, RequestInv, New, At
  <2>. QED
    BY <2>1, <2>2 DEF IsRequest, At
<1>5. ASSUME (\E s \in Requests : Lock(s)) \/ LicenceStep \/ HoldElapses \/ LicenceExpires
             \/ UNCHANGED accountVars
      PROVE  FALSE
  BY <1>5 DEF Lock, LicenceStep, HoldElapses, LicenceExpires, accountVars, At
<1>. QED
  BY <1>1, <1>2, <1>3, <1>4, <1>5 DEF AccountsNext, RequestStep, Fetch

(* The passwords tried against an account are limited: what has been counted *)
(* since the counter was cleared is below the limit whenever a login that    *)
(* overlaps no other save compares a password, for any number of logins.     *)
THEOREM GuessesAreBounded == AccountsSpec => GuessesBounded
<1>1. AccountsInv /\ RowsInv /\ [AccountsNext]_accountVars =>
        [\A r \in Requests :
            (/\ (At(r, "account") \/ At(r, "compare")) /\ requests[r].kind = "Login"
             /\ requests'[r].stage = "save" /\ requests'[r].row.key = Seed
             /\ requests'[r].next # "compare" /\ ~ requests'[r].raced)
            => wrong < InvalidPasswordLimit]_accountVars
  <2>1. SUFFICES ASSUME AccountsInv, RowsInv, [AccountsNext]_accountVars, NEW r \in Requests,
                        At(r, "account") \/ At(r, "compare"), requests[r].kind = "Login",
                        requests'[r].stage = "save", requests'[r].row.key = Seed,
                        requests'[r].next # "compare", ~ requests'[r].raced
                 PROVE  wrong < InvalidPasswordLimit
    OBVIOUS
  <2>2. /\ requests[r].stage \notin Ends \cup {"new", "save"} /\ IsRequest(requests[r])
        /\ ~ Torn => StoredRows = config
        /\ Torn => config = {}
    BY <2>1, Looking DEF Ends, At
  <2>3. wrong \in Nat /\ InvalidPasswordLimit \in Nat \ {0}
    BY <2>1, AccountsAssumption DEF RowsInv, TypeInv
  <2>4. CASE Authenticate(r)
    <3>1. PICK row \in AccountsOf(r) :
              \/ Limited(row) /\ Held(row) /\ GoTo(r, "failed")
              \/ Limited(row) /\ ~ Held(row)
                 /\ SaveOver(r, ClearTimeout(row), {ClearTimeout(row)}, "compare")
              \/ ~ Limited(row) /\ Compare(r, row)
      BY <2>4 DEF Authenticate
    <3>2. row \in config /\ row.section = "auth" /\ StoredRows = config
      BY <2>1, <2>2, <3>1 DEF AccountsOf, Named
    <3>3. ASSUME GoTo(r, "failed") PROVE FALSE
      <4>1. requests'[r] = [requests[r] EXCEPT !.stage = "failed", !.raced = @ \/ Torn]
        BY <2>1, <3>3 DEF GoTo, AccountsInv, RequestInv
      <4>2. requests'[r].stage = "failed"
        BY <2>2, <4>1 DEF IsRequest
      <4>. QED
        BY <2>1, <4>2
    <3>4. ASSUME NEW other, NEW rows, NEW next, SaveOver(r, other, rows, next)
          PROVE  requests'[r].row = other /\ requests'[r].next = next
      <4>1. requests'[r] = [requests[r] EXCEPT !.stage = "save", !.next = next,
                                               !.row = other, !.raced = Torn]
        BY <2>1, <3>4 DEF SaveOver, AccountsInv, RequestInv
      <4>. QED
        BY <2>2, <4>1 DEF IsRequest
    <3>5. ~ Limited(row) /\ Compare(r, row)
      BY <2>1, <3>1, <3>3, <3>4
    <3>6. row.key = Seed
      BY <2>1, <3>4, <3>5 DEF Compare
    <3>7. wrong <= row.attempts /\ row.attempts \in Nat
      BY <2>1, <3>2, <3>6, AccountsAssumption DEF RowsInv, WrongInv, TypeInv, AreRows, IsRow
    <3>. QED
      BY <2>3, <3>5, <3>7 DEF Limited
  <2>5. CASE CompareAfterHold(r)
    <3>1. PICK rows, next : SaveAfter(r, rows, next)
      BY <2>5 DEF CompareAfterHold
    <3>2. requests'[r] = [requests[r] EXCEPT !.stage = "save", !.next = next, !.raced = @ \/ Torn]
      BY <2>1, <3>1 DEF SaveAfter, AccountsInv, RequestInv
    <3>3. requests'[r].row = requests[r].row /\ ~ requests[r].raced
      BY <2>1, <2>2, <3>2 DEF IsRequest
    <3>4. requests[r].stage = "compare" /\ InFlight(r)
      BY <2>2, <2>5 DEF CompareAfterHold, At, InFlight
    <3>5. wrong = 0
      BY <2>1, <3>3, <3>4 DEF RowsInv, AloneInv, IsAlone, Clears
    <3>. QED
      BY <2>3, <3>5
  <2>. QED
    BY <2>1, <2>4, <2>5, Comparing
<1>. QED
  BY <1>1, AccountsInvariant, RowsInvariant, PTL DEF AccountsSpec, GuessesBounded
=============================================================================
