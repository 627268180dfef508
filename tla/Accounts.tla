------------------------------ MODULE Accounts ------------------------------
(***************************************************************************)
(* The requests that fetch rows of config.yaml, check them, and save whole *)
(* rows: login with its retry counter, passwords, signup, child admins,    *)
(* roles, personal details and firewall devices.  A fetch and the save     *)
(* that rests on it are separate steps: WriteMu protects the rewriting of  *)
(* the file, never the interval between a fetch and a save.                *)
(***************************************************************************)
EXTENDS ConfigStore, Naturals

CONSTANTS
    Names,           \* user names
    DefaultName,     \* the user name "admin"
    Passwords,
    DefaultPassword, \* what a login with the appliance key sets
    Serials, Ips,    \* of firewall devices
    InvalidPasswordLimit,
    MaxEpoch,        \* bound: holds that run out
    Kinds            \* the kinds of request of a behaviour

VARIABLES
    requests,   \* the requests, each made once
    epoch,      \* the current stretch of five minutes
    expired,    \* the time of the licence key is over
    wrong       \* history: wrong passwords counted for the first account

accountVars == <<config, license, writer, change, requests, epoch, expired, wrong>>

Sections == {"auth", "admin", "role", "permission", "device"}

\* The sections whose rows a request reads and may save.
Touched ==
    [Login |-> {"auth", "permission"}, ResetAdmin |-> {"auth"}, ChangePassword |-> {"auth"},
     Signup |-> Sections \ {"device"}, CreateChildAdmin |-> {"auth", "admin"},
     CreateRolePermission |-> {"role", "permission"}, UpdateAdminPersonalDetails |-> {"admin"},
     CreateDevice |-> {"device"}, DeleteDevice |-> {"device"}, UpdateDevice |-> {"device"}]

Seed == "seed"   \* the key of the first account

ASSUME AccountsAssumption ==
    /\ Seed \notin Requests
    /\ DefaultName \in Names /\ DefaultPassword \in Passwords
    /\ InvalidPasswordLimit \in Nat \ {0} /\ MaxEpoch \in Nat \ {0}
    /\ Kinds \subseteq DOMAIN Touched

Keys == Requests \cup {Seed}
SuperRole == "SuperAdminRole"
OtherRole == "OtherRole"

\* UserAuthentication; since is the stretch of HoldingDatetime, 0 when it is not set.
Auth(k, n, p, super) == [section |-> "auth", key |-> k, name |-> n, password |-> p,
                         attempts |-> 0, since |-> 0, super |-> super]
\* Admin, under the key of its UserAuthentication; name stands for the name,
\* the email address and the phone number.
AdminRow(k, n, role) == [section |-> "admin", key |-> k, name |-> n, role |-> role]
Role(k, n) == [section |-> "role", key |-> k, name |-> n]
\* The RoleAndAction rows of a role, one per feature, which always agree.
Permission(k) == [section |-> "permission", key |-> k, level |-> "full"]
Device(k, serial, ip) == [section |-> "device", key |-> k, serial |-> serial, ip |-> ip]

\* FetchSpecificConfigData, by name and by key.
Named(s, n) == {x \in config : x.section = s /\ x.name = n}
Keyed(s, k) == {x \in config : x.section = s /\ x.key = k}

\* UserAuthentication, Admin, Role and RoleAndAction rows of the first account.
SignedUp == {Auth(Seed, DefaultName, DefaultPassword, TRUE), AdminRow(Seed, DefaultName, Seed),
             Role(Seed, SuperRole), Permission(Seed)}

New == [stage |-> "new"]   \* a request not made yet

AccountsInit ==
    /\ StoreInit
    /\ \/ config = {} /\ license = None
       \/ config = SignedUp /\ license = "key"
    /\ requests = [r \in Requests |-> New]
    /\ epoch = 1 /\ expired = FALSE /\ wrong = 0

Stages == {"licence", "account", "names", "references", "roleName", "admin",
           "serial", "device", "compare", "permissions", "save"}
Ends == {"done", "failed"}

At(r, stage) == requests[r].stage = stage
InFlight(r) == requests[r].stage \notin Ends \cup {"new"}

\* Every row that a request can save has a copy of one it read or is its own.
AccountsTypeOK ==
    /\ StoreTypeOK
    /\ \A r \in Requests : ~ At(r, "new") =>
          /\ requests[r].kind \in Kinds /\ requests[r].stage \in Stages \cup Ends
          /\ requests[r].next \in Stages \cup Ends /\ requests[r].raced \in BOOLEAN
          /\ change[r] # None => requests[r].stage = "save"
    /\ \A x \in StoredRows : /\ x.section \in Sections /\ x.key \in Keys
                             /\ x.section = "auth" => x.attempts \in 0..InvalidPasswordLimit
    /\ \A x, y \in StoredRows : SameRow(x, y) => x = y
    /\ license \in {None, "key"} /\ epoch \in 1..MaxEpoch /\ wrong \in Nat

-----------------------------------------------------------------------------
(* Requests: a new account has the default password. *)

Arguments(kind) ==
    CASE kind = "Login" -> [name : Names, password : Passwords]
      [] kind = "ResetAdmin" -> {[name |-> DefaultName, password |-> DefaultPassword]}
      [] kind = "ChangePassword" ->
            [key : {x.key : x \in {y \in StoredRows : y.section = "auth"}},
             given : Passwords, password : Passwords]
      [] kind = "Signup" -> [name : Names]
      [] kind = "CreateChildAdmin" ->
            [name : Names,
             role : {x.key : x \in {y \in StoredRows : y.section = "role"}}]
      [] kind = "CreateRolePermission" -> [name : {SuperRole, OtherRole}]
      [] kind = "UpdateAdminPersonalDetails" ->
            [key : {x.key : x \in {y \in StoredRows : y.section = "admin"}}, name : Names]
      [] kind = "CreateDevice" -> [serial : Serials]
      [] kind = "DeleteDevice" ->
            [key : {x.key : x \in {y \in StoredRows : y.section = "device"}}]
      [] kind = "UpdateDevice" ->
            [key : {x.key : x \in {y \in StoredRows : y.section = "device"}}, ip : Ips]

FirstStage ==
    [Login |-> "licence", ResetAdmin |-> "licence", ChangePassword |-> "account",
     Signup |-> "licence", CreateChildAdmin |-> "names", CreateRolePermission |-> "roleName",
     UpdateAdminPersonalDetails |-> "admin", CreateDevice |-> "serial",
     DeleteDevice |-> "save", UpdateDevice |-> "device"]

\* late is history: the signup came when another one had ended with a licence.
Begin(r) ==
    /\ At(r, "new")
    /\ \E kind \in Kinds : \E arg \in Arguments(kind) :
          /\ requests' = [requests EXCEPT ![r] =
                [kind |-> kind, arg |-> arg, stage |-> FirstStage[kind], next |-> "done",
                 row |-> None, raced |-> FALSE,
                 late |-> /\ kind = "Signup" /\ license # None
                          /\ \A s \in Requests : InFlight(s) => requests[s].kind # "Signup"]]
          /\ change' = IF kind = "DeleteDevice"
                       THEN [change EXCEPT ![r] = [rows |-> {}, license |-> None,
                                gone |-> {[section |-> "device", key |-> arg.key]}]]
                       ELSE change
    /\ UNCHANGED <<config, license, writer, epoch, expired, wrong>>

\* A fetch that ends the request or takes it to another stage.
GoTo(r, stage) ==
    /\ requests' = [requests EXCEPT ![r].stage = stage, ![r].raced = @ \/ Torn]
    /\ UNCHANGED <<config, license, writer, change, epoch, expired, wrong>>

\* A fetch on which the save of rows rests: what was saved before is seen by it.
SaveAfter(r, rows, next) ==
    /\ requests' = [requests EXCEPT ![r].stage = "save", ![r].next = next, ![r].raced = @ \/ Torn]
    /\ change' = [change EXCEPT ![r] = [rows |-> rows, gone |-> {}, license |-> None]]
    /\ UNCHANGED <<config, license, writer, epoch, expired, wrong>>

SaveOver(r, row, rows, next) ==
    /\ requests' = [requests EXCEPT ![r].stage = "save", ![r].next = next,
                                    ![r].row = row, ![r].raced = Torn]
    /\ change' = [change EXCEPT ![r] = [rows |-> rows, gone |-> {}, license |-> None]]
    /\ UNCHANGED <<config, license, writer, epoch, expired, wrong>>

-----------------------------------------------------------------------------
(* Login, Authenticate and RetryAttemptLimiter *)

\* Mutant of FetchLicence: Signup does not look for a licence.
FetchNoLicence(r) ==
    /\ At(r, "licence")
    /\ GoTo(r, IF requests[r].kind = "Signup" THEN "names" ELSE "account")

FetchLicence(r) ==
    /\ At(r, "licence")
    /\ IF requests[r].kind = "Signup"
       THEN GoTo(r, IF license # None THEN "failed" ELSE "names")
       ELSE GoTo(r, IF license = None THEN "failed" ELSE "account")

AccountsOf(r) ==
    IF requests[r].kind = "ChangePassword" THEN Keyed("auth", requests[r].arg.key)
                                           ELSE Named("auth", requests[r].arg.name)

AccountMissing(r) ==
    /\ At(r, "account") /\ AccountsOf(r) = {}
    /\ GoTo(r, "failed")

\* Mutant of Limited: the limit is exceeded by one.
LimitPassed(row) == row.attempts > InvalidPasswordLimit

Limited(row) == row.attempts >= InvalidPasswordLimit
Held(row) == row.since = epoch
ClearTimeout(row) == [row EXCEPT !.attempts = 0, !.since = epoch]
InvalidAttempted(row) == [row EXCEPT !.attempts = @ + 1, !.since = epoch]

\* Compare the password with the fetched row and save the outcome in it.
Compare(r, row) ==
    IF row.password = requests[r].arg.password
    THEN SaveOver(r, row, {ClearTimeout(row)}, "permissions")
    ELSE SaveOver(r, row, {InvalidAttempted(row)}, "failed")

\* checkUnderTimeout, with what follows it.
Authenticate(r) ==
    /\ At(r, "account") /\ requests[r].kind = "Login"
    /\ \E row \in AccountsOf(r) :
          \/ Limited(row) /\ Held(row) /\ GoTo(r, "failed")
          \/ Limited(row) /\ ~ Held(row)
             /\ SaveOver(r, ClearTimeout(row), {ClearTimeout(row)}, "compare")
          \/ ~ Limited(row) /\ Compare(r, row)

CompareAfterHold(r) ==
    /\ At(r, "compare")
    /\ LET row == requests[r].row IN
       IF row.password = requests[r].arg.password
       THEN SaveAfter(r, {ClearTimeout(row)}, "permissions")
       ELSE SaveAfter(r, {InvalidAttempted(row)}, "failed")

\* A login with an expired licence lowers the permissions of the admin's role.
Downgrade(r) ==
    /\ At(r, "permissions")
    /\ LET admin == Keyed("admin", requests[r].row.key)
           levels == UNION {Keyed("permission", a.role) : a \in admin}
       IN  IF levels = {} THEN GoTo(r, "failed")
           ELSE IF ~ expired THEN GoTo(r, "done")
           ELSE SaveOver(r, requests[r].row,
                         {[x EXCEPT !.level = "readonly"] : x \in levels}, "done")

\* A login with the serial number and the appliance key.
AdminAgain(row) == [row EXCEPT !.password = DefaultPassword, !.super = TRUE, !.name = DefaultName]

ResetAdmin(r) ==
    /\ At(r, "account") /\ requests[r].kind = "ResetAdmin"
    /\ \E row \in AccountsOf(r) :
          SaveOver(r, row, {AdminAgain(row)}, "done")

ChangePassword(r) ==
    /\ At(r, "account") /\ requests[r].kind = "ChangePassword"
    /\ \E row \in AccountsOf(r) :
          IF row.password # requests[r].arg.given THEN GoTo(r, "failed")
          ELSE SaveOver(r, row, {[row EXCEPT !.password = requests[r].arg.password]}, "done")

-----------------------------------------------------------------------------
(* Signup, CreateChildAdmin, CreateRolePermission, UpdateAdminPersonalDetails *)

CheckNames(r) ==
    /\ At(r, "names")
    /\ LET n == requests[r].arg.name IN
       IF Named("admin", n) \cup Named("auth", n) # {} THEN GoTo(r, "failed")
       ELSE GoTo(r, IF requests[r].kind = "Signup" THEN "roleName" ELSE "references")

CreateChildAdmin(r) ==
    /\ At(r, "references")
    /\ LET arg == requests[r].arg IN
       IF (\A x \in config : x.section = "auth" => ~ x.super) \/ Keyed("role", arg.role) = {}
       THEN GoTo(r, "failed")
       ELSE SaveAfter(r, {Auth(r, arg.name, DefaultPassword, FALSE),
                          AdminRow(r, arg.name, arg.role)}, "done")

RoleNameTaken(r) ==
    /\ At(r, "roleName")
    /\ Named("role", IF requests[r].kind = "Signup" THEN SuperRole ELSE requests[r].arg.name) # {}
    /\ GoTo(r, "failed")

CreateRolePermission(r) ==
    /\ At(r, "roleName") /\ requests[r].kind = "CreateRolePermission"
    /\ Named("role", requests[r].arg.name) = {}
    /\ SaveAfter(r, {Role(r, requests[r].arg.name), Permission(r)}, "done")

\* CreateLicenseKey only computes the row that is saved with the others.
Signup(r) ==
    /\ At(r, "roleName") /\ requests[r].kind = "Signup"
    /\ Named("role", SuperRole) = {}
    /\ requests' = [requests EXCEPT ![r].stage = "save", ![r].raced = @ \/ Torn]
    /\ LET arg == requests[r].arg IN
       change' = [change EXCEPT ![r] = [gone |-> {}, license |-> "key", rows |->
                    {Role(r, SuperRole), Permission(r), AdminRow(r, arg.name, r),
                     Auth(r, arg.name, DefaultPassword, TRUE)}]]
    /\ UNCHANGED <<config, license, writer, epoch, expired, wrong>>

UpdateAdminPersonalDetails(r) ==
    /\ At(r, "admin")
    /\ \/ Keyed("admin", requests[r].arg.key) = {} /\ GoTo(r, "failed")
       \/ \E row \in Keyed("admin", requests[r].arg.key) :
             SaveOver(r, row, {[row EXCEPT !.name = requests[r].arg.name]}, "done")

-----------------------------------------------------------------------------
(* CreateDevice and UpdateDevice; DeleteDevice reads nothing *)

\* Mutant of CreateDevice: the serial number is not looked up.
CreateAnyDevice(r) ==
    /\ At(r, "serial")
    /\ SaveAfter(r, {Device(r, requests[r].arg.serial, CHOOSE ip \in Ips : TRUE)}, "done")

CreateDevice(r) ==
    /\ At(r, "serial")
    /\ LET arg == requests[r].arg IN
       IF \E x \in config : x.section = "device" /\ x.serial = arg.serial
       THEN GoTo(r, "failed")
       ELSE SaveAfter(r, {Device(r, arg.serial, CHOOSE ip \in Ips : TRUE)}, "done")

\* Mutant of UpdateDevice: the row is made from the request alone.
UpdateAnyDevice(r) ==
    /\ At(r, "device")
    /\ LET row == Device(requests[r].arg.key, CHOOSE s \in Serials : TRUE, requests[r].arg.ip)
       IN  SaveOver(r, row, {row}, "done")

UpdateDevice(r) ==
    /\ At(r, "device")
    /\ \/ Keyed("device", requests[r].arg.key) = {} /\ GoTo(r, "failed")
       \/ \E row \in Keyed("device", requests[r].arg.key) :
             SaveOver(r, row, {[row EXCEPT !.ip = requests[r].arg.ip]}, "done")

-----------------------------------------------------------------------------
(* SaveProfile and DeleteProfile, as ConfigStore does them *)

Lock(r) == LockAndRead(r) /\ UNCHANGED <<requests, epoch, expired, wrong>>

LicenceStep ==
    /\ TruncateLicence \/ WriteLicence
    /\ UNCHANGED <<requests, epoch, expired, wrong>>

\* The rows that r read before are out of date when s saves some of their section.
Outdates(s, r) ==
    /\ r # s /\ InFlight(r)
    /\ \E x \in change[s].rows \cup change[s].gone : x.section \in Touched[requests[r].kind]

\* wrong follows the attempts that are counted from the last clearing of the
\* counter, whether it could be saved or not, or from the last save that was out
\* of date.
FindsHoldOver(r) ==
    /\ requests[r].kind = "Login" /\ requests[r].next = "compare"
    /\ ~ requests[r].raced /\ requests[r].row.key = Seed

WrongAfter(s) ==
    LET req == requests[s] IN
    IF ~ \E x \in change[s].rows : x.section = "auth" /\ x.key = Seed THEN wrong
    ELSE IF req.raced THEN 0
    ELSE IF req.kind # "Login" THEN wrong
    ELSE IF req.next = "failed" THEN wrong + 1 ELSE 0

ConfigStep ==
    /\ TruncateConfig
    /\ requests' = [r \in Requests |->
            IF Outdates(writer.request, r) THEN [requests[r] EXCEPT !.raced = TRUE]
                                           ELSE requests[r]]
    /\ wrong' = WrongAfter(writer.request)
    /\ UNCHANGED <<epoch, expired>>

Saved(r) ==
    /\ WriteConfig(r)
    /\ requests' = [requests EXCEPT ![r].stage = requests[r].next]
    /\ UNCHANGED <<epoch, expired, wrong>>

\* RetryAttemptLimiter ignores that its save failed; nobody else does.
SaveFails(r) ==
    /\ LockTimeout(r)
    /\ requests' = [requests EXCEPT ![r].stage =
            IF requests[r].kind = "Login" /\ requests[r].next # "done"
            THEN requests[r].next ELSE "failed"]
    /\ wrong' = IF FindsHoldOver(r) THEN 0 ELSE wrong
    /\ UNCHANGED <<epoch, expired>>

-----------------------------------------------------------------------------
(* Time and the end of the process *)

\* No request is open for five minutes.
HoldElapses ==
    /\ epoch < MaxEpoch /\ \A r \in Requests : ~ InFlight(r)
    /\ epoch' = epoch + 1
    /\ UNCHANGED <<config, license, writer, change, requests, expired, wrong>>

LicenceExpires ==
    /\ ~ expired /\ expired' = TRUE
    /\ UNCHANGED <<config, license, writer, change, requests, epoch, wrong>>

Restart ==
    /\ \E r \in Requests : InFlight(r)
    /\ StopStore
    /\ requests' = [r \in Requests |-> IF InFlight(r) THEN [requests[r] EXCEPT !.stage = "failed"]
                                                      ELSE requests[r]]
    /\ UNCHANGED <<epoch, expired, wrong>>

RequestStep(r) ==
    \/ Begin(r) \/ FetchLicence(r) \/ AccountMissing(r) \/ Authenticate(r)
    \/ CompareAfterHold(r) \/ Downgrade(r) \/ ResetAdmin(r) \/ ChangePassword(r)
    \/ CheckNames(r) \/ CreateChildAdmin(r) \/ RoleNameTaken(r) \/ CreateRolePermission(r)
    \/ Signup(r) \/ UpdateAdminPersonalDetails(r) \/ CreateDevice(r) \/ UpdateDevice(r)
    \/ Lock(r) \/ Saved(r) \/ SaveFails(r)

AccountsNext ==
    \/ \E r \in Requests : RequestStep(r)
    \/ LicenceStep \/ ConfigStep \/ HoldElapses \/ LicenceExpires \/ Restart

AccountsSpec == AccountsInit /\ [][AccountsNext]_accountVars

-----------------------------------------------------------------------------
(* Properties *)

\* The fields a kind of request is there to change.
Fields(kind) ==
    CASE kind = "Login" -> {"attempts", "since"} \cup (IF expired THEN {"level"} ELSE {})
      [] kind = "ResetAdmin" -> {"password", "name", "super"}
      [] kind = "ChangePassword" -> {"password"}
      [] kind = "UpdateAdminPersonalDetails" -> {"name"}
      [] kind = "UpdateDevice" -> {"ip"}
      [] OTHER -> {}

\* The request that saves in this step without having been outdated.
SavesAlone(r) ==
    /\ writer # Unlocked /\ writer.request = r /\ ~ Torn /\ Torn' /\ ~ requests[r].raced

(* Whole rows are written back, yet a save reverts what another request     *)
(* stored only if that one saved in the interval from the fetch to the save *)
(* or the fetch met a torn file: an undisturbed save leaves every row,      *)
(* changes only the fields of its request, and revives no deleted device.   *)
OnlyRacesRevert == [][\A r \in Requests : SavesAlone(r) =>
    LET kind == requests[r].kind IN
    /\ \A x \in StoredRows : kind # "DeleteDevice" =>
          \E y \in StoredRows' : /\ SameRow(x, y)
                                 /\ \A f \in DOMAIN x : x[f] = y[f] \/ f \in Fields(kind)
    /\ \A y \in StoredRows' : y.key # r => \E x \in StoredRows : SameRow(x, y)]_accountVars

Identity(x) == IF x.section = "device" THEN x.serial ELSE x.name
Twins(rows) == {x \in rows : /\ x.section \in {"auth", "role", "device"}
                             /\ \E y \in rows : /\ y.section = x.section /\ y.key # x.key
                                                /\ Identity(y) = Identity(x)}

(* No constraint of the file keeps user names, role names and serial       *)
(* numbers apart, only the look-up before the save: two rows of one name   *)
(* are the work of a request that another one overtook, or that looked up  *)
(* in a torn file.                                                          *)
OnlyRacesDuplicate == [][\A r \in Requests : SavesAlone(r) =>
    Twins(StoredRows') \subseteq {y \in StoredRows' : \E x \in Twins(StoredRows) : SameRow(x, y)}
    ]_accountVars

(* The licence file decides whether the appliance may be signed up for, and *)
(* UpdateConfig writes it before config.yaml: a signup that comes after     *)
(* another one has licensed the appliance saves nothing, whatever the other *)
(* file looks like at that moment.                                          *)
LateSignupRefused == \A r \in Requests :
    ~ At(r, "new") /\ requests[r].late => change[r] = None /\ requests[r].stage # "done"

(* Every wrong password counts unless its save failed or was out of date:  *)
(* after InvalidPasswordLimit of them no password is compared, by a login  *)
(* that overlaps no other save of the account, until one of them finds the *)
(* hold over.                                                              *)
GuessesBounded == [][\A r \in Requests :
    (/\ (At(r, "account") \/ At(r, "compare")) /\ requests[r].kind = "Login"
     /\ requests'[r].stage = "save" /\ requests'[r].row.key = Seed
     /\ requests'[r].next # "compare" /\ ~ requests'[r].raced)
    => wrong < InvalidPasswordLimit]_accountVars
=============================================================================
