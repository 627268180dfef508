SPECIFICATION AccountsSpec
CONSTANTS
    Requests = {r1, r2, r3}
    None = None
    Names = {admin, bob}
    DefaultName = admin
    Passwords = {p0, p1}
    DefaultPassword = p0
    Serials = {s1}
    Ips = {i1, i2}
    InvalidPasswordLimit = 2
    MaxEpoch = 2
    Kinds = {"Login", "ResetAdmin", "ChangePassword", "Signup", "CreateChildAdmin", "CreateRolePermission", "UpdateAdminPersonalDetails", "CreateDevice", "DeleteDevice", "UpdateDevice"}
CHECK_DEADLOCK FALSE
SYMMETRY RequestSymmetry
INVARIANTS AccountsTypeOK LateSignupRefused
PROPERTIES SavesAreAtomic OnlyRacesRevert OnlyRacesDuplicate GuessesBounded
