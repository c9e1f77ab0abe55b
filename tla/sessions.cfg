SPECIFICATION AccountSpec
CONSTANTS
    t1 = t1
    admin = admin
    user = user
    user2 = user2
    pw = pw
    other = other
    h = h
    None = None
    TenantIds = {t1}
    SeedOrgs <- Company
    MaxOrgId = 1
    MaxRestarts = 1
    MayFail = TRUE
    Handlers = {h}
    Usernames = {admin, user, user2}
    Passwords = {pw, other}
    SeedAccounts <- Admin
    MaxAccountId = 2
    TokenLife = 0
    MaxTime = 1
    MaxSessions = 1
SYMMETRY UserSymmetry
INVARIANTS
    AccountTypeOK
    TokenKeepsUser
    DisabledStaysOut
PROPERTIES
    RestartKeepsAccounts
\* The bounds on ids, time and restarts can leave nothing to do.
CHECK_DEADLOCK FALSE
