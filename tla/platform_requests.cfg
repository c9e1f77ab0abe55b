SPECIFICATION Spec
CONSTANTS
    None = none
    Tenants = {default, acme}
    DefaultTenant = default
    Uids = {u1}
    Models = {k1, k2}
    Handlers = {h1, h2}
    Requests = {"activate", "migrate", "delete"}
    Uplinks = {}
    DbOutcomes = {TRUE, FALSE}
    MaxRestarts = 1
    Timeout = 0
    ClockRuns = FALSE
SYMMETRY RequestSymmetry
INVARIANTS
    KeyMatchesField
    TypeOK
    AckedDeviceDurable
    OneIdentityPerUid
    AckedDeviceManaged
PROPERTIES
    ContractHolds
