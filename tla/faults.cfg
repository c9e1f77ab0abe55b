SPECIFICATION FaultSpec
CONSTANTS
    None = none
    Tenants = {default, acme}
    DefaultTenant = default
    Uids = {u1, u2}
    Models = {k1}
    Timeout = 0
    Codes = {leak}
    MayFail = TRUE
    MaxFaults = 3
    MaxRestarts = 1
SYMMETRY DeviceSymmetry
INVARIANTS
    StoredFaultsListed
PROPERTIES
    StartAdoptsFaults
