SPECIFICATION FairSpec
CONSTANTS
    None = none
    Tenants = {default, acme}
    DefaultTenant = default
    Uids = {u1}
    Models = {k1}
    Handlers = {h1}
    Requests = {"activate", "migrate", "delete"}
    Uplinks = {"heartbeat", "status"}
    DbOutcomes = {TRUE}
    MaxRestarts = 1
    Timeout = 1
    ClockRuns = TRUE
PROPERTIES
    SweepNeverRevives
    OnlineNeedsHeartbeats
