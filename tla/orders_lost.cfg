SPECIFICATION OrderSpec
CONSTANTS
    None = none
    Actors = {a1, a2}
    OrderIds = {o1}
    Seeded = s1
    SeedQueue <- OneSeed
    SeedHistory <- NoSeed
    MaxQueueDepth = 1
    MaxOrders = 3
    MaxRestarts = 1
SYMMETRY ActorSymmetry
INVARIANT
    AllOrdersListed
CHECK_DEADLOCK FALSE
