SPECIFICATION StoreSpec
CONSTANTS
    NoFile = nofile
    Files <- Released
    None = None
    Versions = {"1", "2"}
    FileNames <- Names
    Stem <- StemOfName
    DefaultName <- NameOfVersion
    Machines = {d1}
    Clients = {c1, c2}
    MaxEntries = 2
    MaxRestarts = 1
SYMMETRY OtaSymmetry
INVARIANTS
    LatestIsHighest
    UploadsKept
