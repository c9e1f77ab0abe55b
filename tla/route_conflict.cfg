SPECIFICATION PartsSpec
CONSTANTS
    Topics = {events, heartbeats}
    MaxHandlers = 2
    Param = Param
    None = None
    Routes <- ServiceRoutes
    Anywhere <- Searching
    Requests <- AccountCalls
    Ids = {"d1"}
    Namespaces = {"acme"}
    Commands = {"make"}
INVARIANT
    NoPrefixConflict
