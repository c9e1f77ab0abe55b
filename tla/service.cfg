SPECIFICATION PartsSpec
CONSTANTS
    Topics = {events, heartbeats}
    MaxHandlers = 2
    Param = Param
    None = None
    Routes <- ServiceRoutes
    Anywhere <- Searching
    Requests <- ClientRequests
    Ids = {"", "d1", "v1", "$T"}
    Namespaces = {"acme", "v1", "$T"}
    Commands = {"", "make", "v1"}
INVARIANTS
    CallbacksBeforeClose
    FindsHandler
    WrongHandlerRefuses
    TopicsUnderstood
PROPERTIES
    ShutdownCompletes
    HealthFollowsFlag
