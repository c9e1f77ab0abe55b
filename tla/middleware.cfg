SPECIFICATION MiddlewareSpec
CONSTANTS
    MaxFiles = 3
    FileLimit = 2
    MaxLines = 20
    MaxCrashes = 4
    MaxStarts = 4
INVARIANTS
    NothingLostBetween
    FilesBounded
    SchemaAsRecorded
    FlagMeansReceiving
PROPERTIES
    DisconnectReturns
\* The bounds on lines and starts stop the first two parts, and the client ends.
CHECK_DEADLOCK FALSE
