CONSTANTS
    Ids = {i1, i2}
    NoId = NoId
    Closers = {c1}
    MaxActive = 2
    MaxRetained = 1
    MaxStarts = 2
    ClosesManager = TRUE
    Calls = {v1}
    ForeignNames = {"contract_inspect", "operation_get"}
SPECIFICATION ServiceSpec
INVARIANTS
    SurfaceIsPolicy
PROPERTIES
    ShutdownEndsOperations
    AcceptedWorkEnds
CHECK_DEADLOCK FALSE
