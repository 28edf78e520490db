CONSTANTS
    Ids = {i1, i2}
    NoId = NoId
    Closers = {c1}
    MaxActive = 2
    MaxRetained = 1
    MaxStarts = 3
    ClosesManager = FALSE
SPECIFICATION HostSpec
INVARIANT ShutdownCancelsOperations
CHECK_DEADLOCK FALSE
