\* Three operations over three ids: an id may be reused after eviction, a third
\* operation may be accepted while two are active but for the capacity, and the
\* retention bound of one evicts on nearly every completion.
CONSTANTS
    Ids = {i1, i2, i3}
    NoId = NoId
    Closers = {c1, c2}
    MaxActive = 2
    MaxRetained = 1
    MaxStarts = 3
SYMMETRY Symmetry
SPECIFICATION Spec
INVARIANTS
    TypeOK
    RegistryIsExact
    ReceiptsTellTheTruth
    ShutdownQuiescent
PROPERTIES
    HistoryStands
    ImplementsLifecycle
CHECK_DEADLOCK FALSE
