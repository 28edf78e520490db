CONSTANTS
    Calls = {c1, c2}
    MaxCached = 1
    MaxEpoch = 1
    MaxChanges = 1
SYMMETRY Symmetry
SPECIFICATION Spec
INVARIANT
    ImplicitCallsKeepTheMountEpoch
CHECK_DEADLOCK FALSE
