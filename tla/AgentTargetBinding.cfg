CONSTANTS
    Calls = {c1, c2}
    MaxCached = 1
    MaxEpoch = 1
    MaxChanges = 2
SYMMETRY Symmetry
SPECIFICATION Spec
INVARIANTS
    LiveIsOfTheMountEpoch
    SearchIsContinued
CHECK_DEADLOCK FALSE
