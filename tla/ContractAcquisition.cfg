CONSTANTS
    MaxChanges = 2
    MaxPackages = 4
SPECIFICATION Spec
INVARIANTS
    ComparedManifestsAreOfOneMoment
    ClosureIsComplete
    
