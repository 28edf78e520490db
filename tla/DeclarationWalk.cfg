CONSTANTS
    FileCount = 3
    MaxStatements = 3
    MaxReferences = 3
SPECIFICATION Spec
INVARIANTS
    ClosureIsReadWithinBudgets
    LimitsAreReal
    ExportsAreProven
