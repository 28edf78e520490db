SPECIFICATION FairSpec
INVARIANTS
    PassedIsProven
    ConclusionIsHonest
    VerifiedIsEarned
    VerifiedIsFresh
    FailureStands
    AnswersHaveTheirCause
PROPERTIES
    AbortStopsWork
    WorkerReturns
CHECK_DEADLOCK FALSE
CONSTANTS
    MaxEpoch = 1
    MaxChanges = 1
    MaxFindings = 1
