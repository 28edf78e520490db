CONSTANTS
    MaxStdoutBytes = 2
    MaxStderrBytes = 1
    MaxWritten = 3
    CanEscape = TRUE
    ProcessGroups = TRUE
SPECIFICATION FairProcessSpec
PROPERTIES
    OutcomeIsHonest
    ImplementsProcessRun
    RunSettles
    ForcedTerminationEndsGroup
CHECK_DEADLOCK FALSE
