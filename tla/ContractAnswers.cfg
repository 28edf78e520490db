CONSTANTS
    Vocabulary <- Words
    InverseFrequency <- Logarithms
    Calls <- SmallCalls
SPECIFICATION Spec
INVARIANTS
    MergedFactsAreKept
    PruningLosesNothing
    AnswersCarryTheirEvidence
