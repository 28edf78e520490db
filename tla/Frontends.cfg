SPECIFICATION FrontSpec
INVARIANTS
    FilesAreUnderstood
    CompatibleIsProven
    RequestsAreAsGiven
    ExitTellsTheTruth
