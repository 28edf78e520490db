SPECIFICATION FairCampaignSpec
CONSTANTS
    Limit = 1
    MaxCompletions = 2
    Schedule <- TwoArms
    Tables <- EarlierPairs
INVARIANTS ReportIsEarned NothingOfOthersIsReadable
PROPERTIES OnlyOwnedTreesAreRemoved CampaignEnds
CHECK_DEADLOCK FALSE
