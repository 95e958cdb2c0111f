SPECIFICATION DeploymentsSpec
CONSTANTS
    LastDay = 4
    FirstDay = 4
    MaxDays = 2
    T0Enabled = TRUE
    FallbackEnabled = TRUE
    Active = {"preliminary", "daily", "catchup", "operator", "silver"}
    ApiOutcomes = {"COMPLETE", "COMPLETE_EMPTY", "INCOMPLETE"}
    BatchSize = 1
    SilverMaxDays = 2
    MaxLag = 1
INVARIANTS TypeOK BronzeTracesToRaw DailyLeavesNoHole ConfirmedDatesBacked DocumentsFollowCommit SilverDatesBacked IndInv
PROPERTY ImplementsConfirmedPrefix
