SPECIFICATION LiveSpec
CONSTANTS
    LastDay = 3
    FirstDay = 2
    MaxDays = 1
    T0Enabled = FALSE
    FallbackEnabled = FALSE
    Active = {"daily", "catchup", "silver"}
    ApiOutcomes = {"COMPLETE", "INCOMPLETE"}
    BatchSize = 1
    SilverMaxDays = 1
    MaxLag = 1
PROPERTIES BronzeCatchesUp SilverFollows
CHECK_DEADLOCK FALSE
