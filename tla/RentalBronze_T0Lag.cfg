SPECIFICATION Spec
CONSTANTS
    LastDay = 4
    FirstDay = 2
    MaxDays = 2
    T0Enabled = TRUE
    FallbackEnabled = TRUE
    Active = {"daily", "catchup"}
    ApiOutcomes = {"COMPLETE", "INCOMPLETE"}
    BatchSize = 1
    SilverMaxDays = 2
    MaxLag = 2
INVARIANT ConfirmedDatesBacked
