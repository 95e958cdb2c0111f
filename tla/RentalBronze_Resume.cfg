SPECIFICATION Spec
CONSTANTS
    LastDay = 3
    FirstDay = 2
    MaxDays = 2
    T0Enabled = FALSE
    FallbackEnabled = FALSE
    Active = {"daily", "operator"}
    ApiOutcomes = {"COMPLETE", "COMPLETE_EMPTY"}
    BatchSize = 1
    SilverMaxDays = 2
    MaxLag = 1
INVARIANT InterruptedConfirmationResumes
