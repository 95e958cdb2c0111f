SPECIFICATION Spec
CONSTANTS
    ReportDays = {1, 3}
    LastDay = 4
    FirstDay = 3
    LoadedTo = 0
    MaxDelay = 1
    Span = 2
    MaxDays = 1
    SilverMaxDays = 3
    T0Enabled = TRUE
    RunLag = 1
INVARIANTS TypeOK ConfirmedReportsInBronze SettledReportsInSilver
PROPERTIES ReportsAreKept SilverReflectsBronze
