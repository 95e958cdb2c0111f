SPECIFICATION Spec
CONSTANTS
    ReportDays = {1, 2, 3}
    LastDay = 5
    FirstDay = 3
    LoadedTo = 1
    MaxDelay = 0
    Span = 2
    MaxDays = 3
    SilverMaxDays = 5
    T0Enabled = FALSE
    RunLag = 1
PROPERTY SensorSeesProgress
