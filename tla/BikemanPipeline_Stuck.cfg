SPECIFICATION Spec
CONSTANTS
    Bikes = {b1}
    EventDays = {2}
    LastDay = 5
    FirstDay = 5
    MaxDelay = 3
    Lookback = 3
    MaxDays = 3
    RunLag = 0
    SnapshotLag = 1
PROPERTY BacklogShrinks
