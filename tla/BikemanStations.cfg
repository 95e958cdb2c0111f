SPECIFICATION SourcesSpec
CONSTANTS
    Bikes = {b1}
    EventDays = {2, 3}
    LastDay = 6
    FirstDay = 3
    MaxDelay = 3
    Lookback = 3
    MaxDays = 0
    RunLag = 0
    SnapshotLag = 1
    StationTables = {"master", "active"}
    LastStationDay = 2
INVARIANTS TypeOK LateEventsReachBronze   
