SPECIFICATION WorkflowsSpec
CONSTANTS
    Sources = {"rental_history", "failure_report"}
    FileList <- MCFileList
    SafeName <- MCSafeName
    Size <- MCSize
    DatesOf <- MCDatesOf
    Kinds <- MCKinds
    Legacies = {{"feb"}}
    StagingSize = 2
    BatchFiles = 2
    BatchBytes = 2
    Tries = 2
    Fleet = {"x", "y"}
    Rides <- MCRides
    Actions <- MCActions
    ColdStart = 2
    DimCaps = {0, 1}
    StartDay = 2
    EndDay = 4
    LastEventDay = 3
    Bikes = {b1, b2}
    Limit = 1
    LastDay = 3
    MaxRuns = 2
    Window = 2
    Horizon = 1
    HoldoutDays = 2
    Step = 2
    Rollings = {1, 2}
    MinAnchors = 1
    MaxDrop = 0
    Scores = {0, 1}
    FirstEnd = 5
    LastEnd = 7
    MaxTrainings = 2
    Candidates = {b1, b2}
    Operators = {"o1", "o2"}
    LastSnapshot = 2
    MaxConfirms = 2
INVARIANTS WatermarkMeansLoaded  BackTheDayAfter   EachBikeOnce   SilverIsNeverPartial
CHECK_DEADLOCK FALSE
