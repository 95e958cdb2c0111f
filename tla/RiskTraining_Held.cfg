SPECIFICATION TrainSpec
CONSTANTS
    Window = 2
    Horizon = 1
    HoldoutDays = 2
    Step = 2
    Rollings = {1, 2}
    MinAnchors = 1
    MaxDrop = 0
    Scores = {0, 1}
    FirstEnd = 5
    LastEnd = 7
    MaxTrainings = 2
INVARIANT HeldKeepsChampion
CHECK_DEADLOCK FALSE
