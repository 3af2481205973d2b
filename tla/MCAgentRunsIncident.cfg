SPECIFICATION FairSpec
CONSTANTS
    Runs = {1, 2}
    Kind <- TwoTurns
    Replays = {}
    Workers = 2
    MaxAttempts = 2
    MaxCorrections = 0
    Answers = {"completed"}
    CyclingAt = 9
    None = None
    Unready = {}
    MaxRefusals = 0
    MaxStalls = 0
    MaxRevivals = 0
    MaxCrashes = 1
PROPERTIES
    RunsEnd
    IncidentFreed
CHECK_DEADLOCK FALSE
