SPECIFICATION Spec
CONSTANTS
    Runs = {1, 2}
    Kind <- TwoCards
    Replays = {2}
    Workers = 2
    MaxAttempts = 2
    MaxCorrections = 0
    Answers = {"completed"}
    CyclingAt = 1
    None = None
    Unready = {1, 2}
    MaxRefusals = 0
    MaxStalls = 1
    MaxRevivals = 0
    MaxCrashes = 0
INVARIANTS
    OneAtATime
PROPERTIES
    EpisodeInStep
    ResultKept
CHECK_DEADLOCK FALSE
