SPECIFICATION Spec
CONSTANTS
    Runs = {1, 2}
    Kind <- TwoMessages
    Replays = {}
    Workers = 2
    MaxAttempts = 1
    MaxCorrections = 1
    Answers = {"completed", "waiting"}
    CyclingAt = 9
    None = None
    Unready = {1, 2}
    MaxRefusals = 1
    MaxStalls = 0
    MaxRevivals = 1
    MaxCrashes = 0
INVARIANTS
    OutcomeRight
CHECK_DEADLOCK FALSE
