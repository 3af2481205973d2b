SPECIFICATION Spec
CONSTANTS
    Deliveries = {"first", "second", "third"}
    Drafts <- Written
    Sources = {"alert1", "alert2"}
    Replays = {"alert1"}
    Revivable = {"post"}
    None = None
    MaxAttempts = 1
    RecordFails = {"post"}
    MaxCrashes = 1
CHECK_DEADLOCK FALSE
INVARIANTS TypeOK LedgerTruthful NewestShown
