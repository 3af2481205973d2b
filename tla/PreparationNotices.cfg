SPECIFICATION FairSpec
CONSTANTS
    Runs = {"run"}
    Blockers = {"authority", "repository"}
    None = None
    MaxAttempts = 1
    MaxRows = 4
    MaxCrashes = 1
CHECK_DEADLOCK FALSE
INVARIANT TypeOK
PROPERTIES NothingLeftBehind RecurrenceWaits RetiredNotReposted RetirementsSettle
