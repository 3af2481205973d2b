SPECIFICATION FairSpec
CONSTANTS
    Deliveries = {"text", "chart1", "chart2", "failed1", "failed2"}
    Drafts <- Bundles
    Sources = {}
    Replays = {}
    Revivable = {"file"}
    None = None
    MaxAttempts = 1
    RecordFails = {}
    MaxCrashes = 1
CHECK_DEADLOCK FALSE
INVARIANTS PostedOnce ChartFailureAnnounced
PROPERTIES PartsInOrder DeliveriesSettle
