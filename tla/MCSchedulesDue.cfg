SPECIFICATION FairSpec
CONSTANTS
    Tasks = {"hourly"}
    Definition <- MCDefinition
    Replacement <- MCReplacement
    Messages <- OneMessage
    Synthetic <- MCSynthetic
    Anchored = {"hourly"}
    Grace = 0
    Horizon = 2
    MaxOrders = 1
    MaxFailures = 2
    MaxTroubles = 1
INVARIANTS NeverOverlaps
PROPERTIES DueRecorded WorkSettles
CHECK_DEADLOCK FALSE
