SPECIFICATION FairSpec
CONSTANTS
    Alerts <- MCAlerts
    Key <- MCKey
    ResolveAfter = 1
    Plans <- MCPlans
    MaxIncidents = 3
    MaxActive = 1
    MaxAttempts = 2
    MaxCloses = 1
INVARIANTS AlertsKept IncidentsSound
PROPERTIES Settles
CHECK_DEADLOCK FALSE
