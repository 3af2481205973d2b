SPECIFICATION Spec
CONSTANTS
    Attempts = {1, 2}
    Kinds <- Requests
    MaxAttempts = 2
    MaxTroubles = 2
    Loses = TRUE
INVARIANTS
    BranchExclusive
    PressOwned
    TerminalKept
    ReceiptKept
PROPERTIES
    NoSecondPullRequest
CHECK_DEADLOCK FALSE
