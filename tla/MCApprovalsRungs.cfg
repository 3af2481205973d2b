CONSTANTS
    thread = thread
    room = room
    None = None
    Approvals <- MCApprovals
    Rooms <- MCRooms
    Plans <- MCPlans
    Required = 1
SPECIFICATION Spec
INVARIANT CardTold
PROPERTIES RungsEarned Heard
CHECK_DEADLOCK FALSE
