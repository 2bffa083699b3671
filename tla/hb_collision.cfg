SPECIFICATION FairTimedSpec
CONSTANTS
    Unit = {u1, u2}
    Backlog = 2
    MaxRank = 4
    Faults <- NoFaults
    SleepTicks = 4
    AcceptTicks = 1
    Limit = 15
PROPERTIES CollisionResolved
CHECK_DEADLOCK FALSE
