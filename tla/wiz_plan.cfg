SPECIFICATION Spec
CONSTANTS
    Leftovers <- AnyLeftover
    Moves <- MayMove
    MaxClicks = 2
    MaxStrays = 3
CHECK_DEADLOCK FALSE
INVARIANT TypeOK
INVARIANT OneTimerPerThread
INVARIANT HomeIsAsAsked
INVARIANT RebootIsComplete
PROPERTY StraysOnlyBy
PROPERTY NothingBehindQuestion
PROPERTY BusyWindowsEnd
PROPERTY FollowsPlan
