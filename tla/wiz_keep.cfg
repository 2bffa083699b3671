SPECIFICATION Spec
CONSTANTS
    Leftovers <- AnyLeftover
    Moves <- MayMove
    MaxClicks = 2
    MaxStrays = 0
CHECK_DEADLOCK FALSE
PROPERTY YesKeepsData
