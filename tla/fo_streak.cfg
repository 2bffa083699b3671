SPECIFICATION Spec
CONSTANTS
    Child = {c1}
    Threshold = 3
    CharLo <- Lowest
    CharHi = 5
    Junk <- Zero
    MaxKills = 6
INVARIANTS RebootNeedsAStreak
