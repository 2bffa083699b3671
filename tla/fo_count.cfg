SPECIFICATION Spec
CONSTANTS
    Child = {c1, c2, c3}
    Threshold = 3
    CharLo <- Lowest
    CharHi = 5
    Junk <- AnyChar
    MaxKills = 6
INVARIANTS TypeOK CountNeverAhead RebootAccountedFor ExactUnlessOverlapped
