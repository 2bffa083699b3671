SPECIFICATION Spec
CONSTANTS
    Cable <- Both
    LongPaths <- Either
    Blanks <- LeftBlank
    Edits <- Typed
    MaxEdits = 1
    MaxEvents = 1
INVARIANTS TypeOK RefusedOnlyIf GuiComesUp EachItsOwn SuccessIsWhole
PROPERTIES AppliesWhatWasTyped SyncEnds
CHECK_DEADLOCK FALSE
