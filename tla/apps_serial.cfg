SPECIFICATION Spec
CONSTANTS
    Child = {c1}
    App = {mail, web, db}
    Newline = Newline
    Stale <- AnyBytes
    MaxLength = 6
INVARIANTS TypeOK InstalledIsListed AnswersHold ListedOnce
