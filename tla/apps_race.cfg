SPECIFICATION Spec
CONSTANTS
    Child = {c1, c2}
    App = {web}
    Newline = Newline
    Stale <- NoBytes
    MaxLength = 6
INVARIANTS ListedOnce
