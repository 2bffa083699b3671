SPECIFICATION TimedSpec
CONSTANTS
    Unit = {u1, u2}
    Backlog = 2
    MaxRank = 6
    Faults <- AllFaults
    SleepTicks = 4
    AcceptTicks = 1
    Limit = 14
INVARIANTS TimedTypeOK TakeOverInTime JoinerStaysBeta
