SPECIFICATION FairSpec
CONSTANTS
    Unit = {u1, u2}
    Backlog = 1
    MaxRank = 6
    Faults <- AllFaults
INVARIANTS TypeOK BetaDefers AlphaAudible DownMeansRankZero PromotionsAlerted
PROPERTIES StepsDownOnlyToARival TakeOver
