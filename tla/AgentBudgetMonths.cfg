SPECIFICATION FairSpec
CONSTANTS
    c1 = c1
    j1 = j1
    j2 = j2
    Checkers <- OneChecker
    Jobs <- OneJob
    Budgets = {3, 9}
    CheapCost = 1
    PrimaryCost = 2
    Limit = 1
    LastMonth = 2
    MaxStarts = 2
    MaxEdits = 1
    MaxDeploys = 1
INVARIANTS
    EmailOncePerCrossing
PROPERTIES
    LatchOnlyByHand
    StopsInTheEnd
