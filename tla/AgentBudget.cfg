SPECIFICATION Spec
CONSTANTS
    c1 = c1
    j1 = j1
    j2 = j2
    Checkers <- OneChecker
    Jobs <- TwoJobs
    Budgets = {3, 9}
    CheapCost = 1
    PrimaryCost = 2
    Limit = 2
    LastMonth = 1
    MaxStarts = 2
    MaxEdits = 1
    MaxDeploys = 1
INVARIANTS
    TypeOK
    OverrunBounded
SYMMETRY SlotSymmetry
