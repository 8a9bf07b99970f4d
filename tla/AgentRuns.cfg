SPECIFICATION RunsSpec
CONSTANTS
    Cards <- TwoCards
    Candidates <- TwoCandidates
    Poison <- LastOnesFail
    Limit = 2
    Concurrency = 2
    MaxAttempts = 2
    MaxFailures = 1
    MaxRunsLost = 1
    MaxRefused = 1
    MaxClosings = 1
INVARIANTS
    RunsTypeOK
    AnswersAreBooked
PROPERTY
    WorkGetsThrough
CHECK_DEADLOCK FALSE
