SPECIFICATION FairLinkSpec
CONSTANTS
    c1 = c1
    LinkCheckers <- OneChecker
    Targets = {"official"}
    Deprecating = {"official"}
    Threshold = 2
    MaxMoves = 1
    MaxHands = 1
INVARIANTS
    LinkTypeOK
    ReportedOnce
    NoSilentVanish
PROPERTIES
    OnlyStreakDeprecates
    DeadLinkIsFound
