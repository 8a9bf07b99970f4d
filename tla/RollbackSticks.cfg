SPECIFICATION LinkSpec
CONSTANTS
    c1 = c1
    LinkCheckers <- OneChecker
    Targets = {"official"}
    Deprecating = {"official"}
    Threshold = 3
    MaxMoves = 0
    MaxHands = 1
PROPERTIES
    RollbackSticks
