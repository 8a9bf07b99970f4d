SPECIFICATION FairReactSpec
CONSTANTS
    a1 = a1
    a2 = a2
    s1 = s1
    s2 = s2
    s3 = s3
    Apps <- TwoCards
    Sources <- ThreeRows
    AppOf <- CardOf
    KindOf <- Kinds
    Primary <- ImportedRow
    Interval = 2
    BatchSize = 3
    MaxCrashes = 1
INVARIANTS
    ReactTypeOK
    PostedOnce
PROPERTIES
    EveryCardIsVisited
