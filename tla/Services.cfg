SPECIFICATION ServicesSpec
CONSTANTS
    r1 = r1
    w1 = w1
    w2 = w2
    t1 = t1
    t2 = t2
    t3 = t3
    s1 = s1
    s2 = s2
    d1 = d1
    k1 = k1
    k2 = k2
    Readers <- OneReader
    Workers <- TwoWorkers
    MaxSaves = 2
    MaxEdits = 2
    MaxTaxa = 1
    MaxLost = 1
    MaxDeaths = 1
    NoEntry = NoEntry
    NotBuilt = NotBuilt
    Idle = Idle
    Threads <- ThreeThreads
    Callers <- TwoThreads
    Interval = 2
    Pause = 2
    Horizon = 4
    LastTick = 10
    KeyTTL = 9
    MaxRepliesLost = 1
    MaxDelay = 1
    NoBucket = NoBucket
    NoKey = NoKey
    NoRun = NoRun
    Subscribers <- TwoSubscribers
    Sends <- OneSend
    BatchSize = 1
    NotSending = NotSending
    Claimants <- TwoClaimants
    MaxClaims = 2
    NoOwner = NoOwner
INVARIANTS
    ServicesTypeOK
    StaleOnlyInWindow
    QuietIndexFollowsTheRow
    ActiveMeansConsent
    QuietSendIsWhole
    OneOwner
PROPERTIES
    SitemapIsAView
    IndexIsAView
    LocalIsSpaced
    RedisIsSpaced
    StaleDecisionsDoNoHarm
CHECK_DEADLOCK FALSE
