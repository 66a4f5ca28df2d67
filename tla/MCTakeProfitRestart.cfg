SPECIFICATION MCFairSpec
CONSTANTS
    v1 = v1
    b1 = b1
    b2 = b2
    tp1 = tp1
    w1 = w1
    w2 = w2
    Venues = {v1}
    Buys = {b1}
    TakeProfits = {tp1}
    VenueOf <- OneVenue
    Size <- Twos
    Workers = {w1, w2}
    Periodic = Periodic
    Engine = Engine
    MaxClock = 4
    MaxQueue = 2
    MaxFeed = 3
    MaxCrashes = 1
    MaxOrderRequeues = 1
    MaxFailures = 1
    QueriesMayFail = FALSE
    DealFinished = FALSE
    CreatesMayBeRejected = FALSE
    BuysMayBeCancelled = FALSE
    OpenBeforeCancel = FALSE
    SellsInParts = FALSE
    TickerIsSlow = TRUE
    DealsGoStale = FALSE
CHECK_DEADLOCK FALSE
INVARIANTS BuysAgree
PROPERTIES TakeProfitMatches ComesToRest
