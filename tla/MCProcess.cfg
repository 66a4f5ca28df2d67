SPECIFICATION MCSpec
CONSTANTS
    b1 = b1
    b2 = b2
    d1 = d1
    d2 = d2
    v1 = v1
    buy = buy
    sell = sell
    w1 = w1
    Venues = {v1}
    Buys = {buy}
    TakeProfits = {sell}
    VenueOf <- OneVenue
    Size <- Twos
    Workers = {w1}
    Periodic = Periodic
    Engine = Engine
    MaxClock = 3
    MaxQueue = 1
    MaxFeed = 2
    MaxCrashes = 1
    MaxOrderRequeues = 1
    MaxFailures = 1
    QueriesMayFail = TRUE
    DealFinished = TRUE
    CreatesMayBeRejected = TRUE
    BuysMayBeCancelled = TRUE
    OpenBeforeCancel = TRUE
    SellsInParts = TRUE
    TickerIsSlow = TRUE
    DealsGoStale = TRUE
    Producer = Producer
    Deals = {d1, d2}
    BotList <- TwoBots
    BotOf <- OnePerBot
    Limit = 3
    DealWorkers = 2
    ProduceConcurrency = 1
    MaxRequeues = 0
    CallsMayFail = TRUE
    DealsMayFail = TRUE
    DeadlinesExpire = TRUE
    Users = {alice}
    NoUser = NoUser
    Requests = {r1, r2}
    MaxVersions = 1
    MaxTokens = 2
    MaxCeremonies = 2
    MaxBoots = 2
    LoginBeforeSetup = FALSE
INVARIANTS VaultTypeOK InitializedAgrees WakeupNotLost SecretsIffUnsealed
INVARIANTS TypeOK WindowBudget DealCallGuaranteed BotCallsGuaranteed
INVARIANTS TakeProfitTypeOK FillsNotAhead
PROPERTIES LimiterRefined UnsealEndsWait
