SPECIFICATION FairSpecInTime
CONSTANTS
    b1 = b1
    b2 = b2
    d1 = d1
    d2 = d2
    Producer = Producer
    Deals = {d1, d2}
    BotList <- OneBot
    BotOf <- AllOfFirst
    Limit = 4
    DealWorkers = 1
    ProduceConcurrency = 1
    MaxRequeues = 1
    CallsMayFail = FALSE
    DealsMayFail = TRUE
    DeadlinesExpire = TRUE
INVARIANT IdleHoldsNothing
PROPERTIES DealsServed BotsPolled
