SPECIFICATION FairSpec
CONSTANTS
    b1 = b1
    b2 = b2
    d1 = d1
    d2 = d2
    Producer = Producer
    Deals = {d1, d2}
    BotList <- OneBot
    BotOf <- AllOfFirst
    Limit = 4
    DealWorkers = 2
    ProduceConcurrency = 1
    MaxRequeues = 0
    CallsMayFail = FALSE
    DealsMayFail = FALSE
    DeadlinesExpire = TRUE
PROPERTY BotsPolled
