SPECIFICATION Spec
CONSTANTS
    s1 = s1
    s2 = s2
    Publishers = {p1, p2}
    NoPublisher = none
    Subscribers = {s1, s2}
    Wanted <- SecondSkips
    BufferSize = 2
    MaxEvents = 3
    Watchers = {s1}
    maxHistorySize = 2
    Clients = {s1, s2}
    MaxQuotes = 2
    Loggers = {p1, p2, s1}
    Closers = {s1, s2}
    QueueSize = 2
    Waiters = {p1, p2}
    minSpacing = 2
    Cooldowns = {0, 1, 3}
    MaxTime = 8
    Deals = {p1, p2}
    Manual = {none}
    DealWorkers = {d1, d2}
    OrderWorkers = {o1}
    Nothing = nothing
INVARIANTS DeliveredInOrder NoUseAfterClose EveryEventOnce LatestQuoteOffered
    FlushedWhenClosed EmittedOrdersAttempted
PROPERTIES Paced ShutdownEnds
CHECK_DEADLOCK FALSE
