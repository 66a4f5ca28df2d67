SPECIFICATION MCSpec
CONSTANTS
    a = a
    b = b
    w1 = w1
    w2 = w2
    Nothing = Nothing
    Venues = {a, b}
    Workers = {w1, w2}
    Prices = {1, 2}
    PollIsSlow = FALSE
    MaxRequeues = 1
    MaxEvents = 3
    MaxFaults = 1
    MaxChanges = 1
    MaxCancels = 1
    Bots = {1, 2}
    VenueIds = {1, 2}
    Default = 1
    Wallets = {"default", "w2"}
    Sentinel = "default"
    Orders = {"o"}
    SecretSets <- MCSecretSets
    PageSize = 1
    MaxSynced = 1
    MaxStarts = 2
    MaxCalls = 2
    MaxRows = 2
    Nobody = Nobody
    None = None
    Lot = 2
    LotsPerCoin = 10
    Unit = 2
    Multipliers = {0, 1, 3, 5}
    MaxMultiplier = 4
    Deals <- MCDeals
    Reports <- MCReports
    OrderSizes = {4}
    BaseVolume = 6
    MaxEdits = 1
    MaxPolls = 2
INVARIANTS TypeOK SettledMatches StoreMirrors TargetsExist ChoiceKept
INVARIANTS CatalogTypeOK AuditExplainsSize
PROPERTIES RowsKept Settles
CHECK_DEADLOCK FALSE
