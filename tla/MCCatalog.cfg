SPECIFICATION SpecCatalog
CONSTANTS
    Bots = {1, 2, 3}
    VenueIds = {1, 2, 3}
    Default = 1
    Wallets = {"default", "w2", "w3"}
    Sentinel = "default"
    Orders = {}
    SecretSets <- MCSecretSets
    PageSize = 2
    MaxSynced = 2
    MaxStarts = 2
    MaxCalls = 0
    MaxRows = 0
    Nobody = Nobody
INVARIANT SyncCoversAll
CHECK_DEADLOCK FALSE
