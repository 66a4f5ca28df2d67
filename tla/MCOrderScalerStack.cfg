SPECIFICATION SpecScaler
CONSTANTS
    None = None
    Lot = 2
    LotsPerCoin = 10
    Unit = 1
    Multipliers = {1}
    MaxMultiplier = 1
    Deals <- NoDeals
    Reports <- SafetyOrder
    OrderSizes = {0}
    BaseVolume = 0
    MaxEdits = 0
    MaxPolls = 1
INVARIANT EveryOrderScaled
CHECK_DEADLOCK FALSE
