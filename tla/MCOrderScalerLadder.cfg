SPECIFICATION SpecScaler
CONSTANTS
    None = None
    Lot = 5
    LotsPerCoin = 1
    Unit = 1
    Multipliers = {1}
    MaxMultiplier = 1
    Deals <- NoDeals
    Reports <- FourSteps
    OrderSizes = {0}
    BaseVolume = 0
    MaxEdits = 0
    MaxPolls = 1
INVARIANT LadderKeepsOrder
CHECK_DEADLOCK FALSE
