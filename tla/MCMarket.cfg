SPECIFICATION MCSpec
CONSTANTS
    call = call
    put = put
    perp = perp
    Options <- MCOptions
    Futures <- MCFutures
    Plans <- MCTraded
    RecoverOrphan = {TRUE, FALSE}
    MaxTrades = 1
    MaxOrders = 2
    MaxRestarts = 1
    MaxScripts = 1
    Feeds <- MCFeeds
    Listings <- MCListings
    IndexPrices <- MCIndex
    Quotes <- MCQuotes
    DvolReadings <- MCReadings
    Cap = 2
    ExpiryCount = 2
    MinDte = 1
    StrikeWindow = 20
    LastDay = 2
    Grids <- MCGrids
    Coins <- MCCoins
    Spots <- MCSpots
    Prices <- MCPrices
    Ranks <- MCRanks
    Dvols <- MCDvols
    Momenta <- MCMomenta
    Regimes <- MCRegimes
    Dtes <- MCDtes
    Settlements <- MCSettlements
    Presets <- MCPresets
INVARIANTS
    MarketTypeOK ScriptsKeep ChainSound PlansPayOff
CHECK_DEADLOCK FALSE
