SPECIFICATION MCSpec
CONSTANTS
    Options <- MCOptions
    Futures <- MCFutures
    Plans <- MCPlans
    MaxOrders = 3
    MaxFaults = 1
    Grids <- NoNumbers
    Coins <- NoNumbers
    Spots <- NoNumbers
    Prices <- NoNumbers
    Ranks <- NoNumbers
    Dvols <- NoNumbers
    Momenta <- NoNumbers
    Regimes <- NoNumbers
    Dtes <- NoNumbers
    Settlements <- NoNumbers
    Presets <- MCPresets
    Order <- MCOrder
    Contexts <- MCContexts
    Expiries <- MCExpiries
    Cooldown = 1
    MinDvol = 50
    MinRank = 40
    MaxTrades = 2
    SixReplies <- MCSix
    TextReplies <- MCTexts
    Blocks <- MCBlocks
    MaxQty = 2
    Interval = 2
    MaxClock = 4
    NaN = NaN
    Text = Text
    Missing = Missing
    Lines <- MCLines
    Leaf <- MCLeaf
    Shipped <- MCShipped
    Limits <- MCLimits
    Answers <- MCAnswers
    MaxReviews = 2
    Jobs <- MCJobs
    DailyAt = 1
    Day = 4
    Pausable = {2}
    MaxLong = 2
    MaxTime = 14
INVARIANTS
    AgentsTypeOK ClientIsRight NoTwins TraderRestricts RailsHold SlotsKept
PROPERTIES
    ChangesAreTracked
CHECK_DEADLOCK FALSE
