CONSTANTS
    Symbols = {"opt", "perp"}
    Options = {"opt"}
    OrderInputs <- MCOrders
    ModifyPrices = {2424000}
    TickPrices = {0, 2412000}
    BSPrices = {0, 2400000}
    FillModes = {"market_like", "realistic_limit"}
    StartingCapital = 1000000
    CsOne = 10
    SlippageBps = 5
    SpreadBps = 10
    MinSpread = 100
    NearBps = 50
    MaxOrders = 3
    MaxSaveFailures = 1
SPECIFICATION MCSpec
INVARIANTS
    TypeOK BooksFollowFills KillLeavesFlat LimitRespected
PROPERTY LedgerKept
