SPECIFICATION Spec
CONSTANTS
    call = call
    put = put
    perp = perp
    Options <- MCOptions
    Futures <- MCFutures
    Plans <- MCPlans
    RecoverOrphan = {FALSE}
    MaxTrades = 2
    MaxOrders = 4
    MaxRestarts = 0
INVARIANTS
    KillStaysFlat
CHECK_DEADLOCK FALSE
