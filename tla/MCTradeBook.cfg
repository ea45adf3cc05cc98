SPECIFICATION Spec
CONSTANTS
    call = call
    put = put
    perp = perp
    Options <- MCOptions
    Futures <- MCFutures
    Plans <- MCPlans
    RecoverOrphan = {TRUE, FALSE}
    MaxTrades = 2
    MaxOrders = 4
    MaxRestarts = 1
INVARIANTS
    TypeOK
    BookReconciles
    SymbolMapExact
PROPERTIES
    JournalSurvives
    BrokerIsLedger
CHECK_DEADLOCK FALSE
