\* Every call in every order, over two days.
CONSTANTS
    Settings <- SmallSettings
    Presets <- SmallPresets
    LossesToDefensive = 2
    WinsToAggressive = 2
    Capitals = {100}
    Equities = {92, 96, 100}
    Pnls <- PnlLevels
    PositionCounts = {0, 2}
    DvolLevels = {0, 95}
    IvRanks = {50, 78}
    Stops = {0, 1, 7}
    MaxDays = 1
SPECIFICATION Spec
INVARIANTS
    TypeOK
    SizeWithinBudget
    BreakerHolds
PROPERTY PresetsFollowResults
