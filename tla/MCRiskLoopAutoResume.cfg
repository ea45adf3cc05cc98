\* The breaker's own recovery.
CONSTANTS
    Settings <- SmallSettings
    Presets <- SmallPresets
    LossesToDefensive = 2
    WinsToAggressive = 2
    Capitals = {100}
    Equities = {90, 95, 100}
    Pnls <- TotalsRange
    PositionCounts = {0, 1, 2}
    DvolLevels = {0, 95}
    IvRanks = {50}
    Stops = {1}
    MaxDays = 1
    StartingCapital = 100
    Totals <- TotalsRange
    Marks <- Swings
    Gains <- Losses
    MaxTrades = 2
    ChecksPerCycle = 1
SPECIFICATION LoopSpec
INVARIANT BreakerAutoResumes
