\* Queues of one event, so that they are full soon; one of three readers iterates. Four
\* processes are the child of the service, one started beside it by each guard,
\* and one being started. Four pauses of the supervisor are longer than its window.
SPECIFICATION MCSpec
CONSTANTS
    MaxRestarts = 4
    Window = 10
    Initial = 1
    MaxBackoff = 4
    MayHang = TRUE
    Pids = {1, 2, 3, 4}
    On = {"supervisor", "watchdog"}
    Stale = 2
    Wedged = 3
    SweepEvery = 2
    QuickStart = TRUE
    MaxBeside = 2
    MaxFaults = 1
    Subjects <- TwoSubjects
    Keys <- TwoKeys
    Handlers = {onTick, onSpot, reader}
    Iterators = {reader}
    Capacity = 1
    RingSize = 1
    MaxEvents = 2
    MaxTasks = 2
    Spot <- MCSpot
    Strikes <- MCStrikes
    Legs <- MCLegs
    Channelless <- MCPerps
    MaxAttempts = 2
    MaxConns = 2
    Configured <- MCConfigured
    MaxRetries = 1
    DeadFor = 1
    DayLength = 1
    CallLimit = 2
    TokenLimit = 3
    Tokens <- MCTokens
    MaxClock = 2
    MaxEdits = 1
    MaxReboots = 1
INVARIANTS
    ServicesTypeOK  PolicyKept FeedCovers RouterKeeps
PROPERTIES
    QueuesAsPromised BusGoesOn SupervisorGoesOn GuardsRecover FeedGoesOn CallEnds
CHECK_DEADLOCK FALSE
