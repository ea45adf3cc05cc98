SPECIFICATION FeedSpec
CONSTANTS
    Spot <- MCSpot
    Strikes <- MCStrikes
    Legs <- MCLegs
    Channelless <- MCChannelless
    MaxAttempts = 2
    MaxConns = 2
INVARIANT PinsOpen
CHECK_DEADLOCK FALSE
