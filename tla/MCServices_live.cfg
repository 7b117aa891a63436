CONSTANTS
    Null = Null
    MaxCrashes = 1
    Alerts = {1}
    Runs = {1, 2}
    MaxAttempts = 3
    RetryInterval = 4
    TickPeriod = 4
    SendMax = 1
    Mutes = {TRUE, FALSE}
    Views <- MCViews
    Patience = 2
    StreakTicks = 2
    FloorDebounce = 2
    MaxRows = 3
    Deposits = {1}
    Polls = {1, 2}
    MaxOverlaps = 1
    Payouts = {1, 2}
    OnChain = {1}
    MaxJoined = 1
    PastBlocks = {1}
    NewBlocks = {3}
    Slice = 1
    Failsafe = 2
    MaxBalance = 2
    PayoutThreshold = 2
    MaxFailures = 1
    MaxPayouts = 1
    Addresses = {1, 2}
    Names = {"home", "away"}
    Pushes = {1, 2}
    Heartbeat = 2
    MaxBids = 5
    PageSize = 3
    MaxConsumed = 1
SPECIFICATION LiveSpec
PROPERTIES Settles DepositsSettle Healed BlockAnnounced
