CONSTANTS
    Null = Null
    Orders = {1, 2, 3}
    Ticks = {"loop"}
    Config <- MCConfig
    Quotes <- Steady
    Probes = {TRUE}
    NodeStale = {FALSE}
    Holds = {FALSE}
    BootMode = "ALWAYS_LIVE"
    Grace = 0
    Lag = 0
    Cooldown = 0
    Events = {"ends","staleUrl"}
    Faults = {}
    MaxFaults = 0
    ChurnStreakThreshold = 2
    OwnCancelMemory = 1
    BlacklistMargin = 1
    BlacklistFallback = 1
    Bans = {1}
SPECIFICATION GuardedSpec
INVARIANT BreakerTrips
