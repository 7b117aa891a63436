CONSTANTS
    Null = Null
    Orders = {1, 2}
    Ticks = {"loop"}
    Config <- MCConfig
    Quotes <- Steady
    Probes = {TRUE, FALSE}
    NodeStale = {FALSE}
    Holds = {FALSE}
    BootMode = "ALWAYS_LIVE"
    Grace = 0
    Lag = 0
    Cooldown = 1
    Events = {"ends", "staleUrl"}
    Faults = {"fetch", "reject", "lost", "crash", "blip"}
    MaxFaults = 1
SPECIFICATION FairSpec
PROPERTIES UnknownPauses OutageStopsSpending BidRestored
