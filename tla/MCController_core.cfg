CONSTANTS
    Null = Null
    Orders = {1, 2}
    Ticks = {"loop"}
    Config <- MCConfig
    Quotes <- Steady
    Probes = {TRUE, FALSE}
    NodeStale = {FALSE}
    Holds = {FALSE, TRUE}
    BootMode = "ALWAYS_LIVE"
    Grace = 1
    Lag = 1
    Cooldown = 1
    Events = {"runMode", "ends", "manual", "pauses"}
    Faults = {"fetch", "reject"}
    MaxFaults = 1
SPECIFICATION Spec
INVARIANTS TypeOK NoOverlap SlotInvariant PauseMeansUnknown
PROPERTY SlotSpec
