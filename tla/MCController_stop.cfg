CONSTANTS
    Null = Null
    Orders = {1, 2}
    Ticks = {"loop"}
    Config <- MCConfig
    Quotes <- Steady
    Probes = {TRUE}
    NodeStale = {FALSE}
    Holds = {FALSE}
    BootMode = "ALWAYS_LIVE"
    Grace = 1
    Lag = 1
    Cooldown = 1
    Events = {"runMode"}
    Faults = {}
    MaxFaults = 0
SPECIFICATION Spec
PROPERTY HardStop
