CONSTANTS
    Null = Null
    Orders = {1, 2}
    Ticks = {"loop"}
    Config <- MCConfig
    Quotes <- Varied
    Probes = {TRUE, FALSE}
    NodeStale = {FALSE}
    Holds = {FALSE}
    BootMode = "ALWAYS_LIVE"
    Grace = 1
    Lag = 1
    Cooldown = 2
    Events = {"ends", "staleUrl", "runMode"}
    Faults = {"blip", "fetch", "reject"}
    MaxFaults = 1
    NewOrder = 9
    Configs <- MCConfigs
    Views <- MCViews
    Books <- MCBooks
    Needs <- MCNeeds
SPECIFICATION MarketSpec
INVARIANTS
    AtMostOneFirm CooldownHonoured
    CapRespected TwoTicksSettle BailsOut KeepsOneOnTarget
    CheapestDeepEnough
