SPECIFICATION RecordsSpec

CONSTANTS
    Task = {"control", "fix"}
    Calls <- MCCalls
    Ttl = 2
    Attempts = 2
    Timeout = 1
    MaxWorld = 2

    Battery = {"kontor"}
    Mode = {"charge_pv", "charge_battery"}
    MaxSessions = 1
    LastDate = 2
    MaxProduced = 1
    MaxWriteFaults = 2

    Hours = 4
    LowHours = {1}
    TopN = 2
    Import <- MCImport
    Samples = 2
    LastMonth = 1

    PlanHours = {6, 12, 17, 22}
    NightStartHour = 22
    NightEndHour = 6
    Midday = 16
    Evening = 17
    PvReplanPct = 20
    EvTarget = 75
    EvBattery = 92
    EvEfficiency = 92
    MaxJump = 20
    EvKw = 69
    PvHigh = 20
    GridMaxSoc = 90
    GridMaxKw = 3
    BatCap = 20
    BatEfficiency = 90
    PvSharePct = 50
    Forecast = {10, 30}
    EvSoc = {40}
    BatSoc = {20, 95}

    WindowStart = 6
    WindowEnd = 11
    MorningStart = 6
    MorningEnd = 8
    NoonStart = 8
    NoonEnd = 10
    Baseload = 25
    SafetyMargin = 20
    Pack <- MCPack
    PackCap <- MCPackCap
    MaxCharge <- MCMaxCharge
    AmpPower = 7
    MinAmps = 6
    MaxAmps = 10
    Device <- MCDevice
    Estimate <- MCEstimate
    Totals = {180, 900}
    PackGap = {0, 12, 55}
    CarGap = {0, 50}

CHECK_DEADLOCK FALSE

INVARIANT EveryDayHasPlan
