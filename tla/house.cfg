SPECIFICATION HouseSpec

CONSTANTS
    MinA = 6
    MaxA = 7
    StartA = 6
    NightMax = 7
    BudgetMax = 8
    UpHold = 2
    DownHold = 1
    NightPause = 2
    RampPause = 2
    TopStep = 10
    Views <- MCViews

    Consumer <- MCConsumer
    Relay <- MCRelay
    Wired <- MCRelay
    Heater = "miner"
    Priority <- MCPriority
    Shed <- MCShed
    Requires <- MCRequires
    Draw <- MCDraw
    Tolerance = 1
    Cooldown = 2
    Sustained = 2
    StopBelow = 5
    StartDeadband = 1
    DoubledDeadband = 2
    DoubledFor = 1
    Window = 1
    MaxSwitches = 2
    Weather <- MCWeather

    Battery = {"kontor", "forrad"}
    Rank <- MCRank
    Cap <- MCCap
    MaxCharge = 40
    MaxDischarge = 40
    SocMin = 1
    SocBuffer = 1
    SocMax = 5
    SocTop = 5
    ZgDeadband = 5
    GainTenths = 7
    Spread = 0
    NeedBased = FALSE
    Smoothing = 3
    Tiers <- MCTiers
    Correction <- MCCorrection
    TunerSettings = {FALSE, TRUE}
    Rolling = 1
    Stability = 5
    ClearWait = 2
    StandbyWait = 1
    SetWait = 1
    VerifyWait = 1
    ModeCooldown = 4
    House <- MCHouseLoad
    MaxDisturbances = 1

INVARIANT HouseTypeOK
INVARIANT BudgetAmpsTrue
INVARIANT OneDirection
INVARIANT FloorKept
PROPERTY StopsAtTarget
PROPERTY NoGridByDay
PROPERTY BreachWins
PROPERTY NeverStartsShort
PROPERTY RelaysFollow
PROPERTY Settles
