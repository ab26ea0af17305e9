SPECIFICATION Spec

CONSTANTS
    NormalFloor = 15
    ColdFloor = 20
    FreezeFloor = 25
    WornRaise = 5
    BadRaise = 10
    Hysteresis = 5
    EmergencyLimit = 6000
    Order <- MCOrder
    Mode <- MCModes
    Limit <- MCLimits
    SkipClear <- MCSkips
    SkipStandby <- MCSkips
    EmergencyTarget <- MCSkips
    ClearWait = 1
    StandbyWait = 2
    SetWait = 1
    VerifyWait = 1
    MaxRetries = 3
    PruneAge = 3
    AgeCap = 4
    Reliable = TRUE
    Cooldown = 4
    SocMin = 15
    SocMax = 95
    SocBuffer = 1
    MaxCharge = 5000
    Power = 3000
    Readings <- MCReadings
    Sites <- MCSites
    CycleTicks <- MCOneTick
    Restarts = TRUE
    Drifts = TRUE

INVARIANT TypeOK
INVARIANT FastOffAtRest
INVARIANT RecoveredAtOnce
PROPERTY RunsOut
