SPECIFICATION FairSpec

CONSTANTS
    kontor = kontor
    Battery = {kontor}
    Mode <- MCModes
    SkipClear <- MCSkips
    SkipStandby <- MCSkipStandby
    EmergencyTarget <- MCSkips
    Limit <- MCLimits
    ClearWait = 1
    StandbyWait = 2
    SetWait = 1
    VerifyWait = 1
    CallTime = 1
    MaxRetries = 3
    PruneAge = 2
    AgeCap = 3
    MaxCalls = 2
    Faults = {FALSE, TRUE}

INVARIANT TypeOK
INVARIANT ProtocolKept
PROPERTY ImplementsContract
PROPERTY Settles
