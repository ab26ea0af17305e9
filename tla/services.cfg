SPECIFICATION ServicesSpec

CONSTANTS
    StartScenario = "PV_SURPLUS_DAY"
    MinDwell = 2
    MorningStart = 6
    MorningEnd = 9
    ForenoonEnd = 12
    MiddayEnd = 17
    EveningEnd = 22
    Floor = 15
    MorningMin = 30
    EveningMargin = 10
    SurplusEntry = 95
    SurplusExit = 90
    SurplusPv = 500
    SurplusExitPv = 200
    GridChargeMax = 90
    Snapshots <- MCSnapshots
    Overrides <- MCOverrides

    Caller = {"c1", "c2", "c3"}
    FailureThreshold = 2
    SuccessThreshold = 2
    BreakerCooldown = 2

    Table = {"cycle_log", "event_log"}
    Place <- MCPlace
    BatchSize = 1
    RetentionDays = 1
    MaxRows = 2
    LastDay = 3
    MaxLogFaults = 1

    Scenarios = {"PV_SURPLUS_DAY", "NIGHT_EV"}
    Started = "PV_SURPLUS_DAY"
    HealthDefault = "PV_SURPLUS_DAY"
    SelectOptions = {"NIGHT_EV", "Auto"}
    EveningHour = 22
    Days <- MCDays

CHECK_DEADLOCK FALSE

INVARIANT ServicesTypeOK
INVARIANT MarkedWereRead
INVARIANT OverrideWasAsked
INVARIANT SlackIsCurrent
PROPERTY NoBounce
PROPERTY HourReached
PROPERTY BreakerFollows
PROPERTY OverrideFollowed
PROPERTY LimitFollowsSun
