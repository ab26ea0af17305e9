SPECIFICATION FairSpec

CONSTANTS
    StartScenario = "PV_SURPLUS_DAY"
    MinDwell = 2
    MorningStart = 6
    MorningEnd = 9
    ForenoonEnd = 12
    MiddayEnd = 17
    EveningEnd = 22
    Floor = 15
    MorningMin = 30
    EveningMargin = 10
    SurplusEntry = 95
    SurplusExit = 90
    SurplusPv = 500
    SurplusExitPv = 200
    GridChargeMax = 90
    Snapshots <- MCSnapshots
    Overrides = {}

PROPERTY NightEvSettles
