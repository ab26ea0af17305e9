SPECIFICATION FairSpec

CONSTANTS
    MinA = 6
    MaxA = 7
    StartA = 6
    NightMax = 7
    BudgetMax = 8
    UpHold = 2
    DownHold = 1
    NightPause = 2
    RampPause = 2
    TopStep = 10
    Views <- MCViews

PROPERTY ChargesAtNight
