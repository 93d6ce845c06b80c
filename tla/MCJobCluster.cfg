SPECIFICATION ControlSpec
CONSTANTS
    Titles <- OneTitle
    TitleOf <- MCTitleOf
    Size <- MCSize
    Files <- TwoFiles
    Held = {}
    Roots = {r1, r2}
    Caps = {0, 2}
    MaxScans = 1
    MaxEdits = 2
    MaxClusterEdits = 1
    MaxMaintenance = 1
    MaxLapses = 0
    MaxCrashes = 0
SYMMETRY RootSymmetry
INVARIANTS
    JobsFollowRoot
    BudgetHolds
    MaintenanceIsAlone
    NoSecondInstall
