SPECIFICATION FairControlSpec
CONSTANTS
    Titles <- OneTitle
    TitleOf <- MCTitleOf
    Size <- MCSize
    Files <- OneFile
    Held <- OneFile
    Roots = {"r1"}
    Caps = {0}
    MaxScans = 2
    MaxEdits = 2
    MaxClusterEdits = 0
    MaxMaintenance = 0
    MaxLapses = 0
    MaxCrashes = 0
PROPERTIES
    ApprovedHoldGetsJob
