SPECIFICATION ControlSpec
CONSTANTS
    Titles <- OneTitle
    TitleOf <- MCTitleOf
    Size <- MCSize
    Files <- OneFile
    Held <- OneFile
    Roots = {"r1"}
    Caps = {0}
    MaxScans = 2
    MaxEdits = 3
    MaxClusterEdits = 0
    MaxMaintenance = 0
    MaxLapses = 1
    MaxCrashes = 1
INVARIANTS
    ControlTypeOK
    ApprovalOutlivesJob
    ListingIsOneScan
