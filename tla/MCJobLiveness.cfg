SPECIFICATION FairControlSpec
CONSTANTS
    Titles <- OneTitle
    TitleOf <- MCTitleOf
    Size <- MCSize
    Files <- OneFile
    Held <- OneFile
    Roots = {"r1"}
    Caps = {0}
    MaxScans = 1
    MaxEdits = 4
    MaxClusterEdits = 0
    MaxMaintenance = 0
    MaxLapses = 1
    MaxCrashes = 1
PROPERTIES
    RevokedIsRefused
    WantConverges
    WorkIsOffered
