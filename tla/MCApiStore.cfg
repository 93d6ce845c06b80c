CONSTANTS
    Keys = {sync, job}
    StatusOnly = {}
    Wants = {}
    Syncs = {sync}
    Specs = {s1, s2}
    UnitSpec = s1
    Statuses = {empty, captured, scheduled}
    EmptyStatus = empty
    Captured = captured
    Scheduled = scheduled
    Clients = {c1, c2}
    NoObject = none
    HistoryLimit = 2
    LegacyRv = 1
    MaxRv = 5
SYMMETRY ClientSymmetry
SPECIFICATION StoreSpec
INVARIANTS StoreTypeOK HistoryCoversReplay HistoryAgreesWithObjects NoLostUpdate TombstoneIsFinal GenerationTracksSpec
