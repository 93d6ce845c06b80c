CONSTANTS
    Keys = {file, want}
    StatusOnly = {file}
    Wants = {want}
    Syncs = {}
    Specs = {s1}
    UnitSpec = s1
    Statuses = {empty}
    EmptyStatus = empty
    Captured = empty
    Scheduled = empty
    Clients = {c1}
    NoObject = none
    HistoryLimit = 2
    LegacyRv = 2
    MaxRv = 5
    Watchers = {w1}
    Filters = {{file, want}, {want}}
    BatchLimit = 2
    ChanCap = 1
SPECIFICATION WatchSpec
INVARIANTS StreamConverges ResumeLosesNothing
PROPERTIES RevisionsAscend StreamCatchesUp
