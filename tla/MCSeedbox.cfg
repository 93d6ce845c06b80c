SPECIFICATION SeedboxSpec
CONSTANTS
    Components = {"install", "bundle", "edge", "rejections", "wanted", "apply", "walker", "wire"}
    Unused = Unused
    None = None
    Absent = Absent
    Pinned = Pinned
    Missing = Missing
    h1 = h1
    h2 = h2
    p1 = p1
    p2 = p2
    port1 = port1
    port2 = port2
    Dirs <- WalkDirs
    LinkTo <- WalkLinks
    Places <- WalkPlaces
    FileIds = {f1, f2}
    ArgChoices <- WalkArgs
    Moving = TRUE
    MaxChanges = 1
    f1 = f1
    f2 = f2
    k1 = k1
    k2 = k2
    t1 = t1
INVARIANTS
    ListingsAreWhole
PROPERTIES
    HostIsWhole
    GrabberIsObeyed
CHECK_DEADLOCK FALSE
