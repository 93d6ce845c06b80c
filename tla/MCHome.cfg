SPECIFICATION HomeSpec
CONSTANTS
    Components = {"fresh", "plan", "repeat", "cache", "keys", "wants", "holds", "transfer", "modes", "power", "gateway", "pool", "supervisor", "codec"}
    Unused = Unused
    None = None
    Gateways = {g1}
    MaxVer = 2
    GatewayEvents = 3
    Callers = {"worker", "manual"}
    Want <- PullWant
    Ranges = 2
    PoolCap = 2
    MaxGen = 3
    Roles <- TwoRoles
    Pids = {1, 2, 3}
    RoleEvents = 4
    NoSecret = NoSecret
    NoSocket = NoSocket
    NoPid = NoPid
    NoCaller = NoCaller
    NoDigest = NoDigest
    media = media
    Kinds = {"Cluster", "Secret", "Title", "Want", "Job", "Hold", "RemoteFile", "Node", "Event", "Sync"}
    MaxVaried = 1
    MaxWrites = 2
    req = req
    h1 = h1
    c0 = c0
    c1 = c1
    c2 = c2
    pu1 = pu1
    pu2 = pu2
    src1 = src1
    src2 = src2
    g1 = g1
    w = w
    m = m
SYMMETRY Symmetry
INVARIANTS
    DaemonsAreApart
    ObjectsKeepMeaning
PROPERTIES
    SyncIsExact
    ScreenIsStore
    BytesAreWhole
CHECK_DEADLOCK FALSE
