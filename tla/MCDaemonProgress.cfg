SPECIFICATION ProgressSpec
CONSTANTS
    Components = {"sync", "gone", "tui", "transfer", "gateway", "control", "supervisor", "publish", "queue"}
    Unused = Unused
    None = None
    Gateways = {g1}
    MaxVer = 2
    GatewayEvents = 2
    Callers = {"worker", "manual", "scan"}
    Want <- CallWant
    Ranges = 1
    PoolCap = 2
    MaxGen = 0
    Roles <- TwoRoles
    Pids = {1, 2, 3}
    RoleEvents = 2
    NoSecret = NoSecret
    NoSocket = NoSocket
    NoPid = NoPid
    NoCaller = NoCaller
    NoDigest = NoDigest
    media = media
    Kinds = {"Want"}
    MaxVaried = 0
    MaxWrites = 0
    req = req
    h1 = h1
    c0 = c0
    c1 = c1
    c2 = c2
    pu1 = pu1
    pu2 = pu2
    src1 = src1
    src2 = src2
    g1 = g1
    w = w
    m = m
PROPERTIES
    DaemonsProgress
CHECK_DEADLOCK FALSE
