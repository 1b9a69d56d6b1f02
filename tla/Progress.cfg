SPECIFICATION PrgSpec
CONSTANTS
    Objs = {o1, o2, o3}
    Threads = {t1, t2}
    Cbs = {n1}
    Pls = {}
    NoObj = NoObj
    Ops = {"create", "signal", "merge", "callback"}
    Contract = TRUE
    Mod = 4
    MaxRef = 1
    MaxOpen = 1
    Clients = {c1, c2, c3}
    NumTasks = 2
    PrioArgs <- DriverPrioArgs
    None = None
    CrtDevs = {1, 2}
    CrtIsp = 1
    CrtPool = 2
    CrtGens = 2
    CrtEvts = 2
    CrtCtl = 1
    CrtFires = 1
    JpgNCtx = 2
    JpgNReq = 1
    JpgTasks = 1
    JpgMaxId = 2
    JpgFaults = 1
INVARIANTS
    WqSafe
    CrtSafe
PROPERTIES SyncServed WqServed  
CHECK_DEADLOCK FALSE
