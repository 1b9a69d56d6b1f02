SPECIFICATION DevSpec
CONSTANTS
    SpwNDev = 2
    SpwGpioDevs = {1, 2}
    SpwClkDevs = {1}
    SpwFaults = 1
    SpwUps = 3
    SnsRing = 3
    SnsBatch = 1
    SnsWord = 64
    SnsMaxReq = 5
    SnsFaults = 1
    SnsOpens = 2
    ActRing = 2
    ActDelay = 1
    ActMaxReq = 3
    ActFaults = 1
    ActOpens = 2
    OisCalib = TRUE
    OisPackets = 4
    OisFaults = 2
    OisOpens = 3
    EepKernelProbe = FALSE
    EepReads <- MCReads
    EepFaults = 2
    EepPackets = 4
    FlsRing = 2
    FlsBatch = 1
    FlsWord = 64
    FlsMaxReq = 3
    FlsFaults = 1
    FlsOpens = 2
    FlsInits = 1
    CsiRates = {2}
    CsiClocks = {2, 3}
    CsiFaults = 1
    CsiSteps = 2
    CciClients = {a, b}
    CciFreqs = {1, 2}
    CciOps = 2
    CciFaults = 1
    CcqMax = 6
    CcqCmds = 5
    CcqOps = 2
    CcqTimeouts = 1
    CcqErrors = 1
    SmmBufs = {1, 2}
    SmmPages <- MCPages
    SmmPoolN = 3
    SmmRegionN = 3
    SmmWord = 4
    SmmOpen = 3
    SmmOnce = {"fw"}
    SmmFaults = 1
    SmcToks = {1, 2}
    SmcCbMax = 2
    SmcPfMax = 2
    SmcFds = {1}
    SmcUses = 2
    SmcFaults = 1
    MmtThreads = {1, 2}
    MmtBufs = {1, 2}
    MmtFds = {1}
    MmtSlots = 2
    MmtHdls <- MCHdls
    MmtOps = 2
    MmtFaults = 1
    CpaClients = {1, 2}
    CpaLevels = {1, 2}
    CpaBws = {1, 4}
    CpaMinBw = 3
    CpaWorks = 2
    CpaFaults = 1
    VlbReaders = {1, 2}
    VlbN = 2
    VlbCalls = 3
    VlbFrames = 2
    VlbProxies = 1
    VlbMishaps = 1
    AvfIds = {1, 2}
    AvfBufs = 2
    AvfSofs = 2
    AvfFifo = 2
    AvfTasks = 2
    AvfFrames = 2
    AvfStarts = 2
    AvfFaults = 1
    AdvPaths = {1, 2}
    AdvDrop = 1
    AdvMaxErr = 1
    AdvTasks = 1
    AdvOpens = 2
    AdvCmds = 2
    AdvErrs = 2
    AdvFaults = 1
INVARIANTS
    
    CciSafe
    SmmSafe
    MmtSafe
    CpaSafe
PROPERTIES VlbCorrect AisCorrect
CHECK_DEADLOCK FALSE
