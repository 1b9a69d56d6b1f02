SPECIFICATION OffSpec
CONSTANTS
    JpgNCtx = 2
    JpgNReq = 2
    JpgTasks = 1
    JpgMaxId = 2
    JpgFaults = 1
    FdNCtx = 2
    FdNReq = 2
    FdTasks = 2
    FdMaxId = 2
    FdStarts = 2
    FdFaults = 1
    LrNCtx = 2
    LrNReq = 2
    LrTasks = 1
    LrIrqs = 2
    LrStarts = 2
    LrFaults = 1
    HfiN = 4
    HfiM = 4
    HfiBound = 2
    HfiWords = {1, 2}
    HfiPkts <- MCPkts
    IcpNUsr = 2
    IcpNCtx = 2
    IcpNSlot = 1
    IcpNReq = 2
    IcpTasks = 1
    IcpAcqs = 2
    IcpFaults = 1
    IcpPcFlag = TRUE
    IckNCtx = 2
    IckNSlot = 2
    IckRates <- MCRates
    IckSvs = 2
    IckDefBw = 1
    IckThreshold = 1
    IckLoads <- MCLoads
    IckEvents = 2
    IckFrames = 3
    CdfSize = 4
    CdfCounts = {1, 3}
    CdfReqs = 3
    CdfItems = 2
    CdfFaults = 1
    CdcOwners = {1, 2}
    CdcSlots = {1, 2}
    CdcFaults = 2
    CdcNodes = 2
INVARIANTS
    
    FdSafe
    LrSafe
    HfiSafe
    
    CdmSafe
PROPERTIES IckCorrect
CHECK_DEADLOCK FALSE
