SPECIFICATION Spec
CONSTANTS
    sensor = sensor
    isp = isp
    flash = flash
    NoDev = NoDev
    NumSlots = 7
    l_dev <- SensorIspFlash
    Pd <- PdApart
    Trigger <- OnEof
    Before <- FlashDelays
    Isp = isp
    MaxReq = 2
    MaxOpen = 2
    MaxTasks = 2
    MaxSince = 2
    MaxTriggers = 1
    Budgets <- OneFailure
    Recover <- AllReqs
PROPERTIES FrameWhole
