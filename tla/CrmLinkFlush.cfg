SPECIFICATION Spec
CONSTANTS
    sensor = sensor
    isp = isp
    flash = flash
    NoDev = NoDev
    NumSlots = 6
    l_dev <- SensorIsp
    Pd <- PdApart
    Trigger <- OnSof
    Before <- NoDelay
    Isp = isp
    MaxReq = 2
    MaxOpen = 2
    MaxTasks = 2
    MaxSince = 2
    MaxTriggers = 1
    Budgets <- FlushAndBubble
    Recover <- AllReqs
PROPERTIES FlushSafe
