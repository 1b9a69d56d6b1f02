SPECIFICATION LiveSpec
CONSTANTS
    sensor = sensor
    isp = isp
    flash = flash
    NoDev = NoDev
    NumSlots = 7
    l_dev <- SensorIsp
    Pd <- PdApart
    Trigger <- OnSof
    Before <- NoDelay
    Isp = isp
    MaxReq = 3
    MaxOpen = 2
    MaxTasks = 2
    MaxSince = 2
    MaxTriggers = 1
    Budgets <- BubblesOrLost
    Recover <- AllReqs
 
PROPERTIES ServedInOrder AllCompleted
