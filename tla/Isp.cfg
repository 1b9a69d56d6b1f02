SPECIFICATION RtpSpec
CONSTANTS
    IspSlots = {1, 2}
    IspMaxReq = 2
    IspMishaps = 1
    IspTypes = {{"pix", "fs2"}, {"rdi"}}
    IspOuts = {{1}}
    IrcCtxs = {1, 2}
    IrcCmds = {1, 2}
    IrcEvtMax = 2
    IrcIrqs = 3
    IrcStarts = 3
    CrlDevs = {1, 2}
    CrlDelay <- MCDelay
    CrlSess = 1
    CrlN = 2
    CrlHdls = {5}
    CrlRnd = {0, 1}
    CrlOpens = 1
    CrlCalls = 2
    CrlLinks = 3
    CrlAcqs = 2
    CrlFaults = 1
    NodKinds = {"isp", "fd"}
    NodN = 1
    NodUsers = 2
    NodHdls = 2
    NodOps = 1
    NodFaults = 1
    NodForced = 1
INVARIANTS
    IrcSafe
    
    NodSafe
PROPERTIES IspCorrect
CHECK_DEADLOCK FALSE
