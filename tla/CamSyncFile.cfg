SPECIFICATION Spec
SYMMETRY Sym
CONSTANTS
    Objs = {o1, o2}
    Threads = {t1, t2}
    Cbs = {n1}
    Pls = {p1}
    NoObj = NoObj
    Ops = {"create", "signal", "destroy", "callback", "payload", "reset", "wait", "put_ref", "close"}
    Contract = FALSE
    Mod = 4
    MaxRef = 1
    MaxOpen = 1
INVARIANTS NodesOnLive CloseDestroysAll
CHECK_DEADLOCK FALSE
