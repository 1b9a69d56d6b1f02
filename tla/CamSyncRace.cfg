SPECIFICATION Spec
SYMMETRY Sym
CONSTANTS
    Objs = {o1, o2, o3}
    Threads = {t1, t2}
    Cbs = {}
    Pls = {}
    NoObj = NoObj
    Ops = {"create", "signal", "merge", "nomem", "destroy"}
    Contract = FALSE
    Mod = 4
    MaxRef = 1
    MaxOpen = 1
INVARIANTS TableSafe
CHECK_DEADLOCK FALSE
