SPECIFICATION Spec
SYMMETRY Sym
CONSTANTS
    Objs = {o1, o2, o3}
    Threads = {t1, t2}
    Cbs = {n1}
    Pls = {}
    NoObj = NoObj
    Ops = {"create", "signal", "merge", "destroy", "callback", "wait"}
    Contract = TRUE
    Mod = 4
    MaxRef = 2
    MaxOpen = 1
INVARIANTS GroupsExact
PROPERTIES VerdictsFinal
CHECK_DEADLOCK FALSE
