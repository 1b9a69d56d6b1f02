SPECIFICATION CtxFairSpec
CONSTANTS
    NReq = 2
    MaxId = 2
    Nin <- MCNin
    RegFailAt = {1}
    CtxBudgets <- MCCtxBudgets
PROPERTIES  CtxImplements 
