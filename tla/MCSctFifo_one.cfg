CONSTANTS
    LENGTH = 1
    ElemNums = 2
    Data = {d0, d1}
    ZERO = d0
    Configs <- AllConfigs
    PutOps = {"put", "b_put"}
    GetOps = {"get", "b_get"}
    MaxResets = 1
    d0 = d0
    d1 = d1
SPECIFICATION Spec

PROPERTIES ImplementsContract ClockTicks BlockedPutReturns BlockedGetReturns
