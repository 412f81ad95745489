CONSTANTS
    Data = {d0}
    ZERO = d0
    Configs <- LiveConfigs
    PutOps = {"put", "b_put"}
    GetOps = {"get_enable", "b_get"}
    MaxResets = 1
    d0 = d0
    d1 = d1
SPECIFICATION Spec
PROPERTIES BlockedPutReturns BlockedGetReturns

