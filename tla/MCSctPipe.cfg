CONSTANTS
    N = 3
    Data = {d0, d1}
    ZERO = d0
    Configs <- Config
    PutOps = {"clear", "put", "mask", "b_put"}
    GetOps = {"clear", "get", "mask", "b_get"}
    MaxResets = 1
    d0 = d0
    d1 = d1
SPECIFICATION Spec
INVARIANTS TypeOK SignalsSettled NotReadyFull RequestAfterLatency
PROPERTIES ImplementsContract
