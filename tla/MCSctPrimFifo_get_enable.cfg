CONSTANTS
    Data = {d0}
    ZERO = d0
    Configs <- ThreadTargets
    PutOps = {"mask", "b_put"}
    GetOps = {"mask", "get_enable"}
    MaxResets = 0
    d0 = d0
    d1 = d1
SPECIFICATION Spec
INVARIANTS PutWoken

