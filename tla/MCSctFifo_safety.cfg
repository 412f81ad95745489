CONSTANTS
    LENGTH = 2
    ElemNums = 4
    Data = {d0, d1}
    ZERO = d0
    Configs <- SupportedConfigs
    PutOps = {"idle", "clear", "put", "mask", "b_put"}
    GetOps = {"idle", "clear", "get", "mask", "b_get"}
    MaxResets = 1
    d0 = d0
    d1 = d1
SPECIFICATION Spec
INVARIANTS OutputsSettled MethodsSettled ReadyIffRoom RequestIffElement
PROPERTIES ImplementsContract ImplementsRtl
