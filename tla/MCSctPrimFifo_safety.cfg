CONSTANTS
    Data = {d0, d1}
    ZERO = d0
    Configs <- PeekedConfigs
    PutOps = {"clear", "put", "mask", "b_put"}
    GetOps = {"clear", "get", "mask", "b_get"}
    MaxResets = 1
    d0 = d0
    d1 = d1
SPECIFICATION Spec
INVARIANTS TypeOK AssertionsHold RequestsPerformed MethodsWoken PutWoken GetWoken PeekWoken RequestIffElement
PROPERTIES ImplementsContract
