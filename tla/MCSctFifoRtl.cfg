CONSTANTS
    LENGTH = 3
    Data = {d0, d1}
    ZERO = d0
    Configs <- AllConfigs
    d0 = d0
    d1 = d1
SPECIFICATION Spec
INVARIANTS IndicesAgree
PROPERTIES ImplementsContract
