CONSTANTS
    Data = {d0, d1}
    ZERO = d0
    Configs <- SmallConfigs
    MaxResets = 1
    d0 = d0
    d1 = d1
SPECIFICATION Spec
INVARIANTS RefusedAreWoken
PROPERTIES ImplementsContract BlockedReturn Delivered
