CONSTANTS
    Values = {0, 1, 2}
    MaxTime = 3
    Configs <- Written
SPECIFICATION Spec
INVARIANTS SameVerdictOnBits
