CONSTANTS
    Values = {0, 1, 2}
    MaxTime = 3
    Configs <- RoseFell
SPECIFICATION Spec
INVARIANTS SameVerdict
