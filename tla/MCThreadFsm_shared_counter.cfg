CONSTANTS
    Waits = {1, 2, 3}
    Inputs = {1, 2}
    Acts = {"x", "y"}
    Stmts = {1, 2, 3}
    Layouts = {"a", "b"}
    MaxNumber = 4
    Programs <- SharedCounterThread
SPECIFICATION Spec
INVARIANTS FollowsThread
CHECK_DEADLOCK FALSE
