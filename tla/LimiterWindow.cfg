SPECIFICATION Spec
CONSTANTS
    c1 = c1
    c2 = c2
    c3 = c3
    c4 = c4
    Calls = {c1, c2, c3, c4}
    Limit = 2
    Window = 3
    Slack = 1
    MaxTime = 7
    Faults = {"redis"}
SYMMETRY AnyOrder
INVARIANTS
    TypeOK
    LimitPerWindow
    RefusedOnlyWhenFull
CHECK_DEADLOCK FALSE
