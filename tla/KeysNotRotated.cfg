SPECIFICATION Spec
CONSTANTS
    ga = ga
    gb = gb
    f = f
    x = x
    y = y
    o = o
    p = p
    Nothing = Nothing
    Requests = {ga, x, y}
    Kind <- KindOf
    Emails = {o}
    Faults = {}
PROPERTY
    RotationTakesEffect
CHECK_DEADLOCK FALSE
