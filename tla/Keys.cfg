SPECIFICATION Spec
CONSTANTS
    ga = ga
    gb = gb
    f = f
    x = x
    y = y
    o = o
    p = p
    Nothing = Nothing
    Requests = {ga, gb, x, y}
    Kind <- KindOf
    Emails = {o, p}
    Faults = {"redis", "db", "kill"}
INVARIANTS
    TypeOK
    CreatedIsCommitted
    KeysNeverCrossTenants
    OneApplicationPerEmail
    RevokedKeysAreForgotten
PROPERTY
    DeadKeysStayDead
CHECK_DEADLOCK FALSE
