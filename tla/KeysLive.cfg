SPECIFICATION FairSpec
CONSTANTS
    ga = ga
    gb = gb
    f = f
    x = x
    y = y
    o = o
    p = p
    Nothing = Nothing
    Requests = {ga, f, x, y}
    Kind <- KindOf
    Emails = {o}
    Faults = {"redis"}
INVARIANTS
    RowsHoldHandedOutKeys
    RevokedKeysAreForgotten
PROPERTY RequestsAreAnswered
CHECK_DEADLOCK FALSE
