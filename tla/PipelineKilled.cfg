SPECIFICATION Spec
CONSTANTS
    a = a
    b = b
    c = c
    d = d
    ra = ra
    rb = rb
    rc = rc
    k = k
    w1 = w1
    w2 = w2
    NoKey = NoKey
    Keys = {k}
    Events = {a, c, d}
    Requests = {ra, rc}
    Batches = {rc}
    Items <- MixedItems
    KeyOf <- MixedKeyOf
    At <- MixedTime
    Poison = {d}
    Runs = {w1}
    PopLimit = 2
    Faults = {"kill"}
INVARIANT KilledWorkerLosesNothing
