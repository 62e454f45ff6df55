SPECIFICATION FairSpec
CONSTANTS
    a = a
    b = b
    c = c
    d = d
    ra = ra
    rb = rb
    rc = rc
    k = k
    w1 = w1
    w2 = w2
    NoKey = NoKey
    Keys = {k}
    Events = {a, b}
    Requests = {ra, rb}
    Batches = {}
    Items <- PairItems
    KeyOf <- PairKeyOf
    At <- PairSame
    Poison = {}
    Runs = {w1}
    PopLimit = 2
    Faults = {"redis", "kill"}
PROPERTIES
    TransitEnds
    RequestsEnd
