SPECIFICATION Spec
CONSTANTS
    a = a
    b = b
    c = c
    d = d
    ra = ra
    rb = rb
    rc = rc
    k = k
    w1 = w1
    w2 = w2
    NoKey = NoKey
    Events = {a, b}
    Requests = {ra, rb}
    Runs = {w1, w2}
    Keys = {k}
    Batches = {}
    Items <- PairItems
    KeyOf <- PairKeyOf
    At <- PairSame
    Poison = {}
    PopLimit = 2
    Faults = {"redis", "db", "kill"}
INVARIANTS
    TypeOK
    AcknowledgedIsAccountedFor
    StoredAnswerIsCommitted
    OneCopyInTransit
    OneRowPerSlot
    RetryAddsNothing
