CONSTANTS
    c1 = c1
    l1 = l1
    CustId = {c1}
    LnId = {l1, l2}
    NoId = NoId
    Monitor = Monitor
    Payer = {p1}
    NoTask = NoTask
    Environment = {"crash"}
    Written <- MCWritten
SPECIFICATION Spec
INVARIANT MemoryIsStore
PROPERTIES
    Implements
    LockIsReleased
