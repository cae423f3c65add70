SPECIFICATION Spec
CONSTANTS
    Keys = {k1}
    Callers = {c1, c2}
    Calls = {p1, p2}
    None = None
    TTL = 1
    MaxStales = {0, 1}
    MaxTime = 1
    MaxVersion = 1
SYMMETRY Symmetry
INVARIANTS
    TypeOK
    WaitersCounted
    SingleFlight
    NoCancelLeak
    MonotonicReads
    StaleMeansExpired
    SharingInv
PROPERTIES
    EntriesMonotone
    KeepsContract
    LoadsOneAtATime
