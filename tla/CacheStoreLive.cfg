SPECIFICATION FairSpec
CONSTANTS
    Keys = {k1}
    Callers = {c1, c2}
    Calls = {p1, p2}
    None = None
    TTL = 1
    MaxStales = {1}
    MaxTime = 1
    MaxVersion = 0
PROPERTIES
    EveryRequestReturns
    CanceledRequestReturns
