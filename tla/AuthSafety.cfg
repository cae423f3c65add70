SPECIFICATION Spec
CONSTANTS
    NoWindow = NoWindow
    NoSession = NoSession
    IPs = {ip1, ip2, ip3}
    Limit = 2
    Window = 2
    Capacity = 2
    Clients = {c1, c2}
    Tokens = {t1, t2}
    SessionTTL = 2
    MaxTime = 2
SYMMETRY Symmetry
INVARIANTS
    TypeOK
    TriesBounded
    CapacityKept
PROPERTIES
    NotForgivenEarly
    DeniedStaysDenied
    LiveSessionsKept
