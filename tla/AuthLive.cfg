SPECIFICATION FairSpec
CONSTANTS
    NoWindow = NoWindow
    NoSession = NoSession
    IPs = {ip1}
    Limit = 1
    Window = 1
    Capacity = 1
    Clients = {c1, c2, c3}
    Tokens = {t1}
    SessionTTL = 1
    MaxTime = 1
PROPERTIES
    RequestsReturn
