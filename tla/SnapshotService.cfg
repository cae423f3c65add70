SPECIFICATION ServiceSpec
CONSTANTS
    Keys = {list, detail}
    TheKey = list
    TheSource = host
    Sources <- OneSource
    Source <- SourceOfEveryKey
    KeysOf <- KeysByKind
    Horizon <- HorizonByKind
    Calls = {p1, p2}
    None = None
    Untracked = Untracked
    Kinds = {"host", "live", "elasticsearch", "rabbitmq", "java"}
    TTL = 1
    Interval = 1
    LoadBound = 1
    MaxTime = 5
    ShortHorizon = 2
    MaxVersion = 1
SYMMETRY Symmetry
INVARIANTS
    ServiceTypeOK
    BaselineTrue
    NoEarlyStall
