SPECIFICATION ServiceSpec
CONSTANTS
    Keys = {list, detail}
    TheKey = list
    TheSource = host
    Sources <- OneSource
    Source <- SourceOfEveryKey
    KeysOf <- KeysByKind
    Horizon <- HorizonByKind
    Calls = {p1, p2}
    None = None
    Untracked = Untracked
    Kinds = {"host"}
    TTL = 1
    Interval = 1
    LoadBound = 1
    MaxTime = 4
    ShortHorizon = 4
    MaxVersion = 1
SYMMETRY Symmetry
INVARIANT StallShown
