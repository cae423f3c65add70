SPECIFICATION ServiceSpec
CONSTANTS
    Keys = {list}
    TheKey = list
    TheSource = host
    Sources <- OneSource
    Source <- SourceOfEveryKey
    KeysOf <- KeysByKind
    Horizon <- HorizonByKind
    Calls = {p1, p2}
    None = None
    Untracked = Untracked
    Kinds = {"elasticsearch"}
    TTL = 1
    Interval = 1
    LoadBound = 1
    MaxTime = 3
    ShortHorizon = 2
    MaxVersion = 1
SYMMETRY Symmetry
INVARIANT GoneMeansStalled
