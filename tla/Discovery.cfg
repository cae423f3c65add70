SPECIFICATION FairListingSpec
CONSTANTS
    Callers = {c1, c2, c3}
    HostLoaders = {c1}
    Flights = {f1, f2, f3}
    Ids = {prom1, prom2}
    None = None
    Targets = {h1, h2}
    PageSize = 1
    MaxPages = 2
INVARIANTS
    ListingTypeOK
    FlightsLed
    OneSource
    KnownNeverWaits
    MissedForExchange
PROPERTIES
    CallersReturn
    ListingsReturn
