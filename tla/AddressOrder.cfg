SPECIFICATION Spec
CONSTANTS
    MaxInt = 7
    PageSizes = {2}
    Kinds = {"mysql"}
    Snapshots <- MCSnapshots
    Variants <- MCVariants
    Queries <- MCQueries
    Orders <- MCOrders
    MaxNews = 1
INVARIANT AddressesInOrder
CHECK_DEADLOCK FALSE
