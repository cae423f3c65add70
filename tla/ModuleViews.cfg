SPECIFICATION Spec
CONSTANTS
    MaxInt = 7
    PageSizes = {2}
    Kinds = {"disk", "mysql", "redis", "elasticsearch", "rabbitmq", "java", "host"}
    Snapshots <- MCSnapshots
    Variants <- MCVariants
    Queries <- MCQueries
    Orders <- MCOrders
    MaxNews = 1
INVARIANTS
    AlertsExplainStatus
    OverviewCountsLists
    PagesPartition
    NoSlicePanic
    MissingLast
    UnassignedExact
PROPERTY OnlyNewsImproves
CHECK_DEADLOCK FALSE
