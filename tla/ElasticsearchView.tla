--------------------------- MODULE ElasticsearchView ---------------------------
(***************************************************************************)
(* internal/service/elasticsearch_service.go: the status of a node and of a *)
(* cluster, the alerts of the overview and the list of nodes.               *)
(*                                                                         *)
(* A row is an elasticsearch.Node: its group is the cluster it names, its   *)
(* text the node's name or address, its number the figure the list is       *)
(* sorted by.  The clusters of a snapshot are a function of their names; a  *)
(* node may name one that is not among them.  The filter for the health of  *)
(* a node's cluster is left out.                                            *)
(***************************************************************************)
EXTENDS Levels, Listing

Switches == {"up", "down", "unknown"}

Healths == {"green", "yellow", "red", "unknown"}

HealthLevel == [green |-> "normal", yellow |-> "warning", red |-> "critical", unknown |-> "unknown"]

(* Missing is -1 for a count. *)
Cluster(shards, ages) ==
    [availability : Switches, stats : Switches, health : Healths, unassigned : shards, age : ages]

Node(usages, roles, groups, texts, numbers, ages) ==
    [data : BOOLEAN, disk : usages, heap : usages, rejects : BOOLEAN, role : roles,
     age : ages, group : groups, text : texts, number : numbers]

-----------------------------------------------------------------------------
(* What is tracked is followed from the progress captured with the snapshot. *)
Observes(n) == n.age /= NotTracked
CollectionLevel(n) == Collected(n.age, "normal", "critical")

NodePrecedence == [collection |-> 4, disk |-> 3, jvm |-> 2, thread_pool |-> 1, normal |-> 0]

(* Only a data node's disk counts. *)
NodeFindings(n) ==
    {Found(IF n.data THEN UsageLevel(n.disk, "unknown") ELSE "normal", "disk"),
     Found(UsageLevel(n.heap, "unknown"), "jvm"),
     Found(IF n.rejects THEN "warning" ELSE "normal", "thread_pool")}

Summary(n) ==
    Worst(NodeFindings(n) \cup {Found(CollectionLevel(n), "collection")}, NodePrecedence)

ClusterPrecedence == [availability |-> 3, health |-> 2, collection |-> 1, normal |-> 0]

SwitchLevel(value) == [up |-> "normal", down |-> "critical", unknown |-> "unknown"][value]

ClusterSummary(c) ==
    Worst({Found(SwitchLevel(c.availability), "availability"),
           Found(SwitchLevel(c.stats), "collection"),
           Found(HealthLevel[c.health], "health"),
           Found(CollectionLevel(c), "collection")}, ClusterPrecedence)

-----------------------------------------------------------------------------
(* Mutant: the sum of shards wraps. *)
AddedWrapping(current, value) == Wrapped(current + value)

(* saturatingAddInt64 *)
Added(current, value) == IF value > MaxInt - current THEN MaxInt ELSE current + value

(* The unassigned shards of the clusters of one health, where they are reported. *)
UnassignedShards(clusters, health) ==
    LET counted == {c \in DOMAIN clusters : clusters[c].health = health /\ clusters[c].unassigned >= 0}
    IN  MapThenFoldSet(LAMBDA value, sum : Added(sum, value), 0,
                       LAMBDA c : clusters[c].unassigned,
                       LAMBDA S : CHOOSE c \in S : TRUE, counted)

(* A node's alerts: its resources, when the status is taken from them, and    *)
(* rejections; there is no category for its collection.                       *)
Alerts(n) ==
    [node_resource |-> IF Summary(n).source \in {"disk", "jvm"} THEN Summary(n).level ELSE "normal",
     request_rejections |-> IF n.rejects THEN "warning" ELSE "normal"]

(* An alert of unknown level counts with the warnings. *)
Counted(n) == CountedAs(Alerts(n), "warning")

(* The highest level of any cluster or node, both by level, and the alerts. *)
Overview(clusters, rows) ==
    [status |-> Highest({ClusterSummary(clusters[c]).level : c \in DOMAIN clusters}
                        \cup {Summary(rows[i]).level : i \in DOMAIN rows}),
     clusters |-> Tally([c \in DOMAIN clusters |-> ClusterSummary(clusters[c]).level], Levels),
     counts |-> Tally([i \in DOMAIN rows |-> Summary(rows[i]).level], Levels),
     health |-> Tally([c \in DOMAIN clusters |-> clusters[c].health], {"yellow", "red"}),
     unassigned |-> [h \in {"yellow", "red"} |-> UnassignedShards(clusters, h)],
     alerts |-> AlertTallies([i \in DOMAIN rows |-> Counted(rows[i])],
                            {"node_resource", "request_rejections"})]

-----------------------------------------------------------------------------
Accepts(query) ==
    LET q == Defaulted(query)
    IN  /\ WellFormed(q, Levels, {"master", "data"},
                      {"node", "cluster", "address", "role", "cluster_health", "number", "status"})
        /\ ~Overflows(q)

HealthRank == [green |-> 0, yellow |-> 1, red |-> 2, unknown |-> 3]

(* A node of a cluster that is not reported is of unknown health. *)
HealthOf(n, clusters) == IF n.group \in DOMAIN clusters THEN clusters[n.group].health ELSE "unknown"

RoleText == [data |-> 1, master |-> 2]

SortKey(n, clusters, field) ==
    CASE field \in {"", "node", "cluster"} -> Ranked(<<n.group, n.text>>)
      [] field = "address" -> Ranked(<<n.text>>)
      [] field = "role" -> Ranked(<<RoleText[n.role]>>)
      [] field = "cluster_health" -> Ranked(<<HealthRank[HealthOf(n, clusters)]>>)
      [] field = "number" -> Optional(n.number)
      [] field = "status" -> Ranked(<<Rank[Summary(n).level]>>)

Matches(n, q) ==
    /\ q.group \in {None, n.group}
    /\ q.role \in {"", n.role}
    /\ q.status \in {"", Summary(n).level}
    /\ q.search \in {None, n.text}

Nodes(rows, ids, clusters, query) ==
    LET q == Defaulted(query)
        list ==
            Listed(ids, {i \in DOMAIN rows : Matches(rows[i], q)},
                   [i \in DOMAIN rows |-> SortKey(rows[i], clusters, q.sort)], q.order)
    IN  Paged(list, PageStart(q, Len(list)), q.size)
=============================================================================
