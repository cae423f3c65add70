------------------------------ MODULE RabbitMQView ------------------------------
(***************************************************************************)
(* internal/service/rabbitmq_service.go: the status of a RabbitMQ node and  *)
(* its source, the alerts of the overview and the list of nodes.            *)
(*                                                                         *)
(* A row is a rabbitmq.Node: its group is the cluster, its text the node's  *)
(* name, address or version, its number the figure the list is sorted by.   *)
(***************************************************************************)
EXTENDS Levels, Listing

(* The alarms: memory, disk, file descriptors.  The usages: the memory and the  *)
(* disk space left, file descriptors and Erlang processes of their limits.      *)
Node(alarms, usages, groups, texts, numbers, ages) ==
    [alarms : alarms, disk : usages, memory : usages, descriptors : usages, processes : usages,
     age : ages, group : groups, text : texts, number : numbers]

Observes(n) == n.age /= NotTracked

(* A node that is not followed may be in any state. *)
CollectionLevel(n) == Collected(n.age, "unknown", "unknown")

(* One alarm is enough, and it takes all three to know that there is none. *)
AlarmLevel(n) == Highest({FlagLevel(flag) : flag \in n.alarms})

Resources(n) ==
    {Found(UsageLevel(n.disk, "unknown"), "disk"),
     Found(UsageLevel(n.memory, "unknown"), "memory"),
     Found(UsageLevel(n.descriptors, "unknown"), "file_descriptor"),
     Found(UsageLevel(n.processes, "unknown"), "erlang_process")}

Precedence == [alarm |-> 6, collection |-> 5, disk |-> 4, memory |-> 3,
               file_descriptor |-> 2, erlang_process |-> 1, normal |-> 0]

Summary(n) ==
    Worst(Resources(n) \cup {Found(AlarmLevel(n), "alarm"), Found(CollectionLevel(n), "collection")},
          Precedence)

Alerts(n) ==
    [resource_alarms |-> AlarmLevel(n),
     resource_pressure |-> Worst(Resources(n), Precedence).level,
     collection |-> CollectionLevel(n)]

(* The clusters' peers that cannot be reached: not reported, none, some. *)
Connectivity == [missing |-> "unknown", none |-> "normal", some |-> "critical"]

(* The highest level of any cluster or node, both by level, and the alerts. *)
Overview(clusters, rows) ==
    LET peers == Tally([c \in DOMAIN clusters |-> Connectivity[clusters[c]]], Levels)
    IN  [status |-> Highest({Connectivity[clusters[c]] : c \in DOMAIN clusters}
                            \cup {Summary(rows[i]).level : i \in DOMAIN rows}),
         clusters |-> peers,
         counts |-> Tally([i \in DOMAIN rows |-> Summary(rows[i]).level], Levels),
         alerts |-> [cluster_connectivity |-> peers]
                    @@ AlertTallies([i \in DOMAIN rows |-> Alerts(rows[i])],
                            {"resource_alarms", "resource_pressure", "collection"})]

-----------------------------------------------------------------------------
Accepts(query) ==
    LET q == Defaulted(query)
    IN  /\ WellFormed(q, Levels, {}, {"node", "cluster", "address", "number", "status"})
        /\ q.page <= MaxInt \div q.size

SortKey(n, field) ==
    CASE field \in {"", "node", "address"} -> Ranked(<<n.text>>)
      [] field = "cluster" -> Ranked(<<n.group, n.text>>)
      [] field = "number" -> Optional(n.number)
      [] field = "status" -> Ranked(<<Rank[Summary(n).level]>>)

Matches(n, q) ==
    /\ q.group \in {None, n.group}
    /\ q.status \in {"", Summary(n).level}
    /\ q.search \in {None, n.text}

Nodes(rows, ids, query) ==
    LET q == Defaulted(query)
        list ==
            Listed(ids, {i \in DOMAIN rows : Matches(rows[i], q)},
                   [i \in DOMAIN rows |-> SortKey(rows[i], q.sort)], q.order)
    IN  Paged(list, PageStart(q, Len(list)), q.size)
=============================================================================
