------------------------------ MODULE ModuleViews ------------------------------
(***************************************************************************)
(* A service of internal/service with the snapshot it answers from, and a   *)
(* reader who goes through one of its lists page by page.                   *)
(*                                                                         *)
(* While the reader turns pages, time passes, so that samples grow old, and *)
(* the snapshot is loaded anew: in another order, as no provider promises   *)
(* one, with newer samples, or with other figures.                          *)
(***************************************************************************)
EXTENDS Levels, Listing

CONSTANTS
    Kinds,       \* the services considered
    Snapshots,   \* Snapshots[k]: records of rows, a function from ids, and clusters
    Variants,    \* Variants[k][n]: what a row among n may become
    Queries,     \* Queries[k][n]: what is asked of a list of n rows
    Orders,      \* Orders[n]: the orders in which a provider lists n rows
    MaxNews      \* bound: how often time passes or the snapshot is replaced

(* What a service may be asked for. *)
IsQuery(q) ==
    /\ q = [page |-> q.page, size |-> q.size, sort |-> q.sort, order |-> q.order,
            status |-> q.status, role |-> q.role, group |-> q.group, search |-> q.search]
    /\ q.page \in Int /\ q.size \in Int

ASSUME ViewsAssumption ==
    /\ Kinds \subseteq {"disk", "mysql", "redis", "elasticsearch", "rabbitmq", "java", "host"}
    /\ DOMAIN Snapshots = Kinds
    /\ DOMAIN Variants = Kinds
    /\ DOMAIN Queries = Kinds
    /\ MaxNews \in Nat

VARIABLES
    kind,        \* the kind of the service
    rows,        \* the rows of the snapshot, by id
    clusters,    \* the clusters of an Elasticsearch or RabbitMQ snapshot, by name
    order,       \* the ids in the order of the snapshot
    reader,      \* the query, and what the reader has seen of its list
    news         \* how often something has changed

vars == <<kind, rows, clusters, order, reader, news>>

Disk == INSTANCE DiskView
MySQL == INSTANCE MySQLView
Redis == INSTANCE RedisView
Elasticsearch == INSTANCE ElasticsearchView
RabbitMQ == INSTANCE RabbitMQView
Java == INSTANCE JavaView
Hosts == INSTANCE HostView

(* What a snapshot may hold: rows of every kind, and clusters. *)
Row(k) ==
    CASE k = "disk" -> Disk!Device(Nat, Nat, Nat, Int)
      [] k = "mysql" -> MySQL!Instance(SUBSET MySQL!Channels, MySQL!Roles, Nat, Nat, Nat, Nat, Int)
      [] k = "redis" -> Redis!Instance(Usages, Usages, Nat, Nat, Nat, Nat, Int)
      [] k = "elasticsearch" -> Elasticsearch!Node(Usages, {"data", "master"}, Nat, Nat, Nat, Int)
      [] k = "rabbitmq" -> RabbitMQ!Node(SUBSET Flags, Usages, Nat, Nat, Nat, Int)
      [] k = "java" -> Java!Service(Nat, Nat, Nat, Int)
      [] k = "host" -> Hosts!Host(Usages, Nat, Nat, Int)

Cluster(k) ==
    CASE k = "elasticsearch" -> Elasticsearch!Cluster(Int, Int)
      [] k = "rabbitmq" -> DOMAIN RabbitMQ!Connectivity
      [] OTHER -> {}

ASSUME SnapshotsAssumption ==
    \A k \in Kinds :
        /\ \A s \in Snapshots[k] : /\ \A i \in DOMAIN s.rows : s.rows[i] \in Row(k)
                                   /\ \A c \in DOMAIN s.clusters : s.clusters[c] \in Cluster(k)
                                   /\ IsFiniteSet(DOMAIN s.clusters)
        /\ \A s \in Snapshots[k] : Variants[k][Cardinality(DOMAIN s.rows)] \subseteq Row(k)

(* Ids are numbered in their order; a list and a page together are counted by an int. *)
ASSUME ListsAssumption ==
    \A k \in Kinds : \A s \in Snapshots[k] : \E n \in 0 .. MaxInt :
        /\ DOMAIN s.rows = 1 .. n
        /\ \A size \in PageSizes : n + size <= MaxInt
        /\ Orders[n] \subseteq {o \in [1 .. n -> 1 .. n] : IsInjective(o)}
        /\ \A q \in Queries[k][n] : IsQuery(q)

-----------------------------------------------------------------------------
(* The service in question. *)
Summary(row) ==
    CASE kind = "disk" -> Disk!Summary(row)
      [] kind = "mysql" -> MySQL!Summary(row)
      [] kind = "redis" -> Redis!Summary(row)
      [] kind = "elasticsearch" -> Elasticsearch!Summary(row)
      [] kind = "rabbitmq" -> RabbitMQ!Summary(row)
      [] kind = "java" -> Java!Summary(row)
      [] kind = "host" -> Hosts!Summary(row)

Observes(row) ==
    CASE kind = "disk" -> Disk!Observes(row)
      [] kind = "mysql" -> MySQL!Observes(row)
      [] kind = "redis" -> Redis!Observes(row)
      [] kind = "elasticsearch" -> Elasticsearch!Observes(row)
      [] kind = "rabbitmq" -> RabbitMQ!Observes(row)
      [] kind = "java" -> Java!Observes(row)
      [] kind = "host" -> Hosts!Observes(row)

(* The levels a row counts at in the alert categories of the overview; a host  *)
(* that is offline or unknown is counted as that beside the categories.        *)
CountedLevels(row) ==
    CASE kind = "disk" -> Range(Disk!Counted(row))
      [] kind = "mysql" -> Range(MySQL!Counted(row))
      [] kind = "redis" -> Range(Redis!Counted(row))
      [] kind = "elasticsearch" -> Range(Elasticsearch!Counted(row))
      [] kind = "rabbitmq" -> Range(RabbitMQ!Alerts(row))
      [] kind = "java" -> Range(Java!Alerts(row))
      [] kind = "host" -> Range(Hosts!Alerts(row))

(* The level a row is affected at: the overviews count what is unknown with the *)
(* warnings (for Elasticsearch only the alerts do), those of RabbitMQ and Java  *)
(* by itself; a host is never affected at that level.                           *)
AffectedLevel(row) ==
    IF Summary(row).level = "unknown" /\ kind \in {"disk", "mysql", "redis", "elasticsearch"}
    THEN "warning" ELSE Summary(row).level

(* What the code leaves without an alert: a disk whose status is unknown, and a *)
(* node whose status is that of its collection.                                 *)
Unalerted(row) ==
    \/ kind = "disk" /\ Summary(row).level = "unknown"
    \/ kind = "elasticsearch" /\ Summary(row).source = "collection"

Overview ==
    CASE kind = "disk" -> Disk!Overview(rows)
      [] kind = "mysql" -> MySQL!Overview(rows)
      [] kind = "redis" -> Redis!Overview(rows)
      [] kind = "elasticsearch" -> Elasticsearch!Overview(clusters, rows)
      [] kind = "rabbitmq" -> RabbitMQ!Overview(clusters, rows)
      [] kind = "java" -> Java!Overview(rows)
      [] kind = "host" -> Hosts!Overview(rows)

Accepts(q) ==
    CASE kind = "disk" -> Disk!Accepts(q)
      [] kind = "mysql" -> MySQL!Accepts(q)
      [] kind = "redis" -> Redis!Accepts(q)
      [] kind = "elasticsearch" -> Elasticsearch!Accepts(q)
      [] kind = "rabbitmq" -> RabbitMQ!Accepts(q)
      [] kind = "java" -> Java!Accepts(q)
      [] kind = "host" -> Hosts!Accepts(q)

(* A page of the list, as a handler answers a query that is accepted. *)
Page(q) ==
    CASE kind = "disk" -> Disk!Devices(rows, order, q)
      [] kind = "mysql" -> MySQL!Instances(rows, order, q)
      [] kind = "redis" -> Redis!Instances(rows, order, q)
      [] kind = "elasticsearch" -> Elasticsearch!Nodes(rows, order, clusters, q)
      [] kind = "rabbitmq" -> RabbitMQ!Nodes(rows, order, q)
      [] kind = "java" -> Java!Services(rows, order, q)
      [] kind = "host" -> Hosts!Hosts(rows, order, q)

-----------------------------------------------------------------------------
Idle == [state |-> "idle"]

Init ==
    /\ kind \in Kinds
    /\ \E s \in Snapshots[kind] : rows = s.rows /\ clusters = s.clusters
    /\ order = SetToSeq(DOMAIN rows)
    /\ reader = Idle
    /\ news = 0

(* Whether other rows leave the reader's list as it is: samples that are only  *)
(* older or newer do, unless it is sorted by or filtered for the status.       *)
Undisturbed(others) ==
    /\ \A i \in DOMAIN rows : [others[i] EXCEPT !.age = rows[i].age] = rows[i]
    /\ others = rows \/ (reader.query.sort /= "status" /\ reader.query.status = "")

(* The rows become others; whether the reader's list stays the same is noted.  *)
(* Nothing that happens after the last page changes what the reader has seen.  *)
Become(others) ==
    /\ news < MaxNews
    /\ reader.state \in {"idle", "reading"}
    /\ news' = news + 1
    /\ rows' = others
    /\ reader' = IF reader.state = "reading"
                 THEN [reader EXCEPT !.steady = @ /\ Undisturbed(others)] ELSE reader
    /\ UNCHANGED <<kind, clusters>>

(* Time passes; some samples reach the next age. *)
Pass ==
    \E S \in SUBSET {i \in DOMAIN rows : rows[i].age \in 0 .. 4} \ {{}} :
        /\ Become([i \in DOMAIN rows |->
                      IF i \in S THEN [rows[i] EXCEPT !.age = IF @ = 0 THEN 2 ELSE 5] ELSE rows[i]])
        /\ UNCHANGED order

(* The snapshot is loaded anew: newer samples of what is followed, in any order. *)
Reload ==
    \E S \in SUBSET {i \in DOMAIN rows : Observes(rows[i])} :
        /\ Become([i \in DOMAIN rows |-> IF i \in S THEN [rows[i] EXCEPT !.age = 0] ELSE rows[i]])
        /\ order' \in Orders[Len(order)]

(* A load brings other figures of something. *)
Change ==
    \E i \in DOMAIN rows, row \in Variants[kind][Cardinality(DOMAIN rows)] :
        /\ Become([rows EXCEPT ![i] = row])
        /\ UNCHANGED order

(* What the reader knows after page n of a query. *)
Read(q, n, seen, steady) ==
    LET asked == [q EXCEPT !.page = n]
        page == Page(asked)
        number == Defaulted(asked).page
    IN  [state |-> IF page.ids = Panic THEN "failed"
                   ELSE IF number < page.pages THEN "reading" ELSE "done",
         query |-> q, page |-> number, seen |-> seen \o page.ids, total |-> page.total,
         steady |-> steady]

(* The reader asks for a list: its first page, or any other page at once.  Any  *)
(* snapshot may be the first, so there is no need for anything to happen before.*)
Ask ==
    /\ reader.state = "idle"
    /\ news = 0
    /\ \E q \in Queries[kind][Len(order)] :
          reader' = IF ~Accepts(q) THEN [state |-> "refused", query |-> q]
                    ELSE Read(q, q.page, <<>>, q.page \in {0, 1})
    /\ UNCHANGED <<kind, rows, clusters, order, news>>

(* The next page, while the last one said that there is more. *)
Turn ==
    /\ reader.state = "reading"
    /\ reader' = Read(reader.query, reader.page + 1, reader.seen, reader.steady)
    /\ UNCHANGED <<kind, rows, clusters, order, news>>

Next == Pass \/ Reload \/ Change \/ Ask \/ Turn

Spec == Init /\ [][Next]_vars

-----------------------------------------------------------------------------
(* Status and alerts tell the same story (Overview, summarize...), although the *)
(* two are worked out by different code: nothing counts in an alert category of *)
(* the overview at a higher level than it is affected at, and what is affected  *)
(* counts in some category at that very level.  There are two exceptions: a     *)
(* disk whose status is unknown and an Elasticsearch node whose status comes    *)
(* from its collection may count in no category.                                *)
AlertsExplainStatus ==
    \A i \in DOMAIN rows :
        LET affected == AffectedLevel(rows[i])
        IN  /\ \A level \in CountedLevels(rows[i]) : Rank[level] <= Rank[affected]
            /\ affected \in CountedLevels(rows[i]) \cup {"normal"} \/ Unalerted(rows[i])

(* Overview and list tell the same numbers (Overview and Devices, Instances...): *)
(* as many things as the overview counts at a status are in the list that is    *)
(* filtered for it, although the two work it out by themselves; the affected     *)
(* hosts are those that are offline or unknown, at least.                       *)
OverviewCountsLists ==
    reader.state = "idle" =>    \* the rows do not depend on the reader
        /\ \A s \in DOMAIN Overview.counts :
              Overview.counts[s] =
                  Page([page |-> 1, size |-> MaxInt, sort |-> "", order |-> "", status |-> s,
                        role |-> "", group |-> None, search |-> None]).total
        /\ kind = "host" =>
              /\ Overview.affected.critical >= Overview.counts.offline
              /\ Overview.affected.warning + Overview.affected.critical
                 >= Overview.counts.offline + Overview.counts.unknown

(* The pages of a list (Devices, Instances, Nodes, Services, Hosts): a reader  *)
(* who turns pages sees every row that matches once and no other, although in  *)
(* the meantime time passes and snapshots list the same things in other orders.*)
PagesPartition ==
    reader.state = "done" /\ reader.steady =>
        LET all == Page([reader.query EXCEPT !.page = 1, !.size = MaxInt])
        IN  /\ reader.seen = all.ids
            /\ IsInjective(reader.seen)
            /\ Len(reader.seen) = reader.total

(* The slices of a page: whatever page is asked for, no slice is out of bounds. *)
NoSlicePanic == reader.state /= "failed"

(* Sorting: what has no figure comes last, in ascending and descending lists. *)
MissingLast ==
    reader.state = "done" /\ reader.steady /\ reader.query.sort = "number" =>
        \A i, j \in DOMAIN reader.seen :
            i < j /\ rows[reader.seen[i]].number = None => rows[reader.seen[j]].number = None

(* The unassigned shards of an Elasticsearch overview: the sum, or the largest *)
(* int if the sum is larger.                                                   *)
UnassignedExact ==
    kind = "elasticsearch" =>
        \A health \in {"yellow", "red"} :
            LET counted == {c \in DOMAIN clusters :
                              clusters[c].health = health /\ clusters[c].unassigned >= 0}
                sum == FoldSet(LAMBDA c, n : n + clusters[c].unassigned, 0, counted)
            IN  Overview.unassigned[health] = Lesser(MaxInt, sum)

(* Time never heals: without a newer sample or other figures of it, no thing's *)
(* status falls, nor the level of the module as a whole.                       *)
OnlyNewsImproves ==
    [][LET older(i) == /\ rows'[i].age \in {rows[i].age} \cup (IF rows[i].age >= 0 THEN rows[i].age .. 5 ELSE {})
                       /\ [rows'[i] EXCEPT !.age = rows[i].age] = rows[i]
       IN  /\ \A i \in DOMAIN rows :
                 older(i) => Rank[Summary(rows[i])'.level] >= Rank[Summary(rows[i]).level]
           /\ (\A i \in DOMAIN rows : older(i)) /\ "status" \in DOMAIN Overview =>
               Rank[Overview'.status] >= Rank[Overview.status]]_vars

(* Addresses are listed by IP address and port (compareAddresses).  Expected to *)
(* fail: an address that is no IP address is compared as a text, and between    *)
(* two others it may separate them in the wrong order.                          *)
AddressesInOrder ==
    reader.state = "done" /\ reader.steady /\ reader.query.sort = "instance"
            /\ reader.query.order = "asc" =>
        \A i, j \in DOMAIN reader.seen :
            LET left == rows[reader.seen[i]].ip
                right == rows[reader.seen[j]].ip
            IN  i < j /\ None \notin {left, right} => left <= right
=============================================================================
