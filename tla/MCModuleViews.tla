----------------------------- MODULE MCModuleViews -----------------------------
(***************************************************************************)
(* Instances of ModuleViews: single rows with every combination of what a   *)
(* status depends on, and lists of three rows, a page and a half.           *)
(***************************************************************************)
EXTENDS ModuleViews

MCOrders == <<{<<1>>}, {}, {<<3, 2, 1>>, <<2, 3, 1>>}>>

AllAges == {NotTracked, NotSeen, 0, 2, 5}
SomeUsages == {"missing", "high", "full"}

(* At most one thread of a channel is not running, and two channels at most. *)
MCChannels == {c \in MySQL!Channels : "good" \in {c.io, c.sql}}
MCChannelSets == {{}} \cup {{c, d} : c, d \in MCChannels}

(* What only a master or only a slave has, and usages of limits there are. *)
MCRedis ==
    {i \in Redis!Instance(SomeUsages, {"missing", "full"}, {1}, {1}, {1}, {1}, AllAges) :
        /\ i.role /= "master" => i.replicas = "missing" /\ ~i.cluster /\ i.lag = "missing"
        /\ i.role /= "slave" => i.link = "missing"
        /\ ~i.limited => i.memory = "missing"}

Fine == [availability |-> "up", stats |-> "up", health |-> "green", unassigned |-> 0, age |-> 0]

Single(k) ==
    CASE k = "disk" -> Disk!Device({1}, {1}, {1}, AllAges)
      [] k = "mysql" -> MySQL!Instance(MCChannelSets, MySQL!Roles, {1}, {1}, {1}, {1}, AllAges)
      [] k = "redis" -> MCRedis
      [] k = "elasticsearch" -> Elasticsearch!Node(Usages, {"data"}, {1}, {1}, {1}, AllAges)
      [] k = "rabbitmq" -> RabbitMQ!Node(SUBSET Flags \ {{}}, SomeUsages, {1}, {1}, {1}, AllAges)
      [] k = "java" -> Java!Service({1}, {1}, {1}, AllAges)
      [] k = "host" -> Hosts!Host(SomeUsages, {1}, {1}, AllAges \ {NotTracked})

Shards == {-1, 0, 3, MaxInt}

MCClusters(k) ==
    CASE k = "elasticsearch" ->
             [{1} -> Elasticsearch!Cluster(Shards, AllAges)]
             \cup [{1, 2} -> {[Fine EXCEPT !.health = h, !.unassigned = n] : h \in {"yellow", "red"}, n \in Shards}]
      [] k = "rabbitmq" -> [{1, 2} -> DOMAIN RabbitMQ!Connectivity]
      [] OTHER -> {<<>>}

(* A row that is fine, and one that is critical whatever its age. *)
Good(k) ==
    CASE k = "disk" -> [smart |-> "healthy", critical |-> "zero", spare |-> "above", attribute |-> "none"]
      [] k = "mysql" -> [availability |-> "up", role |-> "writable", channels |-> {}, ip |-> 0]
      [] k = "redis" -> [availability |-> "up", role |-> "slave", replicas |-> "missing", cluster |-> TRUE,
                         lag |-> "missing", link |-> "good", limited |-> TRUE, memory |-> "low",
                         rejects |-> FALSE, ip |-> 0]
      [] k = "elasticsearch" -> [data |-> TRUE, disk |-> "low", heap |-> "low", rejects |-> FALSE, role |-> "data"]
      [] k = "rabbitmq" -> [alarms |-> {"good"}, disk |-> "low", memory |-> "low",
                            descriptors |-> "low", processes |-> "low"]
      [] k = "java" -> [health |-> "good", port |-> "good", process |-> "good", consistent |-> "good"]
      [] k = "host" -> [status |-> "online", cpu |-> "low", memory |-> "low", io |-> "low",
                        transmit |-> "low", receive |-> "low"]

Bad(k) ==
    CASE k = "disk" -> [Good(k) EXCEPT !.smart = "failed"]
      [] k = "mysql" -> [Good(k) EXCEPT !.availability = "down", !.role = "read_only"]
      [] k = "redis" -> [Good(k) EXCEPT !.availability = "down", !.role = "unknown"]
      [] k = "elasticsearch" -> [Good(k) EXCEPT !.heap = "full", !.role = "master"]
      [] k = "rabbitmq" -> [Good(k) EXCEPT !.alarms = {"bad"}]
      [] k = "java" -> [Good(k) EXCEPT !.health = "bad", !.port = "missing"]
      [] k = "host" -> [Good(k) EXCEPT !.status = "offline"]

(* Rows of a list, by group, text and number; the last is without either. *)
Listable(k) ==
    LET grouped(n) == IF k = "host" THEN <<>> ELSE [group |-> n]
    IN  {[text |-> 1, number |-> 1, age |-> 0] @@ grouped(1) @@ Good(k),
         [text |-> 1, number |-> 2, age |-> 0] @@ grouped(2) @@ Bad(k),
         [text |-> 0, number |-> 0, age |-> 2] @@ grouped(1) @@ Good(k)}

MCVariants == [k \in Kinds |-> <<{}, {}, Listable(k)>>]

MCSnapshots ==
    [k \in Kinds |->
        {[rows |-> <<row>>, clusters |-> CHOOSE c \in MCClusters(k) : TRUE] : row \in Single(k)}
        \cup {[rows |-> <<row>>, clusters |-> c] :
                row \in {r \in Listable(k) : r.number = 1}, c \in MCClusters(k)}
        \cup {[rows |-> r, clusters |-> CHOOSE c \in MCClusters(k) : TRUE] : r \in [1 .. 3 -> Listable(k)]}]

-----------------------------------------------------------------------------
Base == [page |-> 1, size |-> 2, sort |-> "", order |-> "", status |-> "", role |-> "",
         group |-> None, search |-> None]

Sorts(k) ==
    CASE k = "disk" -> {"host", "device", "model", "number", "smart", "status"}
      [] k = "mysql" -> {"version", "role", "number", "replication_state", "status"}
      [] k = "redis" -> {"role", "number", "replication_link", "status"}
      [] k = "elasticsearch" -> {"node", "address", "role", "cluster_health", "number", "status"}
      [] k = "rabbitmq" -> {"node", "cluster", "number", "status"}
      [] k = "java" -> {"business", "health", "port", "number", "status"}
      [] k = "host" -> {"id", "name", "number", "uptime", "status"}

(* All orders of a list; filters; pages that are left out or far on; refusals. *)
ListQueries(k) ==
    {[Base EXCEPT !.sort = s, !.order = o] : s \in Sorts(k), o \in {"asc", "desc"}}
    \cup {[Base EXCEPT !.status = s] : s \in {"critical", "offline"}}
    \cup {[Base EXCEPT !.group = 1], [Base EXCEPT !.search = 1], [Base EXCEPT !.role = "master"]}
    \cup {[Base EXCEPT !.page = p] : p \in {-1, 0, 2, 4, 5, MaxInt}}
    \cup {[Base EXCEPT !.size = 0], [Base EXCEPT !.size = 3], [Base EXCEPT !.sort = "none"],
          [Base EXCEPT !.order = "none"]}

MCQueries == [k \in Kinds |-> <<{}, {}, ListQueries(k)>>]
=============================================================================
