------------------------------- MODULE MySQLView -------------------------------
(***************************************************************************)
(* internal/service/mysql_service.go: the status of a MySQL instance, the   *)
(* alerts of the overview and the list of instances.                        *)
(*                                                                         *)
(* A row is a mysql.Instance: its group is the label, its text the address  *)
(* or the version, its number the figure the list is sorted by.  The same   *)
(* address has a rank as a text and, when it is an IP address with a port,  *)
(* a rank among those.                                                      *)
(***************************************************************************)
EXTENDS Levels, Listing

Availability == [up |-> "normal", down |-> "critical", unknown |-> "unknown"]

Roles == {"writable", "read_only", "unknown"}

(* Lag: no valid figure, below 5 s, below 30 s, 30 s and more. *)
Channels == [io : Flags, sql : Flags, lag : Usages]

Instance(channels, roles, groups, texts, ips, numbers, ages) ==
    [availability : DOMAIN Availability, role : roles, channels : channels,
     age : ages, group : groups, text : texts, ip : ips, number : numbers]

-----------------------------------------------------------------------------
Stopped(c) == "bad" \in {c.io, c.sql}
Incomplete(c) == "missing" \in {c.io, c.sql, c.lag}

(* Without channels only a writable instance is known not to need any. *)
BareLevel(i) == IF i.role = "writable" THEN "normal" ELSE "unknown"

ThreadsLevel(i) ==
    IF i.channels = {} THEN BareLevel(i)
    ELSE Highest({FlagLevel(c.io) : c \in i.channels} \cup {FlagLevel(c.sql) : c \in i.channels})

(* The level of the longest valid lag; there is an alert only if there is one. *)
Lags(i) == {c.lag : c \in i.channels} \ {"missing"}
LagLevel(i) == Highest({UsageLevel(lag, "unknown") : lag \in Lags(i)})

DataLevel(i) ==
    IF i.channels = {} THEN BareLevel(i)
    ELSE IF \E c \in i.channels : Incomplete(c) THEN "unknown" ELSE "normal"

(* Mutant: the lag of an incomplete channel set is dropped. *)
ReplicationOfKnown(i) ==
    CASE i.channels = {} ->
             [state |-> IF i.role = "writable" THEN "not_configured" ELSE "unknown", level |-> BareLevel(i)]
      [] \E c \in i.channels : Stopped(c) -> [state |-> "threads_stopped", level |-> "critical"]
      [] OTHER -> IF \E c \in i.channels : Incomplete(c)
                  THEN [state |-> "unknown", level |-> "unknown"]
                  ELSE [state |-> "normal", level |-> LagLevel(i)]

(* replicationSummary *)
Replication(i) ==
    CASE i.channels = {} ->
             [state |-> IF i.role = "writable" THEN "not_configured" ELSE "unknown", level |-> BareLevel(i)]
      [] \E c \in i.channels : Stopped(c) -> [state |-> "threads_stopped", level |-> "critical"]
      [] OTHER -> IF \E c \in i.channels : Incomplete(c)
                  THEN [state |-> "unknown", level |-> Highest({"unknown", LagLevel(i)})]
                  ELSE [state |-> "normal", level |-> LagLevel(i)]

Observes(i) == i.age /= NotTracked

CollectionLevel(i) == Collected(i.age, "normal", "critical")

AvailabilityLevel(i) == Availability[i.availability]

(* The status; an instance does not say where it comes from. *)
Summary(i) ==
    [level |-> Highest({AvailabilityLevel(i), Replication(i).level, CollectionLevel(i)}),
     source |-> "none"]

(* The levels of an instance in the alert categories. *)
Alerts(i) ==
    [availability |-> Highest({AvailabilityLevel(i), CollectionLevel(i)}),
     replication_threads |-> ThreadsLevel(i),
     replication_lag |-> LagLevel(i),
     replication_data |-> DataLevel(i)]

(* An alert of unknown level counts with the warnings. *)
Counted(i) == CountedAs(Alerts(i), "warning")

(* The instances by status, and the alerts. *)
Overview(rows) ==
    [counts |-> Tally([i \in DOMAIN rows |-> Summary(rows[i]).level], Levels),
     alerts |-> AlertTallies([i \in DOMAIN rows |-> Counted(rows[i])],
                            {"availability", "replication_threads", "replication_lag", "replication_data"})]

-----------------------------------------------------------------------------
Accepts(q) ==
    WellFormed(q, Levels, Roles,
               {"instance", "version", "role", "number", "replication_state", "status"})

RoleRank == [writable |-> 0, read_only |-> 1, unknown |-> 2]

StateRank == [normal |-> 0, not_configured |-> 1, threads_stopped |-> 2, unknown |-> 3]

SortKey(i, field) ==
    CASE field = "number" -> Optional(i.number)
      [] field = "version" -> Optional(i.text)
      [] field = "role" -> Ranked(<<RoleRank[i.role]>>)
      [] field = "replication_state" ->
             Ranked(<<ListRank[Replication(i).level], StateRank[Replication(i).state]>>)
      [] field = "status" -> Ranked(<<ListRank[Summary(i).level]>>)

Matches(i, q) ==
    /\ q.group \in {None, i.group}
    /\ q.status \in {"", Summary(i).level}
    /\ q.role \in {"", i.role}
    /\ q.search \in {None, i.text}

(* compareAddresses: two IP addresses as such, any other two as texts. *)
CompareAddresses(a, b) ==
    IF None \notin {a.ip, b.ip} THEN a.ip - b.ip ELSE a.text - b.text

AddressBefore(rows, i, j, order) ==
    LET c == CompareAddresses(rows[i], rows[j])
    IN  IF c = 0 THEN i < j ELSE IF order = "desc" THEN c > 0 ELSE c < 0

Instances(rows, ids, q) ==
    LET matching == {i \in DOMAIN rows : Matches(rows[i], q)}
        list ==
            IF q.sort \in {"", "instance"}
            THEN Sorted(Selected(ids, matching),
                        [p \in (DOMAIN rows) \X (DOMAIN rows) |-> AddressBefore(rows, p[1], p[2], q.order)])
            ELSE Listed(ids, matching, [i \in DOMAIN rows |-> SortKey(rows[i], q.sort)], q.order)
    IN  Paged(list, ClampedStart(q, Len(list)), q.size)
=============================================================================
