-------------------------------- MODULE HostView --------------------------------
(***************************************************************************)
(* internal/service/hosts.go, overview.go and service.go: the status of a   *)
(* host, the alerts of the overview and the list of hosts.                  *)
(*                                                                         *)
(* A row is a datasource.Host with its current metrics: its text is the     *)
(* name or the IP address, its number the figure the list is sorted by.     *)
(***************************************************************************)
EXTENDS Levels, Listing

States == {"online", "offline", "unknown"}

Host(usages, texts, numbers, ages) ==
    [status : States, cpu : usages, memory : usages, io : usages, transmit : usages, receive : usages,
     age : ages, text : texts, number : numbers]

(* A sample without a time is not told to the tracker; every host is followed. *)
Observes(h) == h.age /= NotSeen

CollectionLevel(h) == Collected(h.age, "normal", "critical")

(* effectiveHostStatus: what is no longer collected is not online. *)
EffectiveStatus(h) ==
    CASE h.status = "offline" \/ CollectionLevel(h) = "critical" -> "offline"
      [] h.status /= "offline" /\ CollectionLevel(h) /= "critical"
         /\ (h.status = "unknown" \/ CollectionLevel(h) = "warning") -> "unknown"
      [] OTHER -> "online"

(* percentage and networkThroughput; a missing figure is below normal here. *)
MetricLevel(usage) == UsageLevel(usage, "normal")

(* The level a host counts with among the affected hosts of the overview. *)
Summary(h) ==
    [level |-> Highest({[online |-> "normal", offline |-> "critical", unknown |-> "warning"][EffectiveStatus(h)],
                        CollectionLevel(h), MetricLevel(h.cpu), MetricLevel(h.memory), MetricLevel(h.io),
                        MetricLevel(h.transmit), MetricLevel(h.receive)}),
     source |-> "none"]

(* The overview's alerts, and the offline and unknown hosts beside them. *)
Alerts(h) ==
    [cpu |-> MetricLevel(h.cpu), memory |-> MetricLevel(h.memory), io |-> MetricLevel(h.io),
     network |-> Highest({MetricLevel(h.transmit), MetricLevel(h.receive)}),
     host |-> [online |-> "normal", offline |-> "critical", unknown |-> "warning"][EffectiveStatus(h)]]

(* The hosts by their status, how many are affected at each level, and the alerts. *)
Overview(rows) ==
    [counts |-> Tally([i \in DOMAIN rows |-> EffectiveStatus(rows[i])], States),
     affected |-> Tally([i \in DOMAIN rows |-> Summary(rows[i]).level], {"warning", "critical"}),
     alerts |-> AlertTallies([i \in DOMAIN rows |-> Alerts(rows[i])],
                            {"cpu", "memory", "io", "network"})]

-----------------------------------------------------------------------------
Accepts(q) == WellFormed(q, States, {}, {"id", "name", "number", "uptime", "status"})

(* Lists sort by what a page shows: the collection level before the status. *)
StatusRank(h) ==
    IF CollectionLevel(h) \in {"warning", "critical"} THEN ListRank[CollectionLevel(h)]
    ELSE [online |-> 0, offline |-> 2, unknown |-> 3][EffectiveStatus(h)]

SortKey(id, h, field) ==
    CASE field \in {"", "name"} -> Optional(h.text)
      [] field = "id" -> Ranked(<<id>>)
      [] field = "number" -> Optional(h.number)
      [] field = "uptime" -> Ranked(<<h.number>>)
      [] field = "status" -> Ranked(<<StatusRank(h)>>)

(* Mutant: the status that is filtered for is the one that was reported. *)
MatchesReported(h, q) ==
    /\ q.search \in {None, h.text}
    /\ q.status \in {"", h.status}

Matches(h, q) ==
    /\ q.search \in {None, h.text}
    /\ q.status \in {"", EffectiveStatus(h)}

Hosts(rows, ids, q) ==
    LET list ==
            Listed(ids, {i \in DOMAIN rows : Matches(rows[i], q)},
                   [i \in DOMAIN rows |-> SortKey(i, rows[i], q.sort)], q.order)
    IN  Paged(list, ClampedStart(q, Len(list)), q.size)
=============================================================================
