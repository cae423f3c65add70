------------------------------- MODULE DiskView -------------------------------
(***************************************************************************)
(* internal/service/disk_service.go: the status of a disk, the alerts of    *)
(* the overview and the list of devices.                                    *)
(*                                                                         *)
(* A row is a disk.Device.  Its text stands for the text the list is sorted *)
(* by (host and device, or model), its number for the figure (capacity,     *)
(* temperature, lifetime, power-on hours, the sum of the error counters).   *)
(***************************************************************************)
EXTENDS Levels, Listing

Healths == {"healthy", "failed", "unknown"}

Device(groups, texts, numbers, ages) ==
    [smart : Healths, critical : {"missing", "zero", "set"},
     spare : {"missing", "above", "at_threshold"}, attribute : {"none", "past", "now"},
     age : ages, group : groups, text : texts, number : numbers]

SMARTLevel(d) == [healthy |-> "normal", failed |-> "critical", unknown |-> "unknown"][d.smart]

DeviceWarningLevel(d) ==
    IF d.critical = "set" \/ d.spare = "at_threshold" THEN "critical" ELSE "normal"

AttributeLevel(d) == [none |-> "normal", past |-> "warning", now |-> "critical"][d.attribute]

(* A device in a snapshot is told to the tracker when it is tracked at all. *)
Observes(d) == d.age /= NotTracked

CollectionLevel(d) == Collected(d.age, "normal", "critical")

Sources == <<"smart_health", "device_warning", "attribute_failure", "collection">>

(* The status is the highest level, its source the first finding of that level. *)
Summary(d) ==
    LET levels == <<SMARTLevel(d), DeviceWarningLevel(d), AttributeLevel(d), CollectionLevel(d)>>
        level == Highest(Range(levels))
        first == CHOOSE i \in 1 .. 4 : levels[i] = level /\ \A j \in 1 .. i - 1 : levels[j] /= level
    IN  Found(level, Sources[first])

(* The levels of a device in the alert categories. *)
Alerts(d) == [smart_health |-> SMARTLevel(d), device_warning |-> DeviceWarningLevel(d),
              attribute_failure |-> AttributeLevel(d), collection |-> CollectionLevel(d)]

(* A category counts warning and critical devices only. *)
Counted(d) == CountedAs(Alerts(d), "normal")

(* The devices by status, and the alerts. *)
Overview(rows) ==
    [counts |-> Tally([i \in DOMAIN rows |-> Summary(rows[i]).level], Levels),
     alerts |-> AlertTallies([i \in DOMAIN rows |-> Counted(rows[i])],
                            {"smart_health", "device_warning", "attribute_failure", "collection"})]

Accepts(q) ==
    /\ WellFormed(q, Levels, {}, {"host", "device", "model", "number", "smart", "status"})
    /\ ~Overflows(q)

HealthRank == [healthy |-> 0, failed |-> 2, unknown |-> 3]

SortKey(d, field) ==
    CASE field \in {"", "host"} -> Ranked(<<d.group, d.text>>)
      [] field = "device" -> Ranked(<<d.text>>)
      [] field = "model" -> Optional(d.text)
      [] field = "number" -> Optional(d.number)
      [] field = "smart" -> Ranked(<<HealthRank[d.smart]>>)
      [] field = "status" -> Ranked(<<ListRank[Summary(d).level]>>)

Matches(d, q) ==
    /\ q.status \in {"", Summary(d).level}
    /\ q.search \in {None, d.group}

(* The devices in the order of the list, and where a page of it begins. *)
Devices(rows, ids, q) ==
    LET list ==
            Listed(ids, {i \in DOMAIN rows : Matches(rows[i], q)},
                   [i \in DOMAIN rows |-> SortKey(rows[i], q.sort)], q.order)
    IN  Paged(list, PageStart(q, Len(list)), q.size)
=============================================================================
