------------------------------- MODULE RedisView -------------------------------
(***************************************************************************)
(* internal/service/redis_service.go: the status of a Redis instance and    *)
(* its source, the alerts of the overview and the list of instances.        *)
(*                                                                         *)
(* A row is a redis.Instance; its text is the address, its number the       *)
(* figure the list is sorted by.                                            *)
(***************************************************************************)
EXTENDS Levels, Listing

Addresses == INSTANCE MySQLView

Roles == {"master", "slave", "unknown"}

(* A cluster master with or without replicas, and a single one; the lag of the  *)
(* worst replica; the link to the master; whether there is a memory limit.      *)
Instance(usages, lags, groups, texts, ips, numbers, ages) ==
    [availability : {"up", "down", "unknown"}, role : Roles,
     replicas : {"missing", "none", "some"}, cluster : BOOLEAN, lag : lags, link : Flags,
     limited : BOOLEAN, memory : usages, rejects : BOOLEAN,
     age : ages, group : groups, text : texts, ip : ips, number : numbers]

Availability(i) ==
    Found([up |-> "normal", down |-> "critical", unknown |-> "unknown"][i.availability],
          "availability")

Precedence == [availability |-> 5, replication |-> 4, memory |-> 3, connection |-> 2,
               collection |-> 1, unknown |-> 0, normal |-> 0]

(* chooseRedisAssessment over several findings. *)
Chosen(S) == Worst(S, Precedence)

Replication(i) ==
    CASE i.role = "master" ->
             Chosen({Found(IF i.cluster /\ i.replicas = "none" THEN "critical" ELSE "normal",
                           "replication"),
                     Found(UsageLevel(i.lag, "normal"), "replication")})
      [] i.role = "slave" -> Found(FlagLevel(i.link), "replication")
      [] OTHER -> Found("unknown", "unknown")

Memory(i) == Found(IF i.limited THEN UsageLevel(i.memory, "unknown") ELSE "normal", "memory")

Connection(i) == Found(IF i.rejects THEN "warning" ELSE "normal", "connection")

Observes(i) == i.age /= NotTracked

Collection(i) == Found(Collected(i.age, "normal", "critical"), "collection")

Findings(i) == {Availability(i), Replication(i), Memory(i), Connection(i), Collection(i)}

Summary(i) == Chosen(Findings(i))

(* The levels of an instance in the alert categories. *)
Alerts(i) ==
    [availability |-> Chosen({Availability(i), Collection(i)}).level,
     memory |-> Memory(i).level, connection |-> Connection(i).level,
     replication |-> Replication(i).level]

(* An alert of unknown level counts with the warnings. *)
Counted(i) == CountedAs(Alerts(i), "warning")

(* The instances by status and by role, and the alerts. *)
Overview(rows) ==
    [counts |-> Tally([i \in DOMAIN rows |-> Summary(rows[i]).level], Levels),
     roles |-> Tally([i \in DOMAIN rows |-> rows[i].role], Roles),
     alerts |-> AlertTallies([i \in DOMAIN rows |-> Counted(rows[i])],
                            {"availability", "memory", "connection", "replication"})]

-----------------------------------------------------------------------------
Accepts(q) ==
    /\ WellFormed(q, Levels, Roles, {"instance", "role", "number", "replication_link", "status"})
    /\ ~Overflows(q)

RoleRank == [master |-> 0, slave |-> 1, unknown |-> 2]

(* Only a slave has a link to sort by, the unknown one last. *)
LinkRank(i) == [good |-> 1, bad |-> 2, missing |-> 3][i.link]

SortKey(i, field) ==
    CASE field = "number" -> Optional(i.number)
      [] field = "role" -> Ranked(<<RoleRank[i.role]>>)
      [] field = "replication_link" -> Optional(IF i.role = "slave" THEN LinkRank(i) ELSE None)
      [] field = "status" -> Ranked(<<ListRank[Summary(i).level]>>)

Matches(i, q) ==
    /\ q.role \in {"", i.role}
    /\ q.status \in {"", Summary(i).level}
    /\ q.search \in {None, i.text}

Instances(rows, ids, q) ==
    LET matching == {i \in DOMAIN rows : Matches(rows[i], q)}
        list ==
            IF q.sort \in {"", "instance"}
            THEN Sorted(Selected(ids, matching),
                        [p \in (DOMAIN rows) \X (DOMAIN rows) |->
                            Addresses!AddressBefore(rows, p[1], p[2], q.order)])
            ELSE Listed(ids, matching, [i \in DOMAIN rows |-> SortKey(rows[i], q.sort)], q.order)
    IN  Paged(list, PageStart(q, Len(list)), q.size)
=============================================================================
