-------------------------------- MODULE JavaView --------------------------------
(***************************************************************************)
(* internal/service/java_service.go: the status of a Java service and its   *)
(* source, the alerts of the overview and the list of services.             *)
(*                                                                         *)
(* A row is a javaapp.Service: its group is its name, its text the business *)
(* it is shown as or the address, its number the figure the list is sorted  *)
(* by.  One of them is the uptime, which the code works out from the        *)
(* present and which is a fixed figure here, as the start is.               *)
(***************************************************************************)
EXTENDS Levels, Listing

Service(groups, texts, numbers, ages) ==
    [health : Flags, port : Flags, process : Flags, consistent : Flags,
     age : ages, group : groups, text : texts, number : numbers]

Observes(s) == s.age /= NotTracked

CollectionLevel(s) == Collected(s.age, "unknown", "unknown")

(* What is missing has a source of its own, before all others. *)
Binary(flag, source) == Found(FlagLevel(flag), IF flag = "missing" THEN "unknown" ELSE source)

Precedence == [unknown |-> 6, health |-> 5, port |-> 4, process |-> 3, consistency |-> 2,
               collection |-> 1, normal |-> 0]

Summary(s) ==
    Worst({Binary(s.health, "health"), Binary(s.port, "port"), Binary(s.process, "process"),
           Binary(s.consistent, "consistency"), Found(CollectionLevel(s), "collection")}, Precedence)

Alerts(s) ==
    [health |-> FlagLevel(s.health), port |-> FlagLevel(s.port),
     process |-> Highest({FlagLevel(s.process), FlagLevel(s.consistent)}),
     collection |-> CollectionLevel(s)]

(* The services by status, the highest status, and the alerts. *)
Overview(rows) ==
    [status |-> Highest({Summary(rows[i]).level : i \in DOMAIN rows}),
     counts |-> Tally([i \in DOMAIN rows |-> Summary(rows[i]).level], Levels),
     alerts |-> AlertTallies([i \in DOMAIN rows |-> Alerts(rows[i])],
                            {"health", "port", "process", "collection"})]

-----------------------------------------------------------------------------
Accepts(query) ==
    LET q == Defaulted(query)
    IN  /\ WellFormed(q, Levels, {}, {"business", "address", "health", "port", "process",
                                      "consistency", "number", "status"})
        /\ ~Overflows(q)

(* What is down comes first, what is missing last. *)
FlagKey(flag) == Optional([bad |-> 1, good |-> 2, missing |-> None][flag])

SortKey(s, field) ==
    CASE field \in {"", "business", "address"} -> Optional(s.text)
      [] field = "health" -> FlagKey(s.health)
      [] field = "port" -> FlagKey(s.port)
      [] field = "process" -> FlagKey(s.process)
      [] field = "consistency" -> FlagKey(s.consistent)
      [] field = "number" -> Optional(s.number)
      [] field = "status" -> Ranked(<<Rank[Summary(s).level]>>)

Matches(s, q) ==
    /\ q.group \in {None, s.group}
    /\ q.status \in {"", Summary(s).level}
    /\ q.search \in {None, s.text}

Services(rows, ids, query) ==
    LET q == Defaulted(query)
        list ==
            Listed(ids, {i \in DOMAIN rows : Matches(rows[i], q)},
                   [i \in DOMAIN rows |-> SortKey(rows[i], q.sort)], q.order)
    IN  Paged(list, PageStart(q, Len(list)), q.size)
=============================================================================
