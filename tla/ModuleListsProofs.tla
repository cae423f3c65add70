--------------------------- MODULE ModuleListsProofs ---------------------------
(***************************************************************************)
(* Theorems about the overviews and lists of the services.                  *)
(*                                                                         *)
(* The lists of all services are put into one form (PageIs): the rows that  *)
(* match (MatchingOf), in one order (BeforeOf), of which a page is a slice. *)
(* A snapshot lists each of its rows once (Countable), a reader who turns   *)
(* pages was told that there are more (Turning) and has seen the list up to *)
(* the present page (Seen), as what does not disturb a list leaves every    *)
(* row where it was (ListStays).                                            *)
(***************************************************************************)
EXTENDS ModuleViewsProofs, ListingProofs

-----------------------------------------------------------------------------
(* Unassigned shards *)

(* There are finitely many clusters. *)
Finite == IsFiniteSet(DOMAIN clusters)

(* The sum of all unassigned shards, and the one that stops at the largest int. *)
SumOf(of, S) == FoldSet(LAMBDA c, n : n + of[c].unassigned, 0, S)

StoppedSum(of, S) ==
    Elasticsearch!MapThenFoldSet(LAMBDA value, sum : Elasticsearch!Added(sum, value), 0,
                                 LAMBDA c : of[c].unassigned, LAMBDA s : CHOOSE c \in s : TRUE, S)

(* A sum that stops at the largest int is the sum, or the largest int. *)
LEMMA SumsStop ==
    ASSUME NEW S, IsFiniteSet(S), NEW of, \A c \in S : of[c].unassigned \in Nat
    PROVE  StoppedSum(of, S) = Lesser(MaxInt, SumOf(of, S))
<1> DEFINE Chosen(s) == CHOOSE c \in s : TRUE
           pick == [s \in SUBSET S |-> Chosen(s)]
           Stopped(h) == h = [s \in SUBSET S |->
                                IF s = {} THEN 0
                                ELSE Elasticsearch!Added(h[s \ {Chosen(s)}], of[Chosen(s)].unassigned)]
           Summed(h) == h = [s \in SUBSET S |->
                               IF s = {} THEN 0
                               ELSE h[s \ {Chosen(s)}] + of[Chosen(s)].unassigned]
           stopping == [p \in S \X Nat |-> Elasticsearch!Added(p[2], of[p[1]].unassigned)]
           summing == [p \in S \X Nat |-> p[2] + of[p[1]].unassigned]
<1>1. MaxInt \in Nat
    BY ListingAssumption
<1>2. \A s \in SUBSET S : s /= {} => Chosen(s) \in s
    OBVIOUS
<1> HIDE DEF Chosen
<1>3. \E h : Stopped(h)
  <2>0. \A s \in SUBSET S : s /= {} => pick[s] \in s
      BY <1>2
  <2>1. stopping \in [S \X Nat -> Nat]
      BY <1>1 DEF Elasticsearch!Added
  <2>2. PICK g \in [SUBSET S -> Nat] : Folding(g, S, pick, 0, stopping)
    <3> HIDE DEF pick, stopping
    <3> QED
        BY <1>2, <2>1, <2>0, FoldingExists
  <2>3. ASSUME NEW s \in SUBSET S, s /= {}
        PROVE  stopping[<<pick[s], g[s \ {pick[s]}]>>] =
                   Elasticsearch!Added(g[s \ {Chosen(s)}], of[Chosen(s)].unassigned)
      BY <1>2, <2>3
  <2>4. Stopped(g)
    <3> HIDE DEF pick, stopping
    <3> QED
        BY <2>2, <2>3 DEF Folding
  <2> QED
      BY <2>4
<1>4. \E h : Summed(h)
  <2>0. \A s \in SUBSET S : s /= {} => pick[s] \in s
      BY <1>2
  <2>1. summing \in [S \X Nat -> Nat]
      OBVIOUS
  <2>2. PICK g \in [SUBSET S -> Nat] : Folding(g, S, pick, 0, summing)
    <3> HIDE DEF pick, summing
    <3> QED
        BY <1>2, <2>1, <2>0, FoldingExists
  <2>3. ASSUME NEW s \in SUBSET S, s /= {}
        PROVE  summing[<<pick[s], g[s \ {pick[s]}]>>] =
                   g[s \ {Chosen(s)}] + of[Chosen(s)].unassigned
      BY <1>2, <2>3
  <2>4. Summed(g)
    <3> HIDE DEF pick, summing
    <3> QED
        BY <2>2, <2>3 DEF Folding
  <2> QED
      BY <2>4
<1>5. StoppedSum(of, S) = (CHOOSE h : Stopped(h))[S]
    BY DEF StoppedSum, Elasticsearch!MapThenFoldSet, Chosen
<1>6. SumOf(of, S) = (CHOOSE h : Summed(h))[S]
    BY DEF SumOf, FoldSet, MapThenFoldSet, Chosen
<1>7. PICK f : f = CHOOSE h : Stopped(h)
    OBVIOUS
<1>8. PICK g : g = CHOOSE h : Summed(h)
    OBVIOUS
<1>9. Stopped(f) /\ Summed(g)
  <2> HIDE DEF Stopped, Summed
  <2> QED
      BY <1>3, <1>4, <1>7, <1>8
<1> DEFINE T == {s \in SUBSET S : g[s] \in Nat /\ f[s] = Lesser(MaxInt, g[s])}
<1>10. {} \in T
    BY <1>1, <1>9 DEF Lesser
<1>11. ASSUME NEW s \in SUBSET S, s /= {}, \A x \in s : s \ {x} \in T PROVE s \in T
  <2>1. PICK x \in s : x = Chosen(s)
      BY <1>2, <1>11
  <2>2. f[s] = Elasticsearch!Added(f[s \ {x}], of[x].unassigned) /\ g[s] = g[s \ {x}] + of[x].unassigned
      BY <1>9, <1>11, <2>1
  <2>3. g[s \ {x}] \in Nat /\ f[s \ {x}] = Lesser(MaxInt, g[s \ {x}]) /\ of[x].unassigned \in Nat
      BY <1>11
  <2> QED
      BY <1>1, <2>2, <2>3 DEF Elasticsearch!Added, Lesser
<1> HIDE DEF T
<1>12. S \in T
    BY <1>10, <1>11, SubsetInduction
<1> QED
    BY <1>5, <1>6, <1>7, <1>8, <1>12 DEF T

(* The unassigned shards that the overview of Elasticsearch reports for each    *)
(* health are the sum over its clusters, or the largest int if the sum is larger *)
(* (saturatingAddInt64).                                                        *)
THEOREM UnassignedShardsExact == Spec => []UnassignedExact
<1>1. Finite /\ Typed => UnassignedExact
  <2> SUFFICES ASSUME Finite, Typed, kind = "elasticsearch", NEW health \in {"yellow", "red"}
               PROVE  LET counted == {c \in DOMAIN clusters :
                                        clusters[c].health = health /\ clusters[c].unassigned >= 0}
                          sum == FoldSet(LAMBDA c, n : n + clusters[c].unassigned, 0, counted)
                      IN  Overview.unassigned[health] = Lesser(MaxInt, sum)
      BY DEF UnassignedExact
  <2> DEFINE counted == {c \in DOMAIN clusters :
                           clusters[c].health = health /\ clusters[c].unassigned >= 0}
  <2>1. IsFiniteSet(counted)
      BY FS_Subset DEF Finite
  <2>2. \A c \in counted : clusters[c].unassigned \in Nat
    <3>1. \A c \in DOMAIN clusters : clusters[c] \in Elasticsearch!Cluster(Int, Int)
        BY DEF Typed, Cluster
    <3> QED
        BY <3>1 DEF Elasticsearch!Cluster
  <2>3. Overview.unassigned[health] = Elasticsearch!UnassignedShards(clusters, health)
      BY DEF Overview, Elasticsearch!Overview
  <2>4. Elasticsearch!UnassignedShards(clusters, health) = StoppedSum(clusters, counted)
      BY DEF Elasticsearch!UnassignedShards, StoppedSum
  <2>5. FoldSet(LAMBDA c, n : n + clusters[c].unassigned, 0, counted) = SumOf(clusters, counted)
      BY DEF SumOf
  <2> HIDE DEF counted
  <2>6. StoppedSum(clusters, counted) = Lesser(MaxInt, SumOf(clusters, counted))
      BY <2>1, <2>2, SumsStop
  <2> QED
      BY <2>3, <2>4, <2>5, <2>6 DEF counted
<1>2. Init => Finite
  <2> SUFFICES ASSUME Init PROVE Finite
      OBVIOUS
  <2>1. kind \in Kinds /\ \E s \in Snapshots[kind] : rows = s.rows /\ clusters = s.clusters
      BY DEF Init
  <2> QED
      BY <2>1, SnapshotsAssumption DEF SnapshotsAssumption, Finite
<1>3. Typed /\ Finite /\ [Next]_vars => Finite'
    BY TypedStep DEF Finite
<1>4. Spec => []Finite
    BY <1>2, <1>3, AlwaysTyped, PTL DEF Spec
<1> QED
    BY <1>1, <1>4, AlwaysTyped, PTL

-----------------------------------------------------------------------------
(* The services have the lists of Listing, each by an INSTANCE of its own *)

LEMMA DiskListing ==
    /\ \A ids, matching : Disk!Selected(ids, matching) = Selected(ids, matching)
    /\ \A ids, before : Disk!Sorted(ids, before) = Sorted(ids, before)
    /\ \A list, start, size : Disk!Paged(list, start, size) = Paged(list, start, size)
    /\ \A q, total : Disk!PageStart(q, total) = PageStart(q, total)
    /\ \A q, total : Disk!ClampedStart(q, total) = ClampedStart(q, total)
    /\ \A q : Disk!Defaulted(q) = Defaulted(q)
    /\ \A a, b, direction : Disk!Before(a, b, direction) = Before(a, b, direction)
<1> USE DEF Disk!FoldLeft, FoldLeft, Disk!MapThenFoldSet, MapThenFoldSet, Disk!Max, Max,
            Disk!Lesser, Lesser, Disk!Wrapped, Wrapped, Disk!PageStart, PageStart
<1>1. \A ids, matching : Disk!Selected(ids, matching) = Selected(ids, matching)
    BY DEF Disk!Selected, Selected
<1>2. \A ids, before : Disk!Sorted(ids, before) = Sorted(ids, before)
    BY DEF Disk!Sorted, Sorted, Disk!Inserted, Inserted, Disk!InsertAt, InsertAt
<1>3. \A list, start, size : Disk!Paged(list, start, size) = Paged(list, start, size)
    BY DEF Disk!Paged, Paged, Disk!Panic, Panic, Disk!None, None
<1>4. \A q, total : Disk!ClampedStart(q, total) = ClampedStart(q, total)
    BY DEF Disk!ClampedStart, ClampedStart
<1>5. \A q, total : Disk!PageStart(q, total) = PageStart(q, total)
    OBVIOUS
<1>6. \A q : Disk!Defaulted(q) = Defaulted(q)
    BY Zenon DEF Disk!Defaulted, Defaulted
<1>7. \A a, b, direction : Disk!Before(a, b, direction) = Before(a, b, direction)
    BY DEF Disk!Before, Before, Disk!Compare, Compare
<1> QED
    BY <1>1, <1>2, <1>3, <1>4, <1>5, <1>6, <1>7

LEMMA MySQLListing ==
    /\ \A ids, matching : MySQL!Selected(ids, matching) = Selected(ids, matching)
    /\ \A ids, before : MySQL!Sorted(ids, before) = Sorted(ids, before)
    /\ \A list, start, size : MySQL!Paged(list, start, size) = Paged(list, start, size)
    /\ \A q, total : MySQL!PageStart(q, total) = PageStart(q, total)
    /\ \A q, total : MySQL!ClampedStart(q, total) = ClampedStart(q, total)
    /\ \A q : MySQL!Defaulted(q) = Defaulted(q)
    /\ \A a, b, direction : MySQL!Before(a, b, direction) = Before(a, b, direction)
<1> USE DEF MySQL!FoldLeft, FoldLeft, MySQL!MapThenFoldSet, MapThenFoldSet, MySQL!Max, Max,
            MySQL!Lesser, Lesser, MySQL!Wrapped, Wrapped, MySQL!PageStart, PageStart
<1>1. \A ids, matching : MySQL!Selected(ids, matching) = Selected(ids, matching)
    BY DEF MySQL!Selected, Selected
<1>2. \A ids, before : MySQL!Sorted(ids, before) = Sorted(ids, before)
    BY DEF MySQL!Sorted, Sorted, MySQL!Inserted, Inserted, MySQL!InsertAt, InsertAt
<1>3. \A list, start, size : MySQL!Paged(list, start, size) = Paged(list, start, size)
    BY DEF MySQL!Paged, Paged, MySQL!Panic, Panic, MySQL!None, None
<1>4. \A q, total : MySQL!ClampedStart(q, total) = ClampedStart(q, total)
    BY DEF MySQL!ClampedStart, ClampedStart
<1>5. \A q, total : MySQL!PageStart(q, total) = PageStart(q, total)
    OBVIOUS
<1>6. \A q : MySQL!Defaulted(q) = Defaulted(q)
    BY Zenon DEF MySQL!Defaulted, Defaulted
<1>7. \A a, b, direction : MySQL!Before(a, b, direction) = Before(a, b, direction)
    BY DEF MySQL!Before, Before, MySQL!Compare, Compare
<1> QED
    BY <1>1, <1>2, <1>3, <1>4, <1>5, <1>6, <1>7

LEMMA RedisListing ==
    /\ \A ids, matching : Redis!Selected(ids, matching) = Selected(ids, matching)
    /\ \A ids, before : Redis!Sorted(ids, before) = Sorted(ids, before)
    /\ \A list, start, size : Redis!Paged(list, start, size) = Paged(list, start, size)
    /\ \A q, total : Redis!PageStart(q, total) = PageStart(q, total)
    /\ \A q, total : Redis!ClampedStart(q, total) = ClampedStart(q, total)
    /\ \A q : Redis!Defaulted(q) = Defaulted(q)
    /\ \A a, b, direction : Redis!Before(a, b, direction) = Before(a, b, direction)
<1> USE DEF Redis!FoldLeft, FoldLeft, Redis!MapThenFoldSet, MapThenFoldSet, Redis!Max, Max,
            Redis!Lesser, Lesser, Redis!Wrapped, Wrapped, Redis!PageStart, PageStart
<1>1. \A ids, matching : Redis!Selected(ids, matching) = Selected(ids, matching)
    BY DEF Redis!Selected, Selected
<1>2. \A ids, before : Redis!Sorted(ids, before) = Sorted(ids, before)
    BY DEF Redis!Sorted, Sorted, Redis!Inserted, Inserted, Redis!InsertAt, InsertAt
<1>3. \A list, start, size : Redis!Paged(list, start, size) = Paged(list, start, size)
    BY DEF Redis!Paged, Paged, Redis!Panic, Panic, Redis!None, None
<1>4. \A q, total : Redis!ClampedStart(q, total) = ClampedStart(q, total)
    BY DEF Redis!ClampedStart, ClampedStart
<1>5. \A q, total : Redis!PageStart(q, total) = PageStart(q, total)
    OBVIOUS
<1>6. \A q : Redis!Defaulted(q) = Defaulted(q)
    BY Zenon DEF Redis!Defaulted, Defaulted
<1>7. \A a, b, direction : Redis!Before(a, b, direction) = Before(a, b, direction)
    BY DEF Redis!Before, Before, Redis!Compare, Compare
<1> QED
    BY <1>1, <1>2, <1>3, <1>4, <1>5, <1>6, <1>7

LEMMA ElasticsearchListing ==
    /\ \A ids, matching : Elasticsearch!Selected(ids, matching) = Selected(ids, matching)
    /\ \A ids, before : Elasticsearch!Sorted(ids, before) = Sorted(ids, before)
    /\ \A list, start, size : Elasticsearch!Paged(list, start, size) = Paged(list, start, size)
    /\ \A q, total : Elasticsearch!PageStart(q, total) = PageStart(q, total)
    /\ \A q, total : Elasticsearch!ClampedStart(q, total) = ClampedStart(q, total)
    /\ \A q : Elasticsearch!Defaulted(q) = Defaulted(q)
    /\ \A a, b, direction : Elasticsearch!Before(a, b, direction) = Before(a, b, direction)
<1> USE DEF Elasticsearch!FoldLeft, FoldLeft, Elasticsearch!MapThenFoldSet, MapThenFoldSet, Elasticsearch!Max, Max,
            Elasticsearch!Lesser, Lesser, Elasticsearch!Wrapped, Wrapped, Elasticsearch!PageStart, PageStart
<1>1. \A ids, matching : Elasticsearch!Selected(ids, matching) = Selected(ids, matching)
    BY DEF Elasticsearch!Selected, Selected
<1>2. \A ids, before : Elasticsearch!Sorted(ids, before) = Sorted(ids, before)
    BY DEF Elasticsearch!Sorted, Sorted, Elasticsearch!Inserted, Inserted, Elasticsearch!InsertAt, InsertAt
<1>3. \A list, start, size : Elasticsearch!Paged(list, start, size) = Paged(list, start, size)
    BY DEF Elasticsearch!Paged, Paged, Elasticsearch!Panic, Panic, Elasticsearch!None, None
<1>4. \A q, total : Elasticsearch!ClampedStart(q, total) = ClampedStart(q, total)
    BY DEF Elasticsearch!ClampedStart, ClampedStart
<1>5. \A q, total : Elasticsearch!PageStart(q, total) = PageStart(q, total)
    OBVIOUS
<1>6. \A q : Elasticsearch!Defaulted(q) = Defaulted(q)
    BY Zenon DEF Elasticsearch!Defaulted, Defaulted
<1>7. \A a, b, direction : Elasticsearch!Before(a, b, direction) = Before(a, b, direction)
    BY DEF Elasticsearch!Before, Before, Elasticsearch!Compare, Compare
<1> QED
    BY <1>1, <1>2, <1>3, <1>4, <1>5, <1>6, <1>7

LEMMA RabbitMQListing ==
    /\ \A ids, matching : RabbitMQ!Selected(ids, matching) = Selected(ids, matching)
    /\ \A ids, before : RabbitMQ!Sorted(ids, before) = Sorted(ids, before)
    /\ \A list, start, size : RabbitMQ!Paged(list, start, size) = Paged(list, start, size)
    /\ \A q, total : RabbitMQ!PageStart(q, total) = PageStart(q, total)
    /\ \A q, total : RabbitMQ!ClampedStart(q, total) = ClampedStart(q, total)
    /\ \A q : RabbitMQ!Defaulted(q) = Defaulted(q)
    /\ \A a, b, direction : RabbitMQ!Before(a, b, direction) = Before(a, b, direction)
<1> USE DEF RabbitMQ!FoldLeft, FoldLeft, RabbitMQ!MapThenFoldSet, MapThenFoldSet, RabbitMQ!Max, Max,
            RabbitMQ!Lesser, Lesser, RabbitMQ!Wrapped, Wrapped, RabbitMQ!PageStart, PageStart
<1>1. \A ids, matching : RabbitMQ!Selected(ids, matching) = Selected(ids, matching)
    BY DEF RabbitMQ!Selected, Selected
<1>2. \A ids, before : RabbitMQ!Sorted(ids, before) = Sorted(ids, before)
    BY DEF RabbitMQ!Sorted, Sorted, RabbitMQ!Inserted, Inserted, RabbitMQ!InsertAt, InsertAt
<1>3. \A list, start, size : RabbitMQ!Paged(list, start, size) = Paged(list, start, size)
    BY DEF RabbitMQ!Paged, Paged, RabbitMQ!Panic, Panic, RabbitMQ!None, None
<1>4. \A q, total : RabbitMQ!ClampedStart(q, total) = ClampedStart(q, total)
    BY DEF RabbitMQ!ClampedStart, ClampedStart
<1>5. \A q, total : RabbitMQ!PageStart(q, total) = PageStart(q, total)
    OBVIOUS
<1>6. \A q : RabbitMQ!Defaulted(q) = Defaulted(q)
    BY Zenon DEF RabbitMQ!Defaulted, Defaulted
<1>7. \A a, b, direction : RabbitMQ!Before(a, b, direction) = Before(a, b, direction)
    BY DEF RabbitMQ!Before, Before, RabbitMQ!Compare, Compare
<1> QED
    BY <1>1, <1>2, <1>3, <1>4, <1>5, <1>6, <1>7

LEMMA JavaListing ==
    /\ \A ids, matching : Java!Selected(ids, matching) = Selected(ids, matching)
    /\ \A ids, before : Java!Sorted(ids, before) = Sorted(ids, before)
    /\ \A list, start, size : Java!Paged(list, start, size) = Paged(list, start, size)
    /\ \A q, total : Java!PageStart(q, total) = PageStart(q, total)
    /\ \A q, total : Java!ClampedStart(q, total) = ClampedStart(q, total)
    /\ \A q : Java!Defaulted(q) = Defaulted(q)
    /\ \A a, b, direction : Java!Before(a, b, direction) = Before(a, b, direction)
<1> USE DEF Java!FoldLeft, FoldLeft, Java!MapThenFoldSet, MapThenFoldSet, Java!Max, Max,
            Java!Lesser, Lesser, Java!Wrapped, Wrapped, Java!PageStart, PageStart
<1>1. \A ids, matching : Java!Selected(ids, matching) = Selected(ids, matching)
    BY DEF Java!Selected, Selected
<1>2. \A ids, before : Java!Sorted(ids, before) = Sorted(ids, before)
    BY DEF Java!Sorted, Sorted, Java!Inserted, Inserted, Java!InsertAt, InsertAt
<1>3. \A list, start, size : Java!Paged(list, start, size) = Paged(list, start, size)
    BY DEF Java!Paged, Paged, Java!Panic, Panic, Java!None, None
<1>4. \A q, total : Java!ClampedStart(q, total) = ClampedStart(q, total)
    BY DEF Java!ClampedStart, ClampedStart
<1>5. \A q, total : Java!PageStart(q, total) = PageStart(q, total)
    OBVIOUS
<1>6. \A q : Java!Defaulted(q) = Defaulted(q)
    BY Zenon DEF Java!Defaulted, Defaulted
<1>7. \A a, b, direction : Java!Before(a, b, direction) = Before(a, b, direction)
    BY DEF Java!Before, Before, Java!Compare, Compare
<1> QED
    BY <1>1, <1>2, <1>3, <1>4, <1>5, <1>6, <1>7

LEMMA HostsListing ==
    /\ \A ids, matching : Hosts!Selected(ids, matching) = Selected(ids, matching)
    /\ \A ids, before : Hosts!Sorted(ids, before) = Sorted(ids, before)
    /\ \A list, start, size : Hosts!Paged(list, start, size) = Paged(list, start, size)
    /\ \A q, total : Hosts!PageStart(q, total) = PageStart(q, total)
    /\ \A q, total : Hosts!ClampedStart(q, total) = ClampedStart(q, total)
    /\ \A q : Hosts!Defaulted(q) = Defaulted(q)
    /\ \A a, b, direction : Hosts!Before(a, b, direction) = Before(a, b, direction)
<1> USE DEF Hosts!FoldLeft, FoldLeft, Hosts!MapThenFoldSet, MapThenFoldSet, Hosts!Max, Max,
            Hosts!Lesser, Lesser, Hosts!Wrapped, Wrapped, Hosts!PageStart, PageStart
<1>1. \A ids, matching : Hosts!Selected(ids, matching) = Selected(ids, matching)
    BY DEF Hosts!Selected, Selected
<1>2. \A ids, before : Hosts!Sorted(ids, before) = Sorted(ids, before)
    BY DEF Hosts!Sorted, Sorted, Hosts!Inserted, Inserted, Hosts!InsertAt, InsertAt
<1>3. \A list, start, size : Hosts!Paged(list, start, size) = Paged(list, start, size)
    BY DEF Hosts!Paged, Paged, Hosts!Panic, Panic, Hosts!None, None
<1>4. \A q, total : Hosts!ClampedStart(q, total) = ClampedStart(q, total)
    BY DEF Hosts!ClampedStart, ClampedStart
<1>5. \A q, total : Hosts!PageStart(q, total) = PageStart(q, total)
    OBVIOUS
<1>6. \A q : Hosts!Defaulted(q) = Defaulted(q)
    BY Zenon DEF Hosts!Defaulted, Defaulted
<1>7. \A a, b, direction : Hosts!Before(a, b, direction) = Before(a, b, direction)
    BY DEF Hosts!Before, Before, Hosts!Compare, Compare
<1> QED
    BY <1>1, <1>2, <1>3, <1>4, <1>5, <1>6, <1>7

-----------------------------------------------------------------------------
(* The lists of all services in one form *)

(* The rows that match, and what each is compared by. *)
MatchesRow(row, q) ==
    CASE kind = "disk" -> Disk!Matches(row, q)
      [] kind = "mysql" -> MySQL!Matches(row, q)
      [] kind = "redis" -> Redis!Matches(row, q)
      [] kind = "elasticsearch" -> Elasticsearch!Matches(row, q)
      [] kind = "rabbitmq" -> RabbitMQ!Matches(row, q)
      [] kind = "java" -> Java!Matches(row, q)
      [] kind = "host" -> Hosts!Matches(row, q)

KeyOf(i, row, q) ==
    CASE kind = "disk" -> Disk!SortKey(row, q.sort)
      [] kind = "mysql" -> MySQL!SortKey(row, q.sort)
      [] kind = "redis" -> Redis!SortKey(row, q.sort)
      [] kind = "elasticsearch" -> Elasticsearch!SortKey(row, clusters, q.sort)
      [] kind = "rabbitmq" -> RabbitMQ!SortKey(row, q.sort)
      [] kind = "java" -> Java!SortKey(row, q.sort)
      [] kind = "host" -> Hosts!SortKey(i, row, q.sort)

(* The rows of a list, the order they are in, and the list as a whole. *)
MatchingOf(q) == {i \in DOMAIN rows : MatchesRow(rows[i], q)}

ByAddress(q) == kind \in {"mysql", "redis"} /\ q.sort \in {"", "instance"}

BeforeOf(q) ==
    IF ByAddress(q)
    THEN [p \in (DOMAIN rows) \X (DOMAIN rows) |-> MySQL!AddressBefore(rows, p[1], p[2], q.order)]
    ELSE KeyOrder([i \in DOMAIN rows |-> KeyOf(i, rows[i], q)], q.order)

FullList(q) == Sorted(Selected(order, MatchingOf(q)), BeforeOf(q))

(* What is asked for, and where the page begins. *)
Asked(q) == IF kind \in {"elasticsearch", "rabbitmq", "java"} THEN Defaulted(q) ELSE q

StartOf(q, total) == IF kind \in {"mysql", "host"} THEN ClampedStart(q, total) ELSE PageStart(q, total)

(* What stands for a page or a size that is not given. *)
LEMMA DefaultedIs ==
    ASSUME NEW q, IsQuery(q)
    PROVE  /\ Defaulted(q).page = IF q.page = 0 THEN 1 ELSE q.page
           /\ q.size /= 0 => Defaulted(q).size = q.size
           /\ \A n \in Int : Defaulted([q EXCEPT !.page = n]).size = Defaulted(q).size
           /\ \A n \in Int : Defaulted([q EXCEPT !.page = n]).page = IF n = 0 THEN 1 ELSE n
           /\ q.page /= 0 /\ q.size /= 0 => Defaulted(q) = q
           /\ Defaulted(q).sort = q.sort /\ Defaulted(q).order = q.order
           /\ Defaulted(q).status = q.status /\ Defaulted(q).role = q.role
           /\ Defaulted(q).group = q.group /\ Defaulted(q).search = q.search
<1> DEFINE least == CHOOSE s \in PageSizes : \A t \in PageSizes : s <= t
           given(r) == [r EXCEPT !.page = IF r.page = 0 THEN 1 ELSE r.page,
                                 !.size = IF r.size = 0 THEN least ELSE r.size]
<1>1. \A r : Defaulted(r) = given(r)
    BY Zenon DEF Defaulted
<1> HIDE DEF least
<1>2. \A n \in Int : IsQuery([q EXCEPT !.page = n])
    BY DEF IsQuery
<1> QED
    BY <1>1, <1>2 DEF IsQuery


(* A page of each service is a slice of its list. *)
LEMMA DiskPage ==
    ASSUME NEW q, IsQuery(q), kind = "disk"
    PROVE  Disk!Devices(rows, order, q)
               = Paged(FullList(q), StartOf(Asked(q), Len(FullList(q))), Asked(q).size)
<1> DEFINE matching == {i \in DOMAIN rows : Disk!Matches(rows[i], q)}
           keys == [i \in DOMAIN rows |-> Disk!SortKey(rows[i], q.sort)]
<1>1. matching = MatchingOf(q)
    BY DEF MatchingOf, MatchesRow
<1>2. keys = [i \in DOMAIN rows |-> KeyOf(i, rows[i], q)]
    BY DEF KeyOf
<1> HIDE DEF keys
<1>3. FullList(q) = Disk!Listed(order, matching, keys, q.order)
    BY <1>1, <1>2, DiskListing DEF FullList, BeforeOf, ByAddress, KeyOrder, Disk!Listed
<1> QED
    BY <1>3, DiskListing DEF Disk!Devices, Asked, StartOf, keys

LEMMA MySQLPage ==
    ASSUME NEW q, IsQuery(q), kind = "mysql"
    PROVE  MySQL!Instances(rows, order, q)
               = Paged(FullList(q), StartOf(Asked(q), Len(FullList(q))), Asked(q).size)
<1> DEFINE matching == {i \in DOMAIN rows : MySQL!Matches(rows[i], q)}
           keys == [i \in DOMAIN rows |-> MySQL!SortKey(rows[i], q.sort)]
<1>1. matching = MatchingOf(q)
    BY DEF MatchingOf, MatchesRow
<1>2. CASE ByAddress(q)
  <2>1. FullList(q) = MySQL!Sorted(MySQL!Selected(order, matching),
                        [p \in (DOMAIN rows) \X (DOMAIN rows) |->
                            MySQL!AddressBefore(rows, p[1], p[2], q.order)])
      BY <1>1, <1>2, MySQLListing DEF FullList, BeforeOf
  <2> HIDE DEF matching
  <2> QED
      BY <1>2, <2>1, MySQLListing DEF MySQL!Instances, Asked, StartOf, ByAddress, matching
<1>3. CASE ~ByAddress(q)
  <2>1. keys = [i \in DOMAIN rows |-> KeyOf(i, rows[i], q)]
      BY DEF KeyOf
  <2> HIDE DEF keys
  <2>2. FullList(q) = MySQL!Listed(order, matching, keys, q.order)
      BY <1>1, <1>3, <2>1, MySQLListing DEF FullList, BeforeOf, KeyOrder, MySQL!Listed
  <2> HIDE DEF matching
  <2> QED
      BY <1>3, <2>2, MySQLListing DEF MySQL!Instances, Asked, StartOf, ByAddress, keys, matching
<1> QED
    BY <1>2, <1>3

LEMMA RedisPage ==
    ASSUME NEW q, IsQuery(q), kind = "redis"
    PROVE  Redis!Instances(rows, order, q)
               = Paged(FullList(q), StartOf(Asked(q), Len(FullList(q))), Asked(q).size)
<1> DEFINE matching == {i \in DOMAIN rows : Redis!Matches(rows[i], q)}
           keys == [i \in DOMAIN rows |-> Redis!SortKey(rows[i], q.sort)]
<1>1. matching = MatchingOf(q)
    BY DEF MatchingOf, MatchesRow
<1>2. CASE ByAddress(q)
  <2>1. FullList(q) = Redis!Sorted(Redis!Selected(order, matching),
                        [p \in (DOMAIN rows) \X (DOMAIN rows) |->
                            Redis!Addresses!AddressBefore(rows, p[1], p[2], q.order)])
      BY <1>1, <1>2, RedisListing
      DEF FullList, BeforeOf, Redis!Addresses!AddressBefore, Redis!Addresses!CompareAddresses,
          Redis!Addresses!None, MySQL!AddressBefore, MySQL!CompareAddresses, MySQL!None
  <2> HIDE DEF matching
  <2> QED
      BY <1>2, <2>1, RedisListing DEF Redis!Instances, Asked, StartOf, ByAddress, matching
<1>3. CASE ~ByAddress(q)
  <2>1. keys = [i \in DOMAIN rows |-> KeyOf(i, rows[i], q)]
      BY DEF KeyOf
  <2> HIDE DEF keys
  <2>2. FullList(q) = Redis!Listed(order, matching, keys, q.order)
      BY <1>1, <1>3, <2>1, RedisListing DEF FullList, BeforeOf, KeyOrder, Redis!Listed
  <2> HIDE DEF matching
  <2> QED
      BY <1>3, <2>2, RedisListing DEF Redis!Instances, Asked, StartOf, ByAddress, keys, matching
<1> QED
    BY <1>2, <1>3

LEMMA ElasticsearchPage ==
    ASSUME NEW q, IsQuery(q), kind = "elasticsearch"
    PROVE  Elasticsearch!Nodes(rows, order, clusters, q)
               = Paged(FullList(q), StartOf(Asked(q), Len(FullList(q))), Asked(q).size)
<1> DEFINE matching == {i \in DOMAIN rows : Elasticsearch!Matches(rows[i], q)}
           keys == [i \in DOMAIN rows |-> Elasticsearch!SortKey(rows[i], clusters, q.sort)]
<1>1. matching = MatchingOf(q)
    BY DEF MatchingOf, MatchesRow
<1>2. keys = [i \in DOMAIN rows |-> KeyOf(i, rows[i], q)]
    BY DEF KeyOf
<1> HIDE DEF keys
<1>3. FullList(q) = Elasticsearch!Listed(order, matching, keys, q.order)
    BY <1>1, <1>2, ElasticsearchListing DEF FullList, BeforeOf, ByAddress, KeyOrder, Elasticsearch!Listed
<1>4. {i \in DOMAIN rows : Elasticsearch!Matches(rows[i], Defaulted(q))} = matching
  <2>1. /\ Defaulted(q).status = q.status /\ Defaulted(q).role = q.role
        /\ Defaulted(q).group = q.group /\ Defaulted(q).search = q.search
      BY DefaultedIs
  <2>2. \A row : Elasticsearch!Matches(row, Defaulted(q)) <=> Elasticsearch!Matches(row, q)
      BY <2>1 DEF Elasticsearch!Matches
  <2> QED
      BY <2>2
<1> HIDE DEF matching
<1> QED
    BY <1>3, <1>4, ElasticsearchListing, DefaultedIs DEF Elasticsearch!Nodes, Asked, StartOf, keys

LEMMA RabbitMQPage ==
    ASSUME NEW q, IsQuery(q), kind = "rabbitmq"
    PROVE  RabbitMQ!Nodes(rows, order, q)
               = Paged(FullList(q), StartOf(Asked(q), Len(FullList(q))), Asked(q).size)
<1> DEFINE matching == {i \in DOMAIN rows : RabbitMQ!Matches(rows[i], q)}
           keys == [i \in DOMAIN rows |-> RabbitMQ!SortKey(rows[i], q.sort)]
<1>1. matching = MatchingOf(q)
    BY DEF MatchingOf, MatchesRow
<1>2. keys = [i \in DOMAIN rows |-> KeyOf(i, rows[i], q)]
    BY DEF KeyOf
<1> HIDE DEF keys
<1>3. FullList(q) = RabbitMQ!Listed(order, matching, keys, q.order)
    BY <1>1, <1>2, RabbitMQListing DEF FullList, BeforeOf, ByAddress, KeyOrder, RabbitMQ!Listed
<1>4. {i \in DOMAIN rows : RabbitMQ!Matches(rows[i], Defaulted(q))} = matching
  <2>1. /\ Defaulted(q).status = q.status /\ Defaulted(q).role = q.role
        /\ Defaulted(q).group = q.group /\ Defaulted(q).search = q.search
      BY DefaultedIs
  <2>2. \A row : RabbitMQ!Matches(row, Defaulted(q)) <=> RabbitMQ!Matches(row, q)
      BY <2>1 DEF RabbitMQ!Matches
  <2> QED
      BY <2>2
<1> HIDE DEF matching
<1> QED
    BY <1>3, <1>4, RabbitMQListing, DefaultedIs DEF RabbitMQ!Nodes, Asked, StartOf, keys

LEMMA JavaPage ==
    ASSUME NEW q, IsQuery(q), kind = "java"
    PROVE  Java!Services(rows, order, q)
               = Paged(FullList(q), StartOf(Asked(q), Len(FullList(q))), Asked(q).size)
<1> DEFINE matching == {i \in DOMAIN rows : Java!Matches(rows[i], q)}
           keys == [i \in DOMAIN rows |-> Java!SortKey(rows[i], q.sort)]
<1>1. matching = MatchingOf(q)
    BY DEF MatchingOf, MatchesRow
<1>2. keys = [i \in DOMAIN rows |-> KeyOf(i, rows[i], q)]
    BY DEF KeyOf
<1> HIDE DEF keys
<1>3. FullList(q) = Java!Listed(order, matching, keys, q.order)
    BY <1>1, <1>2, JavaListing DEF FullList, BeforeOf, ByAddress, KeyOrder, Java!Listed
<1>4. {i \in DOMAIN rows : Java!Matches(rows[i], Defaulted(q))} = matching
  <2>1. /\ Defaulted(q).status = q.status /\ Defaulted(q).role = q.role
        /\ Defaulted(q).group = q.group /\ Defaulted(q).search = q.search
      BY DefaultedIs
  <2>2. \A row : Java!Matches(row, Defaulted(q)) <=> Java!Matches(row, q)
      BY <2>1 DEF Java!Matches
  <2> QED
      BY <2>2
<1> HIDE DEF matching
<1> QED
    BY <1>3, <1>4, JavaListing, DefaultedIs DEF Java!Services, Asked, StartOf, keys

LEMMA HostsPage ==
    ASSUME NEW q, IsQuery(q), kind = "host"
    PROVE  Hosts!Hosts(rows, order, q)
               = Paged(FullList(q), StartOf(Asked(q), Len(FullList(q))), Asked(q).size)
<1> DEFINE matching == {i \in DOMAIN rows : Hosts!Matches(rows[i], q)}
           keys == [i \in DOMAIN rows |-> Hosts!SortKey(i, rows[i], q.sort)]
<1>1. matching = MatchingOf(q)
    BY DEF MatchingOf, MatchesRow
<1>2. keys = [i \in DOMAIN rows |-> KeyOf(i, rows[i], q)]
    BY DEF KeyOf
<1> HIDE DEF keys
<1>3. FullList(q) = Hosts!Listed(order, matching, keys, q.order)
    BY <1>1, <1>2, HostsListing DEF FullList, BeforeOf, ByAddress, KeyOrder, Hosts!Listed
<1> QED
    BY <1>3, HostsListing DEF Hosts!Hosts, Asked, StartOf, keys

LEMMA PageIs ==
    ASSUME NEW q, IsQuery(q), kind \in Kinds
    PROVE  Page(q) = Paged(FullList(q), StartOf(Asked(q), Len(FullList(q))), Asked(q).size)
<1>1. kind \in {"disk", "mysql", "redis", "elasticsearch", "rabbitmq", "java", "host"}
    BY ViewsAssumption DEF ViewsAssumption
<1> QED
    BY <1>1, DiskPage, MySQLPage, RedisPage, ElasticsearchPage, RabbitMQPage, JavaPage, HostsPage DEF Page

(* There are n numbers from 1 to n. *)
LEMMA IntervalCounts == ASSUME NEW n \in Nat PROVE IsFiniteSet(1 .. n) /\ Cardinality(1 .. n) = n
BY FS_Interval

(* An order of n rows. *)
LEMMA Permutes ==
    ASSUME NEW n \in Nat, NEW o \in [1 .. n -> 1 .. n], IsInjective(o)
    PROVE  o \in Once(1 .. n) /\ Len(o) = n /\ Range(o) = 1 .. n
<1>1. o \in Seq(1 .. n) /\ Len(o) = n
    OBVIOUS
<1>2. o \in Once(1 .. n)
    BY <1>1 DEF Once
<1>3. Range(o) \in SUBSET (1 .. n) /\ Cardinality(Range(o)) = n
    BY <1>1, <1>2, OnceIs, OnceCounts
<1>4. IsFiniteSet(1 .. n) /\ Cardinality(1 .. n) = n
    BY IntervalCounts
<1> QED
    BY <1>1, <1>2, <1>3, <1>4, FS_Subset

(***************************************************************************)
(* A snapshot lists each of its rows once, and no more than an int counts.   *)
(***************************************************************************)
Countable ==
    /\ Len(order) \in Nat
    /\ DOMAIN rows = 1 .. Len(order)
    /\ order \in Once(DOMAIN rows)
    /\ Range(order) = DOMAIN rows
    /\ Len(order) <= MaxInt
    /\ \A size \in PageSizes : Len(order) + size <= MaxInt
    /\ Orders[Len(order)] \subseteq {o \in [DOMAIN rows -> DOMAIN rows] : IsInjective(o)}
    /\ \A q \in Queries[kind][Len(order)] : IsQuery(q)

(* Every snapshot is so, and every one that replaces it. *)
LEMMA CountableInit == Init => Countable
<1> SUFFICES ASSUME Init PROVE Countable
    OBVIOUS
<1>1. kind \in Kinds /\ order = SetToSeq(DOMAIN rows)
    BY DEF Init
<1>2. PICK s \in Snapshots[kind] : rows = s.rows
    BY DEF Init
<1>3. PICK n \in 0 .. MaxInt :
        /\ DOMAIN rows = 1 .. n
        /\ \A size \in PageSizes : n + size <= MaxInt
        /\ Orders[n] \subseteq {o \in [1 .. n -> 1 .. n] : IsInjective(o)}
        /\ \A q \in Queries[kind][n] : IsQuery(q)
    BY <1>1, <1>2, ListsAssumption DEF ListsAssumption
<1>4. MaxInt \in Nat /\ n \in Nat /\ n <= MaxInt
    BY ListingAssumption
<1>5. Cardinality(1 .. n) = n
    BY <1>4, IntervalCounts
<1>6. order \in [1 .. n -> 1 .. n] /\ IsInjective(order)
  <2> DEFINE id == [i \in 1 .. n |-> i]
  <2>1. id \in [1 .. n -> 1 .. n] /\ IsInjective(id)
      BY DEF IsInjective
  <2>2. order = CHOOSE f \in [1 .. n -> 1 .. n] : IsInjective(f)
      BY <1>1, <1>3, <1>5 DEF SetToSeq
  <2> HIDE DEF id
  <2> QED
      BY <2>1, <2>2
<1>7. order \in Once(1 .. n) /\ Len(order) = n /\ Range(order) = 1 .. n
    BY <1>4, <1>6, Permutes
<1> QED
    BY <1>3, <1>4, <1>7 DEF Countable

LEMMA CountableStep ==
    ASSUME Countable, Typed, [Next]_vars
    PROVE  Countable' /\ Len(order') = Len(order)
<1>1. kind' = kind /\ DOMAIN rows' = DOMAIN rows
    BY TypedStep
<1>2. CASE order' = order
    BY <1>1, <1>2 DEF Countable
<1>3. CASE Reload
  <2>1. order' \in [1 .. Len(order) -> 1 .. Len(order)] /\ IsInjective(order') /\ Len(order) \in Nat
      BY <1>3 DEF Reload, Countable
  <2>2. PICK o : o = order'
      OBVIOUS
  <2>3. o \in Once(1 .. Len(order)) /\ Len(o) = Len(order) /\ Range(o) = 1 .. Len(order)
      BY <2>1, <2>2, Permutes
  <2> QED
      BY <1>1, <2>2, <2>3 DEF Countable
<1> QED
    BY <1>2, <1>3 DEF Next, Pass, Change, Ask, Turn, vars

LEMMA AlwaysCountable == Spec => []Countable
<1>1. Countable /\ Typed /\ [Next]_vars => Countable'
    BY CountableStep
<1> QED
    BY CountableInit, <1>1, AlwaysTyped, PTL DEF Spec

(* A list has the rows that match, each once. *)
LEMMA FullListIs ==
    ASSUME Countable, NEW q
    PROVE  /\ FullList(q) \in Once(DOMAIN rows)
           /\ Range(FullList(q)) = MatchingOf(q)
           /\ IsFiniteSet(MatchingOf(q))
           /\ Len(FullList(q)) = Cardinality(MatchingOf(q))
           /\ Len(FullList(q)) \in 0 .. Len(order)
<1>1. order \in Once(DOMAIN rows) /\ Range(order) = DOMAIN rows /\ Len(order) \in Nat
    BY DEF Countable
<1>2. Selected(order, MatchingOf(q)) \in Once(DOMAIN rows)
      /\ Range(Selected(order, MatchingOf(q))) = MatchingOf(q)
    BY <1>1, SelectedIs DEF MatchingOf
<1>3. FullList(q) \in Once(DOMAIN rows) /\ Range(FullList(q)) = MatchingOf(q)
    BY <1>2, SortedIs DEF FullList
<1>4. IsFiniteSet(DOMAIN rows) /\ Cardinality(DOMAIN rows) = Len(order)
    BY <1>1, OnceCounts
<1>5. /\ IsFiniteSet(MatchingOf(q)) /\ Cardinality(MatchingOf(q)) <= Len(order)
      /\ Cardinality(MatchingOf(q)) \in Nat
    BY <1>4, FS_Subset, FS_CardinalityType DEF MatchingOf
<1>6. Len(FullList(q)) = Cardinality(MatchingOf(q))
    BY <1>3, OnceCounts
<1> QED
    BY <1>1, <1>3, <1>5, <1>6

-----------------------------------------------------------------------------
(* Overview and lists *)

(* The whole list of what has a status. *)
AllOf(s) == [page |-> 1, size |-> MaxInt, sort |-> "", order |-> "", status |-> s,
             role |-> "", group |-> None, search |-> None]

(* The total of such a list counts the rows that match. *)
LEMMA ListCounts ==
    ASSUME Countable, kind \in Kinds, NEW s
    PROVE  Page(AllOf(s)).total = Cardinality(MatchingOf(AllOf(s)))
<1> DEFINE q == AllOf(s)
           total == Len(FullList(q))
<1>1. MaxInt \in Nat \ {0}
    BY ListingAssumption
<1>2. IsQuery(q) /\ q.page = 1 /\ q.size = MaxInt
    BY <1>1 DEF AllOf, IsQuery, None
<1> HIDE DEF q
<1>3. Asked(q) = q
    BY <1>1, <1>2, DefaultedIs DEF Asked
<1>4. Page(q) = Paged(FullList(q), StartOf(q, total), MaxInt)
    BY <1>2, <1>3, PageIs
<1>5. total \in 0 .. MaxInt /\ total = Cardinality(MatchingOf(q))
    BY <1>1, FullListIs DEF Countable
<1>6. StartOf(q, total) = 0
  <2>1. Offset(q, total) = 0
      BY <1>1, <1>2, <1>5 DEF Offset, Lesser
  <2>2. q.page \in Nat \ {0} /\ q.size \in 1 .. MaxInt /\ (q.page - 1) * q.size <= MaxInt
      BY <1>1, <1>2
  <2>3. PageStart(q, total) = Offset(q, total) /\ ClampedStart(q, total) = Offset(q, total)
      BY <1>5, <2>2, StartIs
  <2> QED
      BY <2>1, <2>3 DEF StartOf
<1>7. Paged(FullList(q), 0, MaxInt).total = total
    BY <1>1, <1>5, PagedIs
<1> QED
    BY <1>4, <1>5, <1>6, <1>7 DEF q

(* A tally counts the rows that have one of some values. *)
LEMMA TallyIs ==
    ASSUME NEW of, NEW values
    PROVE  /\ DOMAIN Tally(of, values) = values
           /\ \A s \in values : Tally(of, values)[s] = Cardinality({i \in DOMAIN of : of[i] = s})
BY DEF Tally

(* Every service counts by the same Tally. *)
LEMMA DiskTally == \A of, values : Disk!Tally(of, values) = Tally(of, values)
BY DEF Disk!Tally, Tally, Disk!Cardinality, Cardinality

LEMMA MySQLTally == \A of, values : MySQL!Tally(of, values) = Tally(of, values)
BY DEF MySQL!Tally, Tally, MySQL!Cardinality, Cardinality

LEMMA RedisTally == \A of, values : Redis!Tally(of, values) = Tally(of, values)
BY DEF Redis!Tally, Tally, Redis!Cardinality, Cardinality

LEMMA ElasticsearchTally == \A of, values : Elasticsearch!Tally(of, values) = Tally(of, values)
BY DEF Elasticsearch!Tally, Tally, Elasticsearch!Cardinality, Cardinality

LEMMA RabbitMQTally == \A of, values : RabbitMQ!Tally(of, values) = Tally(of, values)
BY DEF RabbitMQ!Tally, Tally, RabbitMQ!Cardinality, Cardinality

LEMMA JavaTally == \A of, values : Java!Tally(of, values) = Tally(of, values)
BY DEF Java!Tally, Tally, Java!Cardinality, Cardinality

LEMMA HostsTally == \A of, values : Hosts!Tally(of, values) = Tally(of, values)
BY DEF Hosts!Tally, Tally, Hosts!Cardinality, Cardinality

(* The status that an overview counts, for each kind of service. *)
StatusOf(row) == IF kind = "host" THEN Hosts!EffectiveStatus(row) ELSE Summary(row).level

(* What an overview counts at a status are the rows whose status it is. *)
LEMMA CountsAre ==
    ASSUME kind \in Kinds
    PROVE  Overview.counts =
               Tally([i \in DOMAIN rows |-> StatusOf(rows[i])],
                     IF kind = "host" THEN Hosts!States ELSE Levels)
<1>0. kind \in {"disk", "mysql", "redis", "elasticsearch", "rabbitmq", "java", "host"}
    BY ViewsAssumption DEF ViewsAssumption
<1>1. CASE kind = "disk"
    BY <1>1, DiskTally DEF Overview, Disk!Overview, StatusOf, Summary, Disk!Levels, Levels
<1>2. CASE kind = "mysql"
    BY <1>2, MySQLTally DEF Overview, MySQL!Overview, StatusOf, Summary, MySQL!Levels, Levels
<1>3. CASE kind = "redis"
    BY <1>3, RedisTally DEF Overview, Redis!Overview, StatusOf, Summary, Redis!Levels, Levels
<1>4. CASE kind = "elasticsearch"
    BY <1>4, ElasticsearchTally DEF Overview, Elasticsearch!Overview, StatusOf, Summary, Elasticsearch!Levels, Levels
<1>5. CASE kind = "rabbitmq"
    BY <1>5, RabbitMQTally DEF Overview, RabbitMQ!Overview, StatusOf, Summary, RabbitMQ!Levels, Levels
<1>6. CASE kind = "java"
    BY <1>6, JavaTally DEF Overview, Java!Overview, StatusOf, Summary, Java!Levels, Levels
<1>7. CASE kind = "host"
    BY <1>7, HostsTally DEF Overview, Hosts!Overview, StatusOf, Summary, Hosts!States
<1> QED
    BY <1>0, <1>1, <1>2, <1>3, <1>4, <1>5, <1>6, <1>7

(* The list that is filtered for a status has all that have it. *)
LEMMA AllMatch ==
    ASSUME kind \in Kinds, NEW s, s /= "", NEW row
    PROVE  MatchesRow(row, AllOf(s)) <=> StatusOf(row) = s
<1>0. kind \in {"disk", "mysql", "redis", "elasticsearch", "rabbitmq", "java", "host"}
    BY ViewsAssumption DEF ViewsAssumption
<1>1. CASE kind = "disk"
    BY <1>1 DEF MatchesRow, Disk!Matches, AllOf, StatusOf, Summary, Disk!None, None
<1>2. CASE kind = "mysql"
    BY <1>2 DEF MatchesRow, MySQL!Matches, AllOf, StatusOf, Summary, MySQL!None, None
<1>3. CASE kind = "redis"
    BY <1>3 DEF MatchesRow, Redis!Matches, AllOf, StatusOf, Summary, Redis!None, None
<1>4. CASE kind = "elasticsearch"
    BY <1>4 DEF MatchesRow, Elasticsearch!Matches, AllOf, StatusOf, Summary, Elasticsearch!None, None
<1>5. CASE kind = "rabbitmq"
    BY <1>5 DEF MatchesRow, RabbitMQ!Matches, AllOf, StatusOf, Summary, RabbitMQ!None, None
<1>6. CASE kind = "java"
    BY <1>6 DEF MatchesRow, Java!Matches, AllOf, StatusOf, Summary, Java!None, None
<1>7. CASE kind = "host"
    BY <1>7 DEF MatchesRow, Hosts!Matches, AllOf, StatusOf, Summary, Hosts!None, None
<1> QED
    BY <1>0, <1>1, <1>2, <1>3, <1>4, <1>5, <1>6, <1>7

(* A host that is offline is affected critically, one that is unknown affected. *)
LEMMA HostAffected ==
    ASSUME NEW h \in Row("host")
    PROVE  /\ Hosts!EffectiveStatus(h) = "offline" => Hosts!Summary(h).level = "critical"
           /\ Hosts!EffectiveStatus(h) = "unknown" => Hosts!Summary(h).level \in {"warning", "critical"}
<1> DEFINE level == Hosts!Summary(h).level
           shown == Hosts!Alerts(h).host
<1>1. Range(Hosts!Alerts(h)) \in SUBSET Levels /\ level = Highest(Range(Hosts!Alerts(h)))
    BY HostStatus DEF Status
<1>2. shown \in Range(Hosts!Alerts(h))
    BY DEF Hosts!Alerts, Range
<1>3. Rank[shown] <= Rank[level] /\ level \in Levels
    BY <1>1, <1>2, HighestOf
<1>4. /\ Hosts!EffectiveStatus(h) = "offline" => shown = "critical"
      /\ Hosts!EffectiveStatus(h) = "unknown" => shown = "warning"
    BY DEF Hosts!Alerts
<1> HIDE DEF level, shown
<1> QED
    BY <1>3, <1>4, Ranks DEF Levels, level

(* Parts of the rows that have none in common are no more than all together. *)
LEMMA DisjointCounts ==
    ASSUME NEW S, IsFiniteSet(S), NEW T, IsFiniteSet(T), S \cap T = {}
    PROVE  Cardinality(S \cup T) = Cardinality(S) + Cardinality(T)
<1>1. Cardinality(S) \in Nat /\ Cardinality(T) \in Nat /\ Cardinality(S \cap T) = 0
    BY FS_CardinalityType, FS_EmptySet
<1>2. Cardinality(S \cup T) = Cardinality(S) + Cardinality(T) - Cardinality(S \cap T)
    BY FS_Union
<1> QED
    BY <1>1, <1>2

(* As many are affected as are offline or unknown, at least. *)
LEMMA AffectedCounts ==
    ASSUME Countable, Typed, kind = "host"
    PROVE  /\ Overview.affected.critical >= Overview.counts.offline
           /\ Overview.affected.warning + Overview.affected.critical
              >= Overview.counts.offline + Overview.counts.unknown
<1> DEFINE At(s) == {i \in DOMAIN rows : Hosts!EffectiveStatus(rows[i]) = s}
           Hit(l) == {i \in DOMAIN rows : Hosts!Summary(rows[i]).level = l}
<1>1. /\ Overview.affected = Tally([i \in DOMAIN rows |-> Hosts!Summary(rows[i]).level], {"warning", "critical"})
      /\ Overview.counts = Tally([i \in DOMAIN rows |-> Hosts!EffectiveStatus(rows[i])], Hosts!States)
    BY HostsTally DEF Overview, Hosts!Overview
<1>2. /\ Overview.affected.critical = Cardinality(Hit("critical"))
      /\ Overview.affected.warning = Cardinality(Hit("warning"))
    BY <1>1, TallyIs
<1>3. /\ Overview.counts.offline = Cardinality(At("offline"))
      /\ Overview.counts.unknown = Cardinality(At("unknown"))
    BY <1>1, TallyIs DEF Hosts!States
<1>4. \A i \in DOMAIN rows : /\ i \in At("offline") => i \in Hit("critical")
                             /\ i \in At("unknown") => i \in Hit("warning") \cup Hit("critical")
    BY HostAffected DEF Typed
<1>5. IsFiniteSet(DOMAIN rows)
    BY IntervalCounts DEF Countable
<1>6. /\ At("offline") \subseteq Hit("critical")
      /\ At("offline") \cup At("unknown") \subseteq Hit("warning") \cup Hit("critical")
      /\ Hit("warning") \cap Hit("critical") = {} /\ At("offline") \cap At("unknown") = {}
    BY <1>4
<1>7. \A T \in SUBSET DOMAIN rows : IsFiniteSet(T) /\ Cardinality(T) \in Nat
    BY <1>5, FS_Subset, FS_CardinalityType
<1>8. Hit("critical") \in SUBSET DOMAIN rows /\ Hit("warning") \in SUBSET DOMAIN rows
      /\ At("offline") \in SUBSET DOMAIN rows /\ At("unknown") \in SUBSET DOMAIN rows
    OBVIOUS
<1> HIDE DEF At, Hit
<1>9. Cardinality(At("offline")) <= Cardinality(Hit("critical"))
    BY <1>6, <1>7, <1>8, FS_Subset
<1>10. /\ Cardinality(Hit("warning") \cup Hit("critical")) = Cardinality(Hit("warning")) + Cardinality(Hit("critical"))
       /\ Cardinality(At("offline") \cup At("unknown")) = Cardinality(At("offline")) + Cardinality(At("unknown"))
    BY <1>6, <1>7, <1>8, DisjointCounts
<1>11. Cardinality(At("offline") \cup At("unknown")) <= Cardinality(Hit("warning") \cup Hit("critical"))
    BY <1>6, <1>7, <1>8, FS_Subset
<1> QED
    BY <1>2, <1>3, <1>7, <1>8, <1>9, <1>10, <1>11

(***************************************************************************)
(* An overview and the lists tell the same numbers: as many things are       *)
(* counted at a status (Overview) as are in the list that is filtered for it *)
(* (Devices, Instances, Nodes, Services, Hosts), and every host that is      *)
(* offline or unknown counts among the affected.                             *)
(***************************************************************************)
THEOREM OverviewAgreesWithLists == Spec => []OverviewCountsLists
<1>1. Countable /\ Typed => OverviewCountsLists
  <2> SUFFICES ASSUME Countable, Typed
               PROVE  /\ \A s \in DOMAIN Overview.counts : Overview.counts[s] = Page(AllOf(s)).total
                      /\ kind = "host" =>
                           /\ Overview.affected.critical >= Overview.counts.offline
                           /\ Overview.affected.warning + Overview.affected.critical
                              >= Overview.counts.offline + Overview.counts.unknown
      BY Zenon DEF OverviewCountsLists, AllOf
  <2>1. kind \in Kinds
      BY DEF Typed
  <2>2. ASSUME NEW s \in DOMAIN Overview.counts PROVE Overview.counts[s] = Page(AllOf(s)).total
    <3> DEFINE of == [i \in DOMAIN rows |-> StatusOf(rows[i])]
               values == IF kind = "host" THEN Hosts!States ELSE Levels
    <3>1. Overview.counts = Tally(of, values)
        BY <2>1, CountsAre
    <3>2. s \in values /\ s /= ""
      <4>1. s \in values
        <5> HIDE DEF of, values
        <5> QED
            BY <2>2, <3>1, TallyIs
      <4> QED
          BY <4>1 DEF Hosts!States, Levels
    <3>3. Overview.counts[s] = Cardinality({i \in DOMAIN of : of[i] = s})
      <4> HIDE DEF of, values
      <4>1. Tally(of, values)[s] = Cardinality({i \in DOMAIN of : of[i] = s})
          BY <3>2 DEF Tally
      <4> QED
          BY <3>1, <4>1
    <3>4. {i \in DOMAIN of : of[i] = s} = MatchingOf(AllOf(s))
      <4>1. \A i \in DOMAIN rows : MatchesRow(rows[i], AllOf(s)) <=> StatusOf(rows[i]) = s
          BY <2>1, <3>2, AllMatch
      <4>2. {i \in DOMAIN of : of[i] = s} = {i \in DOMAIN rows : StatusOf(rows[i]) = s}
          OBVIOUS
      <4> QED
          BY <4>1, <4>2 DEF MatchingOf
    <3> QED
        BY <2>1, <3>3, <3>4, ListCounts
  <2> QED
      BY <2>2, AffectedCounts
<1> QED
    BY <1>1, AlwaysCountable, AlwaysTyped, PTL

-----------------------------------------------------------------------------
(* The pages of a list *)

(* The list does not depend on the page. *)
LEMMA OneListForAllPages ==
    ASSUME NEW q, IsQuery(q), NEW n \in Int, NEW size \in Int
    PROVE  /\ FullList([q EXCEPT !.page = n]) = FullList(q)
           /\ FullList([q EXCEPT !.page = n, !.size = size]) = FullList(q)
<1> DEFINE Alike(r) == /\ r.sort = q.sort /\ r.order = q.order /\ r.status = q.status
                       /\ r.role = q.role /\ r.group = q.group /\ r.search = q.search
<1>1. Alike([q EXCEPT !.page = n]) /\ Alike([q EXCEPT !.page = n, !.size = size])
    BY DEF IsQuery
<1>2. ASSUME NEW r, Alike(r) PROVE FullList(r) = FullList(q)
  <2>1. \A row : MatchesRow(row, r) = MatchesRow(row, q)
      BY <1>2 DEF MatchesRow, Disk!Matches, MySQL!Matches, Redis!Matches, Elasticsearch!Matches,
                  RabbitMQ!Matches, Java!Matches, Hosts!Matches
  <2>2. \A i, row : KeyOf(i, row, r) = KeyOf(i, row, q)
      BY <1>2 DEF KeyOf
  <2>3. MatchingOf(r) = MatchingOf(q)
      BY <2>1 DEF MatchingOf
  <2>4. BeforeOf(r) = BeforeOf(q)
      BY <1>2, <2>2 DEF BeforeOf, ByAddress
  <2> QED
      BY <2>3, <2>4 DEF FullList
<1> QED
    BY <1>1, <1>2

(* A page within the bounds of an int is a slice of the list. *)
Bounded(a, total) ==
    /\ a.page \in Nat \ {0} /\ a.size \in 1 .. MaxInt
    /\ kind \notin {"mysql", "host"} => (a.page - 1) * a.size <= MaxInt
    /\ Offset(a, total) + a.size <= MaxInt

(* Such a page is the slice of the list where it begins, and says whether there is more. *)
LEMMA PageSlices ==
    ASSUME Countable, kind \in Kinds, NEW q, IsQuery(q), NEW list, list = FullList(q),
           NEW a, a = Asked(q), Bounded(a, Len(list))
    PROVE  /\ Page(q).total = Len(list)
           /\ Page(q).ids = SubSeq(list, Offset(a, Len(list)) + 1,
                                   Lesser(Offset(a, Len(list)) + a.size, Len(list)))
           /\ Page(q).ids /= Panic
           /\ \A n \in Nat \ {0} : n < Page(q).pages <=> n * a.size < Len(list)
<1> DEFINE start == Offset(a, Len(list))
<1>1. /\ MaxInt \in Nat /\ Len(list) \in 0 .. MaxInt /\ Len(list) \in Nat
      /\ list \in Seq(DOMAIN rows) /\ 0 \notin DOMAIN rows
  <2>1. FullList(q) \in Once(DOMAIN rows) /\ Len(FullList(q)) \in 0 .. Len(order)
      BY FullListIs
  <2>2. Len(order) \in Nat /\ Len(order) <= MaxInt /\ 0 \notin DOMAIN rows
      BY DEF Countable
  <2> QED
      BY <2>1, <2>2, ListingAssumption DEF Once
<1>2. /\ start \in 0 .. Len(list) /\ a.size \in Nat \ {0} /\ start + a.size <= MaxInt
      /\ StartOf(a, Len(list)) = start
  <2>1. /\ a.page \in Nat \ {0} /\ a.size \in 1 .. MaxInt
        /\ kind \notin {"mysql", "host"} => (a.page - 1) * a.size <= MaxInt
        /\ start + a.size <= MaxInt
      BY DEF Bounded
  <2>2. /\ start \in 0 .. Len(list)
        /\ (a.page - 1) * a.size <= MaxInt => PageStart(a, Len(list)) = start
        /\ ClampedStart(a, Len(list)) = start
      BY <1>1, <2>1, StartIs
  <2> QED
      BY <1>1, <2>1, <2>2 DEF StartOf
<1>3. Page(q) = Paged(list, start, a.size)
    BY <1>2, PageIs
<1> HIDE DEF start
<1>4. /\ Page(q).total = Len(list)
      /\ Page(q).ids = SubSeq(list, start + 1, Lesser(start + a.size, Len(list)))
      /\ \A n \in Nat \ {0} : n < Page(q).pages <=> n * a.size < Len(list)
  <2>1. PICK size \in Nat \ {0} : size = a.size
      BY <1>2
  <2>2. /\ Paged(list, start, size).total = Len(list)
        /\ Paged(list, start, size).ids = SubSeq(list, start + 1, Lesser(start + size, Len(list)))
        /\ \A n \in Nat \ {0} : n < Paged(list, start, size).pages <=> n * size < Len(list)
    <3>1. start + size <= MaxInt /\ start \in 0 .. Len(list) /\ Len(list) \in Nat
        BY <1>1, <1>2, <2>1
    <3> QED
        BY <3>1, PagedIs
  <2> QED
      BY <1>3, <2>1, <2>2
<1>5. Page(q).ids /= Panic
  <2> DEFINE end == Lesser(start + a.size, Len(list))
             slice == SubSeq(list, start + 1, end)
  <2>1. start + 1 \in 1 .. Len(list) + 1 /\ end \in start .. Len(list)
      BY <1>1, <1>2 DEF Lesser
  <2>2. slice \in Seq(DOMAIN rows)
      BY <1>1, <2>1, SubSeqProperties
  <2> HIDE DEF slice
  <2>3. slice /= Panic
    <3>1. ASSUME slice = Panic PROVE FALSE
      <4>1. Len(slice) = 1 /\ slice[1] = 0
          BY <3>1 DEF Panic, None
      <4>2. slice[1] \in DOMAIN rows
        <5>1. 1 \in 1 .. Len(slice)
            BY <4>1
        <5> QED
            BY <2>2, <5>1, ElementOfSeq
      <4> QED
          BY <1>1, <4>1, <4>2
    <3> QED
        BY <3>1
  <2> QED
      BY <1>4, <2>3 DEF slice
<1> QED
    BY <1>4, <1>5 DEF start

(* What an accepted query asks for. *)
LEMMA AcceptedIs ==
    ASSUME kind \in Kinds, NEW q, IsQuery(q), Accepts(q)
    PROVE  /\ Asked(q).page \in Nat \ {0} /\ Asked(q).page = Defaulted(q).page
           /\ Asked(q).size \in PageSizes
           /\ kind \notin {"mysql", "host"} => (Asked(q).page - 1) * Asked(q).size <= MaxInt
<1> DEFINE a == Asked(q)
<1>0. kind \in {"disk", "mysql", "redis", "elasticsearch", "rabbitmq", "java", "host"}
    BY ViewsAssumption DEF ViewsAssumption
<1>1. /\ MaxInt \in Nat /\ PageSizes \subseteq 1 .. MaxInt
      /\ q.page \in Int /\ Defaulted(q).page = IF q.page = 0 THEN 1 ELSE q.page
    BY ListingAssumption, DefaultedIs DEF IsQuery
<1>2. /\ a.page >= 1 /\ a.size \in PageSizes
      /\ kind \notin {"mysql", "host"} =>
            ~(a.page - 1 > MaxInt \div a.size) \/ a.page <= MaxInt \div a.size
  <2>1. CASE kind = "disk"
      BY <1>1, <2>1 DEF Accepts, Asked, Disk!Accepts, Disk!WellFormed, Disk!Overflows
  <2>2. CASE kind = "mysql"
      BY <2>2 DEF Accepts, Asked, MySQL!Accepts, MySQL!WellFormed
  <2>3. CASE kind = "redis"
      BY <1>1, <2>3 DEF Accepts, Asked, Redis!Accepts, Redis!WellFormed, Redis!Overflows
  <2>4. CASE kind = "elasticsearch"
      BY <1>1, <2>4, ElasticsearchListing
      DEF Accepts, Asked, Elasticsearch!Accepts, Elasticsearch!WellFormed, Elasticsearch!Overflows
  <2>5. CASE kind = "rabbitmq"
      BY <1>1, <2>5, RabbitMQListing DEF Accepts, Asked, RabbitMQ!Accepts, RabbitMQ!WellFormed
  <2>6. CASE kind = "java"
      BY <1>1, <2>6, JavaListing DEF Accepts, Asked, Java!Accepts, Java!WellFormed, Java!Overflows
  <2>7. CASE kind = "host"
      BY <2>7 DEF Accepts, Asked, Hosts!Accepts, Hosts!WellFormed
  <2> QED
      BY <1>0, <2>1, <2>2, <2>3, <2>4, <2>5, <2>6, <2>7
<1>3. a.page \in Nat \ {0} /\ a.page = Defaulted(q).page
    BY <1>1, <1>2 DEF Asked
<1> HIDE DEF a
<1>4. kind \notin {"mysql", "host"} => (a.page - 1) * a.size <= MaxInt
  <2> SUFFICES ASSUME kind \notin {"mysql", "host"} PROVE (a.page - 1) * a.size <= MaxInt
      OBVIOUS
  <2>1. a.size \in Nat \ {0} /\ a.page - 1 \in Nat
    <3>1. a.size \in 1 .. MaxInt
        BY <1>1, <1>2
    <3> QED
        BY <1>1, <1>3, <3>1
  <2>2. MaxInt \div a.size \in Nat
      BY <1>1, <2>1, Quotient
  <2>3. a.page - 1 <= MaxInt \div a.size
      BY <1>2, <1>3, <2>1, <2>2
  <2> QED
      BY <2>1, <2>3, OffsetHeld
<1> QED
    BY <1>2, <1>3, <1>4 DEF a

-----------------------------------------------------------------------------
(* A reader who turns pages *)

(* What the reader knows of a page that is read. *)
Told(r, q, a, list, seen, steady) ==
    /\ r.state = IF a.page * a.size < Len(list) THEN "reading" ELSE "done"
    /\ r.query = q
    /\ r.page = a.page
    /\ r.seen = seen \o SubSeq(list, Offset(a, Len(list)) + 1, Lesser(Offset(a, Len(list)) + a.size, Len(list)))
    /\ r.total = Len(list)
    /\ r.steady = steady

(* What Read notes of a page. *)
LEMMA ReadTells ==
    ASSUME Countable, kind \in Kinds, NEW q, IsQuery(q), NEW n \in Int,
           NEW a, a = Asked([q EXCEPT !.page = n]), a.page = Defaulted([q EXCEPT !.page = n]).page,
           NEW list, list = FullList(q), Bounded(a, Len(list)), NEW seen, NEW steady
    PROVE  Told(Read(q, n, seen, steady), q, a, list, seen, steady)
<1> DEFINE asked == [q EXCEPT !.page = n]
<1>1. IsQuery(asked) /\ FullList(asked) = list
  <2>1. IsQuery(asked)
      BY DEF IsQuery
  <2>2. FullList([q EXCEPT !.page = n]) = FullList(q)
      BY OneListForAllPages
  <2> QED
      BY <2>1, <2>2
<1>2. /\ Read(q, n, seen, steady).state = (IF Page(asked).ids = Panic THEN "failed"
                                           ELSE IF Defaulted(asked).page < Page(asked).pages THEN "reading" ELSE "done")
      /\ Read(q, n, seen, steady).query = q
      /\ Read(q, n, seen, steady).page = Defaulted(asked).page
      /\ Read(q, n, seen, steady).seen = seen \o Page(asked).ids
      /\ Read(q, n, seen, steady).total = Page(asked).total
      /\ Read(q, n, seen, steady).steady = steady
    BY DEF Read
<1>3. a = Asked(asked) /\ a.page = Defaulted(asked).page
    OBVIOUS
<1> HIDE DEF asked
<1>4. /\ Page(asked).total = Len(list)
      /\ Page(asked).ids = SubSeq(list, Offset(a, Len(list)) + 1,
                                  Lesser(Offset(a, Len(list)) + a.size, Len(list)))
      /\ Page(asked).ids /= Panic
      /\ \A m \in Nat \ {0} : m < Page(asked).pages <=> m * a.size < Len(list)
    BY <1>1, <1>3, PageSlices
<1>5. a.page < Page(asked).pages <=> a.page * a.size < Len(list)
    BY <1>4 DEF Bounded
<1> QED
    BY <1>2, <1>3, <1>4, <1>5 DEF Told

(* A page that is accepted is within the bounds of an int. *)
LEMMA SizeBounds ==
    ASSUME Countable, NEW q, NEW a, a.page \in Nat \ {0}, a.size \in PageSizes,
           kind \notin {"mysql", "host"} => (a.page - 1) * a.size <= MaxInt
    PROVE  Bounded(a, Len(FullList(q)))
<1>1. Len(FullList(q)) \in 0 .. Len(order) /\ Len(order) \in Nat /\ Len(order) + a.size <= MaxInt
    BY FullListIs DEF Countable
<1>2. a.size \in 1 .. MaxInt
    BY ListingAssumption
<1>3. Offset(a, Len(FullList(q))) <= Len(FullList(q)) /\ Offset(a, Len(FullList(q))) \in Int
    BY <1>1, <1>2 DEF Offset, Lesser
<1> QED
    BY <1>1, <1>2, <1>3, ListingAssumption DEF Bounded

(* The first page that is asked for, and the next. *)
LEMMA AskTells ==
    ASSUME Countable, kind \in Kinds, NEW q, IsQuery(q), Accepts(q), NEW steady
    PROVE  /\ Told(Read(q, q.page, <<>>, steady), q, Asked(q), FullList(q), <<>>, steady)
           /\ Asked(q).page \in Nat \ {0} /\ Asked(q).size \in PageSizes
           /\ q.page \in {0, 1} => Asked(q).page = 1
<1>1. [q EXCEPT !.page = q.page] = q /\ q.page \in Int
    BY DEF IsQuery
<1>2. /\ Asked(q).page \in Nat \ {0} /\ Asked(q).page = Defaulted(q).page
      /\ Asked(q).size \in PageSizes
      /\ kind \notin {"mysql", "host"} => (Asked(q).page - 1) * Asked(q).size <= MaxInt
    BY AcceptedIs
<1>3. PICK a : a = Asked(q)
    OBVIOUS
<1>4. Bounded(a, Len(FullList(q)))
    BY <1>2, <1>3, SizeBounds
<1>5. Told(Read(q, q.page, <<>>, steady), q, a, FullList(q), <<>>, steady)
    BY <1>1, <1>2, <1>3, <1>4, ReadTells
<1>6. q.page \in {0, 1} => Defaulted(q).page = 1
    BY DefaultedIs
<1> QED
    BY <1>2, <1>3, <1>5, <1>6

(* The next page is accepted as the last one was not the last of the list. *)
LEMMA TurnTells ==
    ASSUME Countable, kind \in Kinds, NEW q, IsQuery(q), NEW p \in Nat \ {0}, NEW size \in PageSizes,
           size = Asked(q).size, p * size < Len(order), NEW seen, NEW steady
    PROVE  \E a : /\ Told(Read(q, p + 1, seen, steady), q, a, FullList(q), seen, steady)
                  /\ a.page = p + 1 /\ a.size = size
<1>0. PICK n \in Int : n = p + 1
    OBVIOUS
<1> DEFINE next == [q EXCEPT !.page = n]
<1>1. PICK a : a = Asked(next)
    OBVIOUS
<1>2. IsQuery(next) /\ next.page = n /\ next.size = q.size
    BY DEF IsQuery
<1>3. /\ Defaulted(next).page = n
      /\ Defaulted(next).size = Defaulted(q).size
    BY <1>0, DefaultedIs
<1> HIDE DEF next
<1>4. a.page = p + 1 /\ a.page = Defaulted(next).page /\ a.size = size
    BY <1>0, <1>1, <1>2, <1>3 DEF Asked
<1>5. (a.page - 1) * a.size <= MaxInt
  <2>1. Len(order) \in Nat /\ Len(order) <= MaxInt /\ MaxInt \in Nat /\ size \in Nat
      BY ListingAssumption DEF Countable
  <2>2. a.page - 1 = p
      BY <1>4
  <2>3. p * size \in Nat
      BY <2>1
  <2> QED
      BY <1>4, <2>1, <2>2, <2>3
<1>6. Bounded(a, Len(FullList(q)))
    BY <1>4, <1>5, SizeBounds
<1>7. Told(Read(q, n, seen, steady), q, a, FullList(q), seen, steady)
    BY <1>1, <1>4, <1>6, ReadTells DEF next
<1> QED
    BY <1>0, <1>4, <1>7

(* A reader who turns pages was told that there is more of the list. *)
Turning ==
    /\ reader.state \in {"idle", "refused", "reading", "done"}
    /\ reader.state = "reading" =>
         /\ IsQuery(reader.query)
         /\ Asked(reader.query).size \in PageSizes
         /\ reader.page \in Nat \ {0}
         /\ reader.page * Asked(reader.query).size < Len(order)

(* Who was told that there is more may turn the page. *)
LEMMA ToldTurns ==
    ASSUME Countable, NEW r, NEW q, IsQuery(q), NEW a, a.page \in Nat \ {0}, a.size \in PageSizes,
           a.size = Asked(q).size, NEW seen, NEW steady, Told(r, q, a, FullList(q), seen, steady)
    PROVE  /\ r.state \in {"reading", "done"}
           /\ r.state = "reading" =>
                /\ IsQuery(r.query)
                /\ Asked(r.query).size \in PageSizes
                /\ r.page \in Nat \ {0}
                /\ r.page * Asked(r.query).size < Len(order)
<1>1. /\ Len(FullList(q)) \in 0 .. Len(order)
      /\ Len(order) \in Nat
      /\ a.size \in Nat
  <2>1. Len(FullList(q)) \in 0 .. Len(order)
      BY FullListIs
  <2>2. Len(order) \in Nat
      BY DEF Countable
  <2>3. a.size \in 1 .. MaxInt
      BY ListingAssumption
  <2> QED
      BY <2>1, <2>2, <2>3
<1>2. a.page * a.size \in Nat
    BY <1>1
<1> QED
    BY <1>1, <1>2 DEF Told

LEMMA TurningStep ==
    ASSUME Turning, Countable, Countable', Typed, [Next]_vars
    PROVE  Turning'
<1>1. kind \in Kinds /\ kind' = kind /\ Len(order') = Len(order)
    BY TypedStep, CountableStep DEF Typed
<1>2. ASSUME NEW q, IsQuery(q), NEW a, a.page \in Nat \ {0}, a.size \in PageSizes, a.size = Asked(q).size,
             NEW seen, NEW steady, Told(reader', q, a, FullList(q), seen, steady)
      PROVE  Turning'
  <2>1. /\ reader'.state \in {"reading", "done"}
        /\ reader'.state = "reading" =>
             /\ IsQuery(reader'.query)
             /\ Asked(reader'.query).size \in PageSizes
             /\ reader'.page \in Nat \ {0}
             /\ reader'.page * Asked(reader'.query).size < Len(order)
    <3>1. PICK r : r = reader'
        OBVIOUS
    <3>2. Told(r, q, a, FullList(q), seen, steady)
        BY <1>2, <3>1
    <3>3. /\ r.state \in {"reading", "done"}
          /\ r.state = "reading" =>
               /\ IsQuery(r.query)
               /\ Asked(r.query).size \in PageSizes
               /\ r.page \in Nat \ {0}
               /\ r.page * Asked(r.query).size < Len(order)
        BY <1>2, <3>2, ToldTurns
    <3> QED
        BY <3>1, <3>3
  <2> QED
      BY <1>1, <2>1 DEF Turning, Asked
<1>3. CASE Pass \/ Reload \/ Change
  <2>1. PICK others : Become(others)
      BY <1>3 DEF Pass, Reload, Change
  <2>2. /\ reader'.state = reader.state
        /\ reader.state = "reading" => reader'.query = reader.query /\ reader'.page = reader.page
      BY <2>1 DEF Become
  <2> QED
      BY <1>1, <2>2 DEF Turning, Asked
<1>4. CASE Ask
  <2>1. PICK q \in Queries[kind][Len(order)] :
          reader' = IF ~Accepts(q) THEN [state |-> "refused", query |-> q]
                    ELSE Read(q, q.page, <<>>, q.page \in {0, 1})
      BY <1>4 DEF Ask
  <2>2. CASE ~Accepts(q)
      BY <2>1, <2>2 DEF Turning
  <2>3. CASE Accepts(q)
    <3>1. IsQuery(q)
        BY <2>1 DEF Countable
    <3>2. /\ Told(reader', q, Asked(q), FullList(q), <<>>, q.page \in {0, 1})
          /\ Asked(q).page \in Nat \ {0} /\ Asked(q).size \in PageSizes
        BY <1>1, <2>1, <2>3, <3>1, AskTells
    <3> QED
        BY <1>2, <3>1, <3>2
  <2> QED
      BY <2>2, <2>3
<1>5. CASE Turn
  <2>1. reader.state = "reading" /\ reader' = Read(reader.query, reader.page + 1, reader.seen, reader.steady)
      BY <1>5 DEF Turn
  <2>2. /\ IsQuery(reader.query) /\ Asked(reader.query).size \in PageSizes /\ reader.page \in Nat \ {0}
        /\ reader.page * Asked(reader.query).size < Len(order)
      BY <2>1 DEF Turning
  <2>3. PICK a : /\ Told(reader', reader.query, a, FullList(reader.query), reader.seen, reader.steady)
                 /\ a.page = reader.page + 1 /\ a.size = Asked(reader.query).size
      BY <1>1, <2>1, <2>2, TurnTells
  <2>4. a.page \in Nat \ {0}
      BY <2>2, <2>3
  <2> QED
      BY <1>2, <2>2, <2>3, <2>4
<1>6. CASE UNCHANGED vars
    BY <1>1, <1>6 DEF Turning, Asked, vars
<1> QED
    BY <1>3, <1>4, <1>5, <1>6 DEF Next

LEMMA AlwaysTurning == Spec => []Turning
<1>1. Init => Turning
    BY DEF Init, Idle, Turning
<1>2. Turning /\ Countable /\ Countable' /\ Typed /\ [Next]_vars => Turning'
    BY TurningStep
<1> QED
    BY <1>1, <1>2, AlwaysCountable, AlwaysTyped, PTL DEF Spec

(***************************************************************************)
(* Whatever page is asked for first, however the snapshot changes while the  *)
(* reader turns pages, no slice of a list is out of bounds (Devices,         *)
(* Instances, Nodes, Services, Hosts).                                       *)
(***************************************************************************)
THEOREM NoSliceOutOfBounds == Spec => []NoSlicePanic
<1>1. Turning => NoSlicePanic
    BY DEF Turning, NoSlicePanic
<1> QED
    BY <1>1, AlwaysTurning, PTL

-----------------------------------------------------------------------------
(* What a list is sorted by *)

(* What rows are compared by are one or two numbers. *)
LEMMA KeysAre ==
    /\ \A a \in Int : [present |-> TRUE, keys |-> <<a>>] \in Keys(1)
    /\ \A a, b \in Int : [present |-> TRUE, keys |-> <<a, b>>] \in Keys(2)
    /\ \A a \in Int, p \in BOOLEAN : [present |-> p, keys |-> <<a>>] \in Keys(1)
BY DEF Keys

(* Every level has a place in a list. *)
LEMMA LevelPlaces == \A l \in Levels : ListRank[l] \in Int /\ Rank[l] \in Int
BY DEF Levels, ListRank, Rank

(* What an accepted query may sort by, for each kind of service. *)
DiskFields == {"", "host", "device", "model", "number", "smart", "status"}
MySQLFields == {"", "instance", "version", "role", "number", "replication_state", "status"}
RedisFields == {"", "instance", "role", "number", "replication_link", "status"}
ElasticsearchFields == {"", "node", "cluster", "address", "role", "cluster_health", "number", "status"}
RabbitMQFields == {"", "node", "cluster", "address", "number", "status"}
JavaFields == {"", "business", "address", "health", "port", "process", "consistency", "number", "status"}
HostsFields == {"", "id", "name", "number", "uptime", "status"}

(* No other field is accepted. *)
LEMMA DiskField == ASSUME NEW q, Disk!Accepts(q) PROVE q.sort \in DiskFields
BY Zenon DEF Disk!Accepts, Disk!WellFormed, DiskFields

LEMMA MySQLField == ASSUME NEW q, MySQL!Accepts(q) PROVE q.sort \in MySQLFields
BY Zenon DEF MySQL!Accepts, MySQL!WellFormed, MySQLFields

LEMMA RedisField == ASSUME NEW q, Redis!Accepts(q) PROVE q.sort \in RedisFields
BY Zenon DEF Redis!Accepts, Redis!WellFormed, RedisFields

LEMMA ElasticsearchField == ASSUME NEW q, IsQuery(q), Elasticsearch!Accepts(q) PROVE q.sort \in ElasticsearchFields
<1>1. Elasticsearch!Defaulted(q).sort \in ElasticsearchFields
    BY Zenon DEF Elasticsearch!Accepts, Elasticsearch!WellFormed, ElasticsearchFields
<1> QED
    BY <1>1, ElasticsearchListing, DefaultedIs

LEMMA RabbitMQField == ASSUME NEW q, IsQuery(q), RabbitMQ!Accepts(q) PROVE q.sort \in RabbitMQFields
<1>1. RabbitMQ!Defaulted(q).sort \in RabbitMQFields
    BY Zenon DEF RabbitMQ!Accepts, RabbitMQ!WellFormed, RabbitMQFields
<1> QED
    BY <1>1, RabbitMQListing, DefaultedIs

LEMMA JavaField == ASSUME NEW q, IsQuery(q), Java!Accepts(q) PROVE q.sort \in JavaFields
<1>1. Java!Defaulted(q).sort \in JavaFields
    BY Zenon DEF Java!Accepts, Java!WellFormed, JavaFields
<1> QED
    BY <1>1, JavaListing, DefaultedIs

LEMMA HostsField == ASSUME NEW q, Hosts!Accepts(q) PROVE q.sort \in HostsFields
BY Zenon DEF Hosts!Accepts, Hosts!WellFormed, HostsFields

(* What each row of a service is compared by is of one form for each field. *)
LEMMA DiskKey ==
    ASSUME "disk" \in Kinds, NEW r \in Row("disk"), NEW field \in DiskFields
    PROVE  /\ field \in {"", "host"} => Disk!SortKey(r, field) \in Keys(2)
           /\ field \notin {"", "host"} => Disk!SortKey(r, field) \in Keys(1)
<1>1. r.group \in Int /\ r.text \in Int /\ r.number \in Int /\ r.smart \in {"healthy", "failed", "unknown"}
    BY DEF Row, Disk!Device, Disk!Healths
<1>2. Disk!Summary(r).level \in Levels
    BY ReportedIsLevel, Zenon DEF Reported
<1>3. ListRank[Disk!Summary(r).level] \in Int /\ Disk!ListRank = ListRank
    BY <1>2, LevelPlaces DEF Disk!ListRank, ListRank
<1>4. Disk!HealthRank[r.smart] \in Int
    BY <1>1 DEF Disk!HealthRank
<1>5. ASSUME field \in {"", "host"} PROVE Disk!SortKey(r, field) \in Keys(2)
    BY <1>1, <1>5, KeysAre DEF Disk!SortKey, Disk!Ranked
<1>6. ASSUME field = "device" PROVE Disk!SortKey(r, field) \in Keys(1)
    BY <1>1, <1>6, KeysAre DEF Disk!SortKey, Disk!Ranked
<1>7. ASSUME field \in {"model", "number"} PROVE Disk!SortKey(r, field) \in Keys(1)
    BY <1>1, <1>7, KeysAre DEF Disk!SortKey, Disk!Optional
<1>8. ASSUME field = "smart" PROVE Disk!SortKey(r, field) \in Keys(1)
    BY <1>4, <1>8, KeysAre DEF Disk!SortKey, Disk!Ranked
<1>9. ASSUME field = "status" PROVE Disk!SortKey(r, field) \in Keys(1)
    BY <1>3, <1>9, KeysAre DEF Disk!SortKey, Disk!Ranked
<1> QED
    BY <1>5, <1>6, <1>7, <1>8, <1>9 DEF DiskFields

LEMMA MySQLRowIs ==
    ASSUME NEW r \in Row("mysql")
    PROVE  r.text \in Int /\ r.number \in Int /\ MySQL!RoleRank[r.role] \in Int
<1>1. r \in MySQL!Instance(SUBSET MySQL!Channels, MySQL!Roles, Nat, Nat, Nat, Nat, Int)
    BY DEF Row
<1>2. r.text \in Int /\ r.number \in Int /\ r.role \in {"writable", "read_only", "unknown"}
    BY <1>1 DEF MySQL!Instance, MySQL!Roles
<1> QED
    BY <1>2 DEF MySQL!RoleRank

LEMMA StatePlaces ==
    \A x \in {"not_configured", "unknown", "threads_stopped", "normal"} : MySQL!StateRank[x] \in Int
BY DEF MySQL!StateRank

LEMMA MySQLReplicationIs ==
    ASSUME NEW r \in Row("mysql")
    PROVE  ListRank[MySQL!Replication(r).level] \in Int /\ MySQL!StateRank[MySQL!Replication(r).state] \in Int
<1>1. ListRank[MySQL!Replication(r).level] \in Int
    BY MySQLStatus, LevelPlaces DEF Status, MySQLRest
<1>2. MySQL!Replication(r).state \in {"not_configured", "unknown", "threads_stopped", "normal"}
    BY DEF MySQL!Replication
<1> QED
    BY <1>1, <1>2, StatePlaces

LEMMA MySQLKey ==
    ASSUME "mysql" \in Kinds, NEW r \in Row("mysql"), NEW field \in MySQLFields, field \notin {"", "instance"}
    PROVE  /\ field = "replication_state" => MySQL!SortKey(r, field) \in Keys(2)
           /\ field /= "replication_state" => MySQL!SortKey(r, field) \in Keys(1)
<1>1. r.text \in Int /\ r.number \in Int /\ MySQL!RoleRank[r.role] \in Int
    BY MySQLRowIs, Zenon
<1>2. MySQL!Summary(r).level \in Levels
    BY ReportedIsLevel, Zenon DEF Reported
<1>3. ListRank[MySQL!Summary(r).level] \in Int /\ MySQL!ListRank = ListRank
    BY <1>2, LevelPlaces DEF MySQL!ListRank, ListRank
<1>4. ListRank[MySQL!Replication(r).level] \in Int /\ MySQL!StateRank[MySQL!Replication(r).state] \in Int
    BY MySQLReplicationIs, Zenon
<1>5. ASSUME field \in {"version", "number"} PROVE MySQL!SortKey(r, field) \in Keys(1)
    BY <1>1, <1>5, KeysAre DEF MySQL!SortKey, MySQL!Optional
<1>6. ASSUME field = "role" PROVE MySQL!SortKey(r, field) \in Keys(1)
    BY <1>1, <1>6, KeysAre DEF MySQL!SortKey, MySQL!Ranked
<1>7. ASSUME field = "replication_state" PROVE MySQL!SortKey(r, field) \in Keys(2)
    BY <1>3, <1>4, <1>7, KeysAre DEF MySQL!SortKey, MySQL!Ranked
<1>8. ASSUME field = "status" PROVE MySQL!SortKey(r, field) \in Keys(1)
    BY <1>3, <1>8, KeysAre DEF MySQL!SortKey, MySQL!Ranked
<1> QED
    BY <1>5, <1>6, <1>7, <1>8 DEF MySQLFields

LEMMA RedisRowIs ==
    ASSUME NEW r \in Row("redis")
    PROVE  /\ r.number \in Int /\ Redis!RoleRank[r.role] \in Int
           /\ (IF r.role = "slave" THEN Redis!LinkRank(r) ELSE None) \in Int
<1>1. r \in Redis!Instance(Usages, Usages, Nat, Nat, Nat, Nat, Int)
    BY DEF Row
<1>2. r.number \in Int /\ r.role \in {"master", "slave", "unknown"} /\ r.link \in {"missing", "good", "bad"}
    BY <1>1 DEF Redis!Instance, Redis!Roles, Redis!Flags
<1>3. Redis!RoleRank[r.role] \in Int
    BY <1>2 DEF Redis!RoleRank
<1>4. Redis!LinkRank(r) \in Int /\ None \in Int
    BY <1>2 DEF Redis!LinkRank, None
<1> QED
    BY <1>2, <1>3, <1>4

LEMMA RedisOptional == \A n \in Int : Redis!Optional(n) \in Keys(1)
BY KeysAre DEF Redis!Optional

LEMMA RedisKey ==
    ASSUME "redis" \in Kinds, NEW r \in Row("redis"), NEW field \in RedisFields, field \notin {"", "instance"}
    PROVE  Redis!SortKey(r, field) \in Keys(1)
<1>1. /\ r.number \in Int /\ Redis!RoleRank[r.role] \in Int
      /\ (IF r.role = "slave" THEN Redis!LinkRank(r) ELSE None) \in Int
    BY RedisRowIs, Zenon
<1>2. Redis!Summary(r).level \in Levels
    BY ReportedIsLevel, Zenon DEF Reported
<1>3. ListRank[Redis!Summary(r).level] \in Int /\ Redis!ListRank = ListRank
    BY <1>2, LevelPlaces DEF Redis!ListRank, ListRank
<1>4. ASSUME field = "number" PROVE Redis!SortKey(r, field) \in Keys(1)
    BY <1>1, RedisOptional, <1>4 DEF Redis!SortKey
<1>5. ASSUME field = "role" PROVE Redis!SortKey(r, field) \in Keys(1)
    BY <1>1, <1>5, KeysAre DEF Redis!SortKey, Redis!Ranked
<1>6. ASSUME field = "replication_link" PROVE Redis!SortKey(r, field) \in Keys(1)
    BY <1>1, RedisOptional, <1>6 DEF Redis!SortKey, Redis!None, None
<1>7. ASSUME field = "status" PROVE Redis!SortKey(r, field) \in Keys(1)
    BY <1>3, <1>7, KeysAre DEF Redis!SortKey, Redis!Ranked
<1> QED
    BY <1>4, <1>5, <1>6, <1>7 DEF RedisFields

LEMMA ElasticsearchKey ==
    ASSUME "elasticsearch" \in Kinds, NEW r \in Row("elasticsearch"),
           NEW cs, \A c \in DOMAIN cs : cs[c] \in Cluster("elasticsearch"), NEW field \in ElasticsearchFields
    PROVE  /\ field \in {"", "node", "cluster"} => Elasticsearch!SortKey(r, cs, field) \in Keys(2)
           /\ field \notin {"", "node", "cluster"} => Elasticsearch!SortKey(r, cs, field) \in Keys(1)
<1>1. r.group \in Int /\ r.text \in Int /\ r.number \in Int
    BY DEF Row, Elasticsearch!Node
<1>2. Elasticsearch!Summary(r).level \in Levels
    BY ReportedIsLevel, Zenon DEF Reported
<1>3. Rank[Elasticsearch!Summary(r).level] \in Int /\ Elasticsearch!Rank = Rank
    BY <1>2, LevelPlaces DEF Elasticsearch!Rank, Rank
<1>4. Elasticsearch!RoleText[r.role] \in Int
    BY DEF Row, Elasticsearch!Node, Elasticsearch!RoleText
<1>5. Elasticsearch!HealthOf(r, cs) \in {"green", "yellow", "red", "unknown"}
    BY DEF Cluster, Elasticsearch!Cluster, Elasticsearch!Healths, Elasticsearch!HealthOf
<1>6. Elasticsearch!HealthRank[Elasticsearch!HealthOf(r, cs)] \in Int
    BY <1>5 DEF Elasticsearch!HealthRank
<1>7. ASSUME field \in {"", "node", "cluster"} PROVE Elasticsearch!SortKey(r, cs, field) \in Keys(2)
    BY <1>1, <1>7, KeysAre DEF Elasticsearch!SortKey, Elasticsearch!Ranked
<1>8. ASSUME field = "address" PROVE Elasticsearch!SortKey(r, cs, field) \in Keys(1)
    BY <1>1, <1>8, KeysAre DEF Elasticsearch!SortKey, Elasticsearch!Ranked
<1>9. ASSUME field = "role" PROVE Elasticsearch!SortKey(r, cs, field) \in Keys(1)
    BY <1>4, <1>9, KeysAre DEF Elasticsearch!SortKey, Elasticsearch!Ranked
<1>10. ASSUME field = "cluster_health" PROVE Elasticsearch!SortKey(r, cs, field) \in Keys(1)
    BY <1>6, <1>10, KeysAre DEF Elasticsearch!SortKey, Elasticsearch!Ranked
<1>11. ASSUME field = "number" PROVE Elasticsearch!SortKey(r, cs, field) \in Keys(1)
    BY <1>1, <1>11, KeysAre DEF Elasticsearch!SortKey, Elasticsearch!Optional
<1>12. ASSUME field = "status" PROVE Elasticsearch!SortKey(r, cs, field) \in Keys(1)
    BY <1>3, <1>12, KeysAre DEF Elasticsearch!SortKey, Elasticsearch!Ranked
<1> QED
    BY <1>7, <1>8, <1>9, <1>10, <1>11, <1>12 DEF ElasticsearchFields

LEMMA RabbitMQKey ==
    ASSUME "rabbitmq" \in Kinds, NEW r \in Row("rabbitmq"), NEW field \in RabbitMQFields
    PROVE  /\ field = "cluster" => RabbitMQ!SortKey(r, field) \in Keys(2)
           /\ field /= "cluster" => RabbitMQ!SortKey(r, field) \in Keys(1)
<1>1. r.group \in Int /\ r.text \in Int /\ r.number \in Int
    BY DEF Row, RabbitMQ!Node
<1>2. RabbitMQ!Summary(r).level \in Levels
    BY ReportedIsLevel, Zenon DEF Reported
<1>3. Rank[RabbitMQ!Summary(r).level] \in Int /\ RabbitMQ!Rank = Rank
    BY <1>2, LevelPlaces DEF RabbitMQ!Rank, Rank
<1>4. ASSUME field \in {"", "node", "address"} PROVE RabbitMQ!SortKey(r, field) \in Keys(1)
    BY <1>1, <1>4, KeysAre DEF RabbitMQ!SortKey, RabbitMQ!Ranked
<1>5. ASSUME field = "cluster" PROVE RabbitMQ!SortKey(r, field) \in Keys(2)
    BY <1>1, <1>5, KeysAre DEF RabbitMQ!SortKey, RabbitMQ!Ranked
<1>6. ASSUME field = "number" PROVE RabbitMQ!SortKey(r, field) \in Keys(1)
    BY <1>1, <1>6, KeysAre DEF RabbitMQ!SortKey, RabbitMQ!Optional
<1>7. ASSUME field = "status" PROVE RabbitMQ!SortKey(r, field) \in Keys(1)
    BY <1>3, <1>7, KeysAre DEF RabbitMQ!SortKey, RabbitMQ!Ranked
<1> QED
    BY <1>4, <1>5, <1>6, <1>7 DEF RabbitMQFields

LEMMA JavaKey ==
    ASSUME "java" \in Kinds, NEW r \in Row("java"), NEW field \in JavaFields
    PROVE  Java!SortKey(r, field) \in Keys(1)
<1>1. r.text \in Int /\ r.number \in Int
    BY DEF Row, Java!Service
<1>2. Java!Summary(r).level \in Levels
    BY ReportedIsLevel, Zenon DEF Reported
<1>3. Rank[Java!Summary(r).level] \in Int /\ Java!Rank = Rank
    BY <1>2, LevelPlaces DEF Java!Rank, Rank
<1>4. \A n \in Int : Java!Optional(n) \in Keys(1)
    BY KeysAre DEF Java!Optional
<1>5. \A flag \in {"missing", "good", "bad"} : [bad |-> 1, good |-> 2, missing |-> Java!None][flag] \in Int
    BY DEF Java!None
<1>6. \A flag \in {"missing", "good", "bad"} : Java!FlagKey(flag) \in Keys(1)
    BY <1>4, <1>5 DEF Java!FlagKey
<1>7. /\ Java!FlagKey(r.health) \in Keys(1) /\ Java!FlagKey(r.port) \in Keys(1)
      /\ Java!FlagKey(r.process) \in Keys(1) /\ Java!FlagKey(r.consistent) \in Keys(1)
    BY <1>6 DEF Row, Java!Service, Java!Flags
<1>8. ASSUME field \in {"", "business", "address", "number"} PROVE Java!SortKey(r, field) \in Keys(1)
    BY <1>1, <1>8, KeysAre DEF Java!SortKey, Java!Optional
<1>9. ASSUME field = "health" PROVE Java!SortKey(r, field) \in Keys(1)
    BY <1>7, <1>9 DEF Java!SortKey
<1>10. ASSUME field = "port" PROVE Java!SortKey(r, field) \in Keys(1)
    BY <1>7, <1>10 DEF Java!SortKey
<1>11. ASSUME field = "process" PROVE Java!SortKey(r, field) \in Keys(1)
    BY <1>7, <1>11 DEF Java!SortKey
<1>12. ASSUME field = "consistency" PROVE Java!SortKey(r, field) \in Keys(1)
    BY <1>7, <1>12 DEF Java!SortKey
<1>13. ASSUME field = "status" PROVE Java!SortKey(r, field) \in Keys(1)
    BY <1>3, <1>13, KeysAre DEF Java!SortKey, Java!Ranked
<1> QED
    BY <1>8, <1>9, <1>10, <1>11, <1>12, <1>13 DEF JavaFields

LEMMA HostsKey ==
    ASSUME "host" \in Kinds, NEW id \in Int, NEW r \in Row("host"), NEW field \in HostsFields
    PROVE  Hosts!SortKey(id, r, field) \in Keys(1)
<1>1. r.text \in Int /\ r.number \in Int
    BY DEF Row, Hosts!Host
<1>2. Hosts!CollectionLevel(r) \in Levels
    BY HostStatus DEF Status
<1>3. Hosts!EffectiveStatus(r) \in {"online", "offline", "unknown"}
    BY DEF Row, Hosts!Host, Hosts!States, Hosts!EffectiveStatus
<1>4. Hosts!StatusRank(r) \in Int
    BY <1>2, <1>3 DEF Hosts!StatusRank, Hosts!ListRank, Levels
<1>5. ASSUME field \in {"", "name", "number"} PROVE Hosts!SortKey(id, r, field) \in Keys(1)
    BY <1>1, <1>5, KeysAre DEF Hosts!SortKey, Hosts!Optional
<1>6. ASSUME field = "id" PROVE Hosts!SortKey(id, r, field) \in Keys(1)
    BY <1>6, KeysAre DEF Hosts!SortKey, Hosts!Ranked
<1>7. ASSUME field = "uptime" PROVE Hosts!SortKey(id, r, field) \in Keys(1)
    BY <1>1, <1>7, KeysAre DEF Hosts!SortKey, Hosts!Ranked
<1>8. ASSUME field = "status" PROVE Hosts!SortKey(id, r, field) \in Keys(1)
    BY <1>4, <1>8, KeysAre DEF Hosts!SortKey, Hosts!Ranked
<1> QED
    BY <1>5, <1>6, <1>7, <1>8 DEF HostsFields

(* All that a list is sorted by is of one form. *)
LEMMA KeysTyped ==
    ASSUME Typed, Countable, NEW q, IsQuery(q), Accepts(q), ~ByAddress(q)
    PROVE  \E n \in {1, 2} : \A i \in DOMAIN rows : KeyOf(i, rows[i], q) \in Keys(n)
<1>0. kind \in Kinds /\ kind \in {"disk", "mysql", "redis", "elasticsearch", "rabbitmq", "java", "host"}
    BY ViewsAssumption DEF ViewsAssumption, Typed
<1>1. \A i \in DOMAIN rows : rows[i] \in Row(kind)
    BY DEF Typed
<1>2. CASE kind = "disk"
  <2>1. q.sort \in DiskFields
      BY <1>2, DiskField DEF Accepts
  <2>2. \A i \in DOMAIN rows : /\ q.sort \in {"", "host"} => Disk!SortKey(rows[i], q.sort) \in Keys(2)
                               /\ q.sort \notin {"", "host"} => Disk!SortKey(rows[i], q.sort) \in Keys(1)
      BY <1>0, <1>1, <1>2, <2>1, DiskKey
  <2> QED
      BY <1>2, <2>2 DEF KeyOf
<1>3. CASE kind = "mysql"
  <2>1. q.sort \in MySQLFields /\ q.sort \notin {"", "instance"}
      BY <1>3, MySQLField DEF Accepts, ByAddress
  <2>2. \A i \in DOMAIN rows :
            /\ q.sort = "replication_state" => MySQL!SortKey(rows[i], q.sort) \in Keys(2)
            /\ q.sort /= "replication_state" => MySQL!SortKey(rows[i], q.sort) \in Keys(1)
      BY <1>0, <1>1, <1>3, <2>1, MySQLKey
  <2> QED
      BY <1>3, <2>2 DEF KeyOf
<1>4. CASE kind = "redis"
  <2>1. q.sort \in RedisFields /\ q.sort \notin {"", "instance"}
      BY <1>4, RedisField DEF Accepts, ByAddress
  <2>2. \A i \in DOMAIN rows : Redis!SortKey(rows[i], q.sort) \in Keys(1)
      BY <1>0, <1>1, <1>4, <2>1, RedisKey
  <2> QED
      BY <1>4, <2>2 DEF KeyOf
<1>5. CASE kind = "elasticsearch"
  <2>1. q.sort \in ElasticsearchFields
      BY <1>5, ElasticsearchField DEF Accepts
  <2>2. \A c \in DOMAIN clusters : clusters[c] \in Cluster("elasticsearch")
      BY <1>5 DEF Typed
  <2>3. \A i \in DOMAIN rows :
            /\ q.sort \in {"", "node", "cluster"} => Elasticsearch!SortKey(rows[i], clusters, q.sort) \in Keys(2)
            /\ q.sort \notin {"", "node", "cluster"} => Elasticsearch!SortKey(rows[i], clusters, q.sort) \in Keys(1)
      BY <1>0, <1>1, <1>5, <2>1, <2>2, ElasticsearchKey
  <2> QED
      BY <1>5, <2>3 DEF KeyOf
<1>6. CASE kind = "rabbitmq"
  <2>1. q.sort \in RabbitMQFields
      BY <1>6, RabbitMQField DEF Accepts
  <2>2. \A i \in DOMAIN rows : /\ q.sort = "cluster" => RabbitMQ!SortKey(rows[i], q.sort) \in Keys(2)
                               /\ q.sort /= "cluster" => RabbitMQ!SortKey(rows[i], q.sort) \in Keys(1)
      BY <1>0, <1>1, <1>6, <2>1, RabbitMQKey
  <2> QED
      BY <1>6, <2>2 DEF KeyOf
<1>7. CASE kind = "java"
  <2>1. q.sort \in JavaFields
      BY <1>7, JavaField DEF Accepts
  <2>2. \A i \in DOMAIN rows : Java!SortKey(rows[i], q.sort) \in Keys(1)
      BY <1>0, <1>1, <1>7, <2>1, JavaKey
  <2> QED
      BY <1>7, <2>2 DEF KeyOf
<1>8. CASE kind = "host"
  <2>1. q.sort \in HostsFields
      BY <1>8, HostsField DEF Accepts
  <2>2. \A i \in DOMAIN rows : i \in Int
      BY DEF Countable
  <2>3. \A i \in DOMAIN rows : Hosts!SortKey(i, rows[i], q.sort) \in Keys(1)
      BY <1>0, <1>1, <1>8, <2>1, <2>2, HostsKey
  <2> QED
      BY <1>8, <2>3 DEF KeyOf
<1> QED
    BY <1>0, <1>2, <1>3, <1>4, <1>5, <1>6, <1>7, <1>8

(* Addresses of which either all or none are IP addresses. *)
Alike(rs) == \A i, j \in DOMAIN rs : rs[i].ip = None <=> rs[j].ip = None

(* Such addresses have one order. *)
LEMMA AddressesOrdered ==
    ASSUME NEW rs, DOMAIN rs \in SUBSET Int, \A i \in DOMAIN rs : rs[i].ip \in Int /\ rs[i].text \in Int,
           Alike(rs), NEW direction
    PROVE  IsOrder(DOMAIN rs,
                   [p \in (DOMAIN rs) \X (DOMAIN rs) |-> MySQL!AddressBefore(rs, p[1], p[2], direction)])
<1> DEFINE at(i) == IF \A j \in DOMAIN rs : rs[j].ip /= None THEN rs[i].ip ELSE rs[i].text
           before == [p \in (DOMAIN rs) \X (DOMAIN rs) |-> MySQL!AddressBefore(rs, p[1], p[2], direction)]
<1>1. \A i \in DOMAIN rs : at(i) \in Int /\ i \in Int
    OBVIOUS
<1>2. \A i, j \in DOMAIN rs : MySQL!CompareAddresses(rs[i], rs[j]) = at(i) - at(j)
    BY DEF MySQL!CompareAddresses, MySQL!None, None, Alike
<1> HIDE DEF at
<1>3. \A i, j \in DOMAIN rs :
          before[<<i, j>>] <=> IF at(i) = at(j) THEN i < j
                               ELSE IF direction = "desc" THEN at(i) > at(j) ELSE at(i) < at(j)
  <2>0. \A i, j \in DOMAIN rs : before[<<i, j>>] <=> MySQL!AddressBefore(rs, i, j, direction)
      OBVIOUS
  <2> TAKE i, j \in DOMAIN rs
  <2> HIDE DEF before
  <2>1. before[<<i, j>>] <=> MySQL!AddressBefore(rs, i, j, direction)
      BY <2>0, Zenon
  <2>2. MySQL!AddressBefore(rs, i, j, direction) <=>
            (IF at(i) - at(j) = 0 THEN i < j
             ELSE IF direction = "desc" THEN at(i) - at(j) > 0 ELSE at(i) - at(j) < 0)
      BY <1>2 DEF MySQL!AddressBefore
  <2>3. at(i) \in Int /\ at(j) \in Int
      BY <1>1
  <2> QED
      BY <2>1, <2>2, <2>3
<1> HIDE DEF before
<1>4. IsOrder(DOMAIN rs, before)
  <2> SUFFICES ASSUME NEW x \in DOMAIN rs, NEW y \in DOMAIN rs
               PROVE  /\ x /= y => (before[<<x, y>>] <=> ~before[<<y, x>>])
                      /\ \A z \in DOMAIN rs : before[<<x, y>>] /\ before[<<y, z>>] => before[<<x, z>>]
      BY DEF IsOrder
  <2>1. x /= y => (before[<<x, y>>] <=> ~before[<<y, x>>])
      BY <1>1, <1>3
  <2>2. ASSUME NEW z \in DOMAIN rs, before[<<x, y>>], before[<<y, z>>] PROVE before[<<x, z>>]
      BY <1>1, <1>3, <2>2
  <2> QED
      BY <2>1, <2>2
<1> QED
    BY <1>4 DEF before

(* An address is a number, or a text that is numbered. *)
LEMMA AddressTyped ==
    ASSUME NEW r, r \in Row("mysql") \/ r \in Row("redis")
    PROVE  r.ip \in Int /\ r.text \in Int
<1>1. CASE r \in Row("mysql")
  <2>1. r \in MySQL!Instance(SUBSET MySQL!Channels, MySQL!Roles, Nat, Nat, Nat, Nat, Int)
      BY <1>1 DEF Row
  <2> QED
      BY <2>1 DEF MySQL!Instance
<1>2. CASE r \in Row("redis")
  <2>1. r \in Redis!Instance(Usages, Usages, Nat, Nat, Nat, Nat, Int)
      BY <1>2 DEF Row
  <2> QED
      BY <2>1 DEF Redis!Instance
<1> QED
    BY <1>1, <1>2

(* A list whose addresses, if it is one of addresses, are alike has one order. *)
LEMMA OneBefore ==
    ASSUME Typed, Countable, NEW q, IsQuery(q), Accepts(q), ByAddress(q) => Alike(rows)
    PROVE  IsOrder(DOMAIN rows, BeforeOf(q))
<1>1. DOMAIN rows \in SUBSET Int
    BY DEF Countable
<1>2. CASE ByAddress(q)
  <2>1. \A i \in DOMAIN rows : rows[i].ip \in Int /\ rows[i].text \in Int
    <3>1. \A i \in DOMAIN rows : rows[i] \in Row("mysql") \/ rows[i] \in Row("redis")
        BY <1>2 DEF ByAddress, Typed
    <3>2. \A r \in Row("mysql") : r.ip \in Int /\ r.text \in Int
        BY AddressTyped
    <3>3. \A r \in Row("redis") : r.ip \in Int /\ r.text \in Int
        BY AddressTyped
    <3> QED
        BY <3>1, <3>2, <3>3
  <2>2. IsOrder(DOMAIN rows,
                [p \in (DOMAIN rows) \X (DOMAIN rows) |-> MySQL!AddressBefore(rows, p[1], p[2], q.order)])
      BY <1>1, <1>2, <2>1, AddressesOrdered
  <2> QED
      BY <1>2, <2>2 DEF BeforeOf
<1>3. CASE ~ByAddress(q)
  <2> DEFINE keys == [i \in DOMAIN rows |-> KeyOf(i, rows[i], q)]
  <2>1. PICK n \in {1, 2} : keys \in [DOMAIN rows -> Keys(n)]
      BY <1>3, KeysTyped
  <2>2. BeforeOf(q) = KeyOrder(keys, q.order)
      BY <1>3 DEF BeforeOf
  <2> HIDE DEF keys
  <2> QED
      BY <1>1, <2>1, <2>2, KeyOrderIs
<1> QED
    BY <1>2, <1>3

-----------------------------------------------------------------------------
(* Samples that are older or newer *)

(* Two rows that are the same but for the ages of their samples. *)
SameButAge(r, e) == [e EXCEPT !.age = r.age] = r

(* Such rows match alike, and are alike in all that a list is sorted by but the status. *)
LEMMA DiskAside ==
    ASSUME NEW r \in Row("disk"), NEW e \in Row("disk"), SameButAge(r, e),
           NEW q, q.status = "", q.sort \in DiskFields, q.sort /= "status"
    PROVE  /\ Disk!Matches(e, q) <=> Disk!Matches(r, q)
           /\ Disk!SortKey(e, q.sort) = Disk!SortKey(r, q.sort)
<1>1. e.group = r.group /\ e.text = r.text /\ e.number = r.number /\ e.smart = r.smart
    BY DEF Row, Disk!Device, SameButAge
<1>2. Disk!Matches(e, q) <=> Disk!Matches(r, q)
    BY <1>1 DEF Disk!Matches
<1>3. Disk!SortKey(e, q.sort) = Disk!SortKey(r, q.sort)
    BY <1>1 DEF Disk!SortKey, DiskFields
<1> QED
    BY <1>1, <1>2, <1>3

LEMMA MySQLAside ==
    ASSUME NEW r \in Row("mysql"), NEW e \in Row("mysql"), SameButAge(r, e),
           NEW q, q.status = "", q.sort \in MySQLFields, q.sort /= "status"
    PROVE  /\ MySQL!Matches(e, q) <=> MySQL!Matches(r, q)
           /\ q.sort \notin {"", "instance"} => MySQL!SortKey(e, q.sort) = MySQL!SortKey(r, q.sort)
           /\ e.ip = r.ip /\ e.text = r.text
<1>1. /\ e.group = r.group /\ e.text = r.text /\ e.number = r.number /\ e.role = r.role
      /\ e.channels = r.channels /\ e.ip = r.ip
    BY DEF Row, MySQL!Instance, SameButAge
<1>2. MySQL!Matches(e, q) <=> MySQL!Matches(r, q)
    BY <1>1 DEF MySQL!Matches
<1>3. q.sort \notin {"", "instance"} => MySQL!SortKey(e, q.sort) = MySQL!SortKey(r, q.sort)
    BY <1>1 DEF MySQL!SortKey, MySQLFields, MySQL!Replication, MySQL!BareLevel, MySQL!LagLevel, MySQL!Lags
<1> QED
    BY <1>1, <1>2, <1>3

LEMMA RedisAside ==
    ASSUME NEW r \in Row("redis"), NEW e \in Row("redis"), SameButAge(r, e),
           NEW q, q.status = "", q.sort \in RedisFields, q.sort /= "status"
    PROVE  /\ Redis!Matches(e, q) <=> Redis!Matches(r, q)
           /\ q.sort \notin {"", "instance"} => Redis!SortKey(e, q.sort) = Redis!SortKey(r, q.sort)
           /\ e.ip = r.ip /\ e.text = r.text
<1>1. /\ e.group = r.group /\ e.text = r.text /\ e.number = r.number /\ e.role = r.role
      /\ e.link = r.link /\ e.ip = r.ip
    BY DEF Row, Redis!Instance, SameButAge
<1>2. Redis!Matches(e, q) <=> Redis!Matches(r, q)
    BY <1>1 DEF Redis!Matches
<1>3. q.sort \notin {"", "instance"} => Redis!SortKey(e, q.sort) = Redis!SortKey(r, q.sort)
    BY <1>1 DEF Redis!SortKey, RedisFields, Redis!LinkRank
<1> QED
    BY <1>1, <1>2, <1>3

LEMMA ElasticsearchAside ==
    ASSUME NEW r \in Row("elasticsearch"), NEW e \in Row("elasticsearch"), SameButAge(r, e),
           NEW q, q.status = "", q.sort \in ElasticsearchFields, q.sort /= "status"
    PROVE  /\ Elasticsearch!Matches(e, q) <=> Elasticsearch!Matches(r, q)
           /\ \A cs : Elasticsearch!SortKey(e, cs, q.sort) = Elasticsearch!SortKey(r, cs, q.sort)
<1>1. e.group = r.group /\ e.text = r.text /\ e.number = r.number /\ e.role = r.role
    BY DEF Row, Elasticsearch!Node, SameButAge
<1>2. Elasticsearch!Matches(e, q) <=> Elasticsearch!Matches(r, q)
    BY <1>1 DEF Elasticsearch!Matches
<1>3. ASSUME NEW cs
      PROVE  Elasticsearch!SortKey(e, cs, q.sort) = Elasticsearch!SortKey(r, cs, q.sort)
    BY <1>1 DEF Elasticsearch!SortKey, ElasticsearchFields, Elasticsearch!HealthOf
<1> QED
    BY <1>2, <1>3

LEMMA RabbitMQAside ==
    ASSUME NEW r \in Row("rabbitmq"), NEW e \in Row("rabbitmq"), SameButAge(r, e),
           NEW q, q.status = "", q.sort \in RabbitMQFields, q.sort /= "status"
    PROVE  /\ RabbitMQ!Matches(e, q) <=> RabbitMQ!Matches(r, q)
           /\ RabbitMQ!SortKey(e, q.sort) = RabbitMQ!SortKey(r, q.sort)
<1>1. e.group = r.group /\ e.text = r.text /\ e.number = r.number
    BY DEF Row, RabbitMQ!Node, SameButAge
<1>2. RabbitMQ!Matches(e, q) <=> RabbitMQ!Matches(r, q)
    BY <1>1 DEF RabbitMQ!Matches
<1>3. RabbitMQ!SortKey(e, q.sort) = RabbitMQ!SortKey(r, q.sort)
    BY <1>1 DEF RabbitMQ!SortKey, RabbitMQFields
<1> QED
    BY <1>1, <1>2, <1>3

LEMMA JavaAside ==
    ASSUME NEW r \in Row("java"), NEW e \in Row("java"), SameButAge(r, e),
           NEW q, q.status = "", q.sort \in JavaFields, q.sort /= "status"
    PROVE  /\ Java!Matches(e, q) <=> Java!Matches(r, q)
           /\ Java!SortKey(e, q.sort) = Java!SortKey(r, q.sort)
<1>1. /\ e.group = r.group /\ e.text = r.text /\ e.number = r.number
      /\ e.health = r.health /\ e.port = r.port /\ e.process = r.process /\ e.consistent = r.consistent
    BY DEF Row, Java!Service, SameButAge
<1>2. Java!Matches(e, q) <=> Java!Matches(r, q)
    BY <1>1 DEF Java!Matches
<1>3. Java!SortKey(e, q.sort) = Java!SortKey(r, q.sort)
    BY <1>1 DEF Java!SortKey, JavaFields
<1> QED
    BY <1>1, <1>2, <1>3

LEMMA HostsAside ==
    ASSUME NEW r \in Row("host"), NEW e \in Row("host"), SameButAge(r, e),
           NEW q, q.status = "", q.sort \in HostsFields, q.sort /= "status"
    PROVE  /\ Hosts!Matches(e, q) <=> Hosts!Matches(r, q)
           /\ \A id : Hosts!SortKey(id, e, q.sort) = Hosts!SortKey(id, r, q.sort)
<1>1. e.text = r.text /\ e.number = r.number
    BY DEF Row, Hosts!Host, SameButAge
<1>2. Hosts!Matches(e, q) <=> Hosts!Matches(r, q)
    BY <1>1 DEF Hosts!Matches
<1>3. ASSUME NEW id
      PROVE  Hosts!SortKey(id, e, q.sort) = Hosts!SortKey(id, r, q.sort)
    BY <1>1 DEF Hosts!SortKey, HostsFields
<1> QED
    BY <1>1, <1>2, <1>3

(* Such rows match alike and are compared alike, unless it is for the status. *)
LEMMA RowAside ==
    ASSUME kind \in Kinds, NEW r \in Row(kind), NEW e \in Row(kind), SameButAge(r, e), NEW i,
           NEW q, IsQuery(q), Accepts(q), q.status = "", q.sort /= "status"
    PROVE  /\ MatchesRow(e, q) <=> MatchesRow(r, q)
           /\ ~ByAddress(q) => KeyOf(i, e, q) = KeyOf(i, r, q)
           /\ ByAddress(q) => e.ip = r.ip /\ e.text = r.text
<1>0. kind \in {"disk", "mysql", "redis", "elasticsearch", "rabbitmq", "java", "host"}
    BY ViewsAssumption DEF ViewsAssumption
<1>1. CASE kind = "disk"
  <2>1. q.sort \in DiskFields
      BY <1>1, DiskField DEF Accepts
  <2>2. (Disk!Matches(e, q) <=> Disk!Matches(r, q)) /\ Disk!SortKey(e, q.sort) = Disk!SortKey(r, q.sort)
      BY <1>1, <2>1, DiskAside
  <2> QED
      BY <1>1, <2>2 DEF MatchesRow, KeyOf, ByAddress
<1>2. CASE kind = "mysql"
  <2>1. q.sort \in MySQLFields
      BY <1>2, MySQLField DEF Accepts
  <2>2. /\ MySQL!Matches(e, q) <=> MySQL!Matches(r, q)
        /\ q.sort \notin {"", "instance"} => MySQL!SortKey(e, q.sort) = MySQL!SortKey(r, q.sort)
        /\ e.ip = r.ip /\ e.text = r.text
      BY <1>2, <2>1, MySQLAside
  <2> QED
      BY <1>2, <2>2 DEF MatchesRow, KeyOf, ByAddress
<1>3. CASE kind = "redis"
  <2>1. q.sort \in RedisFields
      BY <1>3, RedisField DEF Accepts
  <2>2. /\ Redis!Matches(e, q) <=> Redis!Matches(r, q)
        /\ q.sort \notin {"", "instance"} => Redis!SortKey(e, q.sort) = Redis!SortKey(r, q.sort)
        /\ e.ip = r.ip /\ e.text = r.text
      BY <1>3, <2>1, RedisAside
  <2> QED
      BY <1>3, <2>2 DEF MatchesRow, KeyOf, ByAddress
<1>4. CASE kind = "elasticsearch"
  <2>1. q.sort \in ElasticsearchFields
      BY <1>4, ElasticsearchField DEF Accepts
  <2>2. r \in Row("elasticsearch") /\ e \in Row("elasticsearch")
      BY <1>4
  <2>3. PICK cs : cs = clusters
      OBVIOUS
  <2>4. /\ Elasticsearch!Matches(e, q) <=> Elasticsearch!Matches(r, q)
        /\ \A c : Elasticsearch!SortKey(e, c, q.sort) = Elasticsearch!SortKey(r, c, q.sort)
      BY <2>1, <2>2, ElasticsearchAside
  <2> QED
      BY <1>4, <2>3, <2>4 DEF MatchesRow, KeyOf, ByAddress
<1>5. CASE kind = "rabbitmq"
  <2>1. q.sort \in RabbitMQFields
      BY <1>5, RabbitMQField DEF Accepts
  <2>2. (RabbitMQ!Matches(e, q) <=> RabbitMQ!Matches(r, q)) /\ RabbitMQ!SortKey(e, q.sort) = RabbitMQ!SortKey(r, q.sort)
      BY <1>5, <2>1, RabbitMQAside
  <2> QED
      BY <1>5, <2>2 DEF MatchesRow, KeyOf, ByAddress
<1>6. CASE kind = "java"
  <2>1. q.sort \in JavaFields
      BY <1>6, JavaField DEF Accepts
  <2>2. (Java!Matches(e, q) <=> Java!Matches(r, q)) /\ Java!SortKey(e, q.sort) = Java!SortKey(r, q.sort)
      BY <1>6, <2>1, JavaAside
  <2> QED
      BY <1>6, <2>2 DEF MatchesRow, KeyOf, ByAddress
<1>7. CASE kind = "host"
  <2>1. q.sort \in HostsFields
      BY <1>7, HostsField DEF Accepts
  <2>2. /\ Hosts!Matches(e, q) <=> Hosts!Matches(r, q)
        /\ \A id : Hosts!SortKey(id, e, q.sort) = Hosts!SortKey(id, r, q.sort)
      BY <1>7, <2>1, HostsAside
  <2> QED
      BY <1>7, <2>2 DEF MatchesRow, KeyOf, ByAddress
<1> QED
    BY <1>0, <1>1, <1>2, <1>3, <1>4, <1>5, <1>6, <1>7

(* So the list stays the same, in whatever order the snapshot has its rows. *)
LEMMA ListStays ==
    ASSUME Typed, Typed', Countable, Countable',
           kind' = kind, clusters' = clusters, DOMAIN rows' = DOMAIN rows,
           NEW q, IsQuery(q), Accepts(q),
           \/ rows' = rows
           \/ /\ q.status = "" /\ q.sort /= "status"
              /\ \A i \in DOMAIN rows : SameButAge(rows[i], rows'[i]),
           order' = order \/ (ByAddress(q) => Alike(rows))
    PROVE  FullList(q)' = FullList(q)
<1> DEFINE T == DOMAIN rows
<1>0. kind \in Kinds
    BY DEF Typed
<1>1. PICK others : others = rows'
    OBVIOUS
<1>2. DOMAIN others = T /\ \A i \in T : others[i] \in Row(kind) /\ rows[i] \in Row(kind)
    BY <1>1 DEF Typed
<1>3. \A i \in T : /\ MatchesRow(others[i], q) <=> MatchesRow(rows[i], q)
                   /\ ~ByAddress(q) => KeyOf(i, others[i], q) = KeyOf(i, rows[i], q)
                   /\ ByAddress(q) => others[i].ip = rows[i].ip /\ others[i].text = rows[i].text
  <2>1. CASE others = rows
      BY <2>1
  <2>2. CASE /\ q.status = "" /\ q.sort /= "status"
             /\ \A i \in T : SameButAge(rows[i], others[i])
      BY <1>0, <1>2, <2>2, RowAside
  <2> QED
      BY <1>1, <2>1, <2>2
<1>4. MatchingOf(q)' = MatchingOf(q)
  <2>1. MatchingOf(q)' = {i \in T : MatchesRow(others[i], q)}
      BY <1>1, <1>2 DEF MatchingOf, MatchesRow
  <2> QED
      BY <1>3, <2>1 DEF MatchingOf
<1>5. BeforeOf(q)' = BeforeOf(q)
  <2>1. CASE ByAddress(q)
    <3>1. BeforeOf(q)' = [p \in T \X T |-> MySQL!AddressBefore(others, p[1], p[2], q.order)]
        BY <1>1, <1>2, <2>1 DEF BeforeOf, ByAddress
    <3>2. \A p \in T \X T : MySQL!AddressBefore(others, p[1], p[2], q.order)
                             = MySQL!AddressBefore(rows, p[1], p[2], q.order)
        BY <1>3, <2>1 DEF MySQL!AddressBefore, MySQL!CompareAddresses
    <3> QED
        BY <2>1, <3>1, <3>2 DEF BeforeOf
  <2>2. CASE ~ByAddress(q)
    <3>0. \A i \in T : KeyOf(i, rows[i], q)' = KeyOf(i, others[i], q)
        BY <1>1, <1>2 DEF KeyOf
    <3>1. BeforeOf(q)' = KeyOrder([i \in T |-> KeyOf(i, others[i], q)], q.order)
        BY <1>1, <1>2, <2>2, <3>0 DEF BeforeOf, ByAddress
    <3>2. [i \in T |-> KeyOf(i, others[i], q)] = [i \in T |-> KeyOf(i, rows[i], q)]
        BY <1>3, <2>2
    <3> QED
        BY <2>2, <3>1, <3>2 DEF BeforeOf
  <2> QED
      BY <2>1, <2>2
<1>6. FullList(q)' = Sorted(Selected(order', MatchingOf(q)), BeforeOf(q))
    BY <1>4, <1>5 DEF FullList
<1>7. CASE order' = order
    BY <1>6, <1>7 DEF FullList
<1>8. CASE ByAddress(q) => Alike(rows)
  <2>1. IsOrder(T, BeforeOf(q))
      BY <1>8, OneBefore
  <2>2. /\ order \in Once(T) /\ Range(order) = T
        /\ order' \in Once(T) /\ Range(order') = T
      BY <1>1, <1>2 DEF Countable
  <2>3. PICK a, b, matching, before :
            a = order' /\ b = order /\ matching = MatchingOf(q) /\ before = BeforeOf(q)
      OBVIOUS
  <2>4. IsOrder(T, before) /\ a \in Once(T) /\ b \in Once(T) /\ Range(a) = Range(b)
      BY <2>1, <2>2, <2>3
  <2> HIDE DEF T
  <2>5. Sorted(Selected(a, matching), before) = Sorted(Selected(b, matching), before)
      BY <2>4, OneList
  <2> QED
      BY <1>6, <2>3, <2>5 DEF FullList
<1> QED
    BY <1>7, <1>8

-----------------------------------------------------------------------------
(* What a reader has seen *)

(* The list up to the present page, or to its end, as long as nothing disturbs the list. *)
SoFar(r, list, size) ==
    r.steady =>
        /\ r.state = "reading" =>
             r.page * size <= Len(list) /\ r.seen = SubSeq(list, 1, r.page * size)
        /\ r.state = "done" => r.seen = list /\ r.total = Len(list)

(* Whoever is turning pages, or has turned the last, has seen so much of the list. *)
Seen ==
    reader.state \in {"reading", "done"} =>
        /\ "steady" \in DOMAIN reader
        /\ IsQuery(reader.query) /\ Accepts(reader.query)
        /\ SoFar(reader, FullList(reader.query), Asked(reader.query).size)

(* While a list is read that is sorted by addresses, either all or none of them *)
(* are IP addresses.                                                            *)
AddressesAlike ==
    reader.state = "reading" /\ kind \in {"mysql", "redis"} /\ reader.query.sort \in {"", "instance"} =>
        Alike(rows)

(* Where the next page begins. *)
LEMMA NextMultiple ==
    ASSUME NEW p \in Nat, NEW size \in Nat
    PROVE  p * size \in Nat /\ (p + 1) * size = p * size + size
OBVIOUS

(* A page goes on where the last one ended. *)
LEMMA GoesOn ==
    ASSUME NEW T, NEW list \in Seq(T), NEW r, NEW q, NEW a, NEW seen, NEW steady,
           Told(r, q, a, list, seen, steady), a.page \in Nat \ {0}, a.size \in Nat \ {0},
           steady => /\ (a.page - 1) * a.size <= Len(list)
                     /\ seen = SubSeq(list, 1, (a.page - 1) * a.size)
    PROVE  SoFar(r, list, a.size)
<1> SUFFICES ASSUME steady PROVE SoFar(r, list, a.size)
    BY DEF Told, SoFar
<1> DEFINE end == Lesser(Offset(a, Len(list)) + a.size, Len(list))
<1>1. PICK m : m = (a.page - 1) * a.size
    OBVIOUS
<1>2. /\ m \in 0 .. Len(list) /\ Len(list) \in Nat /\ a.page * a.size = m + a.size
      /\ seen = SubSeq(list, 1, m)
  <2>1. PICK p \in Nat, size \in Nat \ {0} : p = a.page - 1 /\ size = a.size /\ a.page = p + 1
      OBVIOUS
  <2>2. m = p * size
      BY <1>1, <2>1
  <2>3. p * size \in Nat /\ (p + 1) * size = p * size + size
      BY NextMultiple
  <2>4. Len(list) \in Nat /\ m <= Len(list) /\ seen = SubSeq(list, 1, m)
      BY <1>1
  <2>5. a.page * a.size = m + a.size
      BY <2>1, <2>2, <2>3
  <2>6. m \in Nat
      BY <2>2, <2>3
  <2> QED
      BY <2>4, <2>5, <2>6
<1>3. Offset(a, Len(list)) = m
    BY <1>1, <1>2 DEF Offset, Lesser
<1>4. end \in m .. Len(list) /\ (end = m + a.size \/ end = Len(list))
      /\ (m + a.size < Len(list) => end = m + a.size) /\ (~(m + a.size < Len(list)) => end = Len(list))
    BY <1>2, <1>3 DEF Lesser
<1>5. r.seen = seen \o SubSeq(list, m + 1, end)
    BY <1>3 DEF Told
<1> HIDE DEF end
<1>6. r.seen = SubSeq(list, 1, end)
    BY <1>2, <1>4, <1>5, SlicesJoin
<1>7. SubSeq(list, 1, Len(list)) = list
    BY WholeSlice
<1>8. /\ r.state = IF m + a.size < Len(list) THEN "reading" ELSE "done"
      /\ r.page * a.size = m + a.size
      /\ r.total = Len(list)
    BY <1>2 DEF Told
<1>9. CASE m + a.size < Len(list)
  <2>1. r.state = "reading" /\ r.page * a.size <= Len(list) /\ end = r.page * a.size
      BY <1>2, <1>4, <1>8, <1>9
  <2> QED
      BY <1>6, <2>1 DEF SoFar
<1>10. CASE ~(m + a.size < Len(list))
  <2>1. r.state = "done" /\ end = Len(list)
      BY <1>2, <1>4, <1>8, <1>10
  <2> QED
      BY <1>6, <1>7, <1>8, <2>1 DEF SoFar
<1> QED
    BY <1>9, <1>10

(* A snapshot that does not disturb the list does not change it. *)
LEMMA StaysSeen ==
    ASSUME Seen, Typed, Typed', Countable, Countable', AddressesAlike, NEW others, Become(others),
           Len(order') = Len(order), order' = order \/ Reload
    PROVE  Seen'
<1>1. /\ kind' = kind /\ clusters' = clusters /\ rows' = others
      /\ reader.state \in {"idle", "reading"}
      /\ reader' = IF reader.state = "reading"
                   THEN [reader EXCEPT !.steady = reader.steady /\ Undisturbed(others)] ELSE reader
    BY DEF Become
<1>2. CASE reader.state = "idle"
    BY <1>1, <1>2 DEF Seen
<1>3. CASE reader.state = "reading"
  <2>1. /\ "steady" \in DOMAIN reader
        /\ IsQuery(reader.query) /\ Accepts(reader.query)
        /\ SoFar(reader, FullList(reader.query), Asked(reader.query).size)
      BY <1>3 DEF Seen
  <2>2. /\ reader'.state = "reading" /\ reader'.query = reader.query /\ reader'.page = reader.page
        /\ reader'.seen = reader.seen /\ "steady" \in DOMAIN reader'
        /\ reader'.steady <=> (reader.steady /\ Undisturbed(others))
    <3>1. PICK steady : steady = (reader.steady /\ Undisturbed(others))
        OBVIOUS
    <3>2. reader' = [reader EXCEPT !.steady = steady]
        BY <1>1, <1>3, <3>1
    <3>3. /\ reader'.state = "reading" /\ reader'.query = reader.query /\ reader'.page = reader.page
          /\ reader'.seen = reader.seen /\ DOMAIN reader' = DOMAIN reader
        BY <1>3, <3>2
    <3>4. reader'.steady = steady
        BY <2>1, <3>2
    <3> QED
        BY <2>1, <3>1, <3>3, <3>4
  <2>3. PICK q : q = reader.query
      OBVIOUS
  <2>4. /\ IsQuery(q) /\ Accepts(q)
        /\ ByAddress(q) => Alike(rows)
      BY <1>3, <2>1, <2>3 DEF AddressesAlike, ByAddress
  <2>5. Accepts(q)' /\ Asked(q)' = Asked(q)
      BY <1>1, <2>4 DEF Accepts, Asked
  <2>6. ASSUME Undisturbed(others) PROVE FullList(q)' = FullList(q)
    <3>1. \/ rows' = rows
          \/ /\ q.status = "" /\ q.sort /= "status"
             /\ \A i \in DOMAIN rows : SameButAge(rows[i], rows'[i])
        BY <1>1, <2>3, <2>6 DEF Undisturbed, SameButAge
    <3>2. DOMAIN rows' = DOMAIN rows
        BY DEF Countable
    <3> QED
        BY <1>1, <2>4, <3>1, <3>2, ListStays
  <2>7. SoFar(reader, FullList(q), Asked(q).size)
      BY <2>1, <2>3
  <2>8. ASSUME reader'.steady
        PROVE  /\ reader'.page * Asked(q)'.size <= Len(FullList(q)')
               /\ reader'.seen = SubSeq(FullList(q)', 1, reader'.page * Asked(q)'.size)
    <3>1. reader.steady /\ FullList(q)' = FullList(q)
        BY <2>2, <2>6, <2>8
    <3>2. reader.page * Asked(q).size <= Len(FullList(q))
          /\ reader.seen = SubSeq(FullList(q), 1, reader.page * Asked(q).size)
        BY <1>3, <2>7, <3>1 DEF SoFar
    <3> QED
        BY <2>2, <2>5, <3>1, <3>2
  <2>9. SoFar(reader', FullList(q)', Asked(q)'.size)
      BY <2>2, <2>8 DEF SoFar
  <2>10. reader'.query = q /\ IsQuery(q)
      BY <2>2, <2>3, <2>4
  <2> QED
      BY <2>2, <2>5, <2>9, <2>10 DEF Seen
<1> QED
    BY <1>1, <1>2, <1>3

(* The size of a page is positive. *)
LEMMA SizeIs == ASSUME NEW size \in PageSizes PROVE size \in Nat \ {0} /\ size \in 1 .. MaxInt
BY ListingAssumption

(* The reader has seen the list up to the present page, whatever happens next. *)
LEMMA SeenStep ==
    ASSUME Seen, Turning, Typed, Typed', Countable, Countable', AddressesAlike, [Next]_vars
    PROVE  Seen'
<1>1. kind \in Kinds /\ kind' = kind /\ Len(order') = Len(order) /\ DOMAIN rows' = DOMAIN rows
    BY TypedStep, CountableStep DEF Typed
<1>2. ASSUME NEW q, IsQuery(q), Accepts(q), NEW a, a.page \in Nat \ {0}, a.size \in PageSizes,
             a.size = Asked(q).size, NEW seen, NEW steady,
             Told(reader', q, a, FullList(q), seen, steady), "steady" \in DOMAIN reader',
             steady => /\ (a.page - 1) * a.size <= Len(FullList(q))
                       /\ seen = SubSeq(FullList(q), 1, (a.page - 1) * a.size),
             UNCHANGED <<kind, rows, clusters, order>>
      PROVE  Seen'
  <2>1. PICK r, list : r = reader' /\ list = FullList(q)
      OBVIOUS
  <2>2. Told(r, q, a, list, seen, steady) /\ r.query = q
      BY <1>2, <2>1 DEF Told
  <2>3. list \in Seq(DOMAIN rows)
      BY <2>1, FullListIs DEF Once
  <2>4. a.size \in Nat \ {0}
      BY <1>2, SizeIs
  <2>5. steady => /\ (a.page - 1) * a.size <= Len(list)
                  /\ seen = SubSeq(list, 1, (a.page - 1) * a.size)
      BY <1>2, <2>1
  <2>6. SoFar(r, list, a.size)
      BY <1>2, <2>2, <2>3, <2>4, <2>5, GoesOn
  <2>7. FullList(q)' = FullList(q)
      BY <1>2, <1>1, ListStays
  <2>8. Accepts(q)' /\ Asked(q)' = Asked(q)
      BY <1>1, <1>2 DEF Accepts, Asked
  <2>9. SoFar(reader', FullList(q)', Asked(q)'.size)
      BY <1>2, <2>1, <2>6, <2>7, <2>8
  <2>10. reader'.query = q
      BY <2>1, <2>2
  <2> QED
      BY <1>2, <2>8, <2>9, <2>10 DEF Seen
<1>3. CASE Pass \/ Reload \/ Change
  <2>1. PICK others : Become(others)
      BY <1>3 DEF Pass, Reload, Change
  <2>2. order' = order \/ Reload
      BY <1>3 DEF Pass, Change
  <2> QED
      BY <1>1, <2>1, <2>2, StaysSeen
<1>4. CASE Ask
  <2>1. PICK q \in Queries[kind][Len(order)] :
          reader' = IF ~Accepts(q) THEN [state |-> "refused", query |-> q]
                    ELSE Read(q, q.page, <<>>, q.page \in {0, 1})
      BY <1>4 DEF Ask
  <2>2. CASE ~Accepts(q)
      BY <2>1, <2>2 DEF Seen
  <2>3. CASE Accepts(q)
    <3>1. IsQuery(q)
        BY <2>1 DEF Countable
    <3>2. PICK steady : steady = (q.page \in {0, 1})
        OBVIOUS
    <3>3. PICK a : a = Asked(q)
        OBVIOUS
    <3>4. /\ Told(reader', q, a, FullList(q), <<>>, steady)
          /\ a.page \in Nat \ {0} /\ a.size \in PageSizes
          /\ q.page \in {0, 1} => a.page = 1
      <4>1. /\ Told(Read(q, q.page, <<>>, steady), q, Asked(q), FullList(q), <<>>, steady)
            /\ Asked(q).page \in Nat \ {0} /\ Asked(q).size \in PageSizes
            /\ q.page \in {0, 1} => Asked(q).page = 1
          BY <1>1, <2>3, <3>1, AskTells
      <4>2. reader' = Read(q, q.page, <<>>, steady)
          BY <2>1, <2>3, <3>2
      <4> QED
          BY <3>3, <4>1, <4>2
    <3>5. "steady" \in DOMAIN reader'
        BY <2>1, <2>3 DEF Read
    <3>6. ASSUME steady
          PROVE  /\ (a.page - 1) * a.size <= Len(FullList(q))
                 /\ <<>> = SubSeq(FullList(q), 1, (a.page - 1) * a.size)
      <4>1. a.page = 1 /\ a.size \in Nat
          BY <3>2, <3>4, <3>6, SizeIs
      <4>2. (a.page - 1) * a.size = 0
          BY <4>1
      <4>3. FullList(q) \in Seq(DOMAIN rows) /\ Len(FullList(q)) \in Nat
          BY FullListIs DEF Once
      <4>4. SubSeq(FullList(q), 1, 0) = <<>>
          BY <4>3, WholeSlice
      <4> QED
          BY <4>2, <4>3, <4>4
    <3>7. UNCHANGED <<kind, rows, clusters, order>>
        BY <1>4 DEF Ask
    <3> QED
        BY <1>2, <2>3, <3>1, <3>3, <3>4, <3>5, <3>6, <3>7
  <2> QED
      BY <2>2, <2>3
<1>5. CASE Turn
  <2>1. reader.state = "reading" /\ reader' = Read(reader.query, reader.page + 1, reader.seen, reader.steady)
      BY <1>5 DEF Turn
  <2>2. PICK q, size, p, seen, steady : /\ q = reader.query /\ size = Asked(q).size /\ p = reader.page
                                        /\ seen = reader.seen /\ steady = reader.steady
      OBVIOUS
  <2>3. /\ IsQuery(q) /\ size \in PageSizes /\ p \in Nat \ {0} /\ p * size < Len(order)
      BY <2>1, <2>2 DEF Turning
  <2>4. /\ Accepts(q)
        /\ steady => p * size <= Len(FullList(q)) /\ seen = SubSeq(FullList(q), 1, p * size)
      BY <2>1, <2>2 DEF Seen, SoFar
  <2>5. PICK a : /\ Told(Read(q, p + 1, seen, steady), q, a, FullList(q), seen, steady)
                 /\ a.page = p + 1 /\ a.size = size
      BY <1>1, <2>2, <2>3, TurnTells
  <2>6. Told(reader', q, a, FullList(q), seen, steady)
      BY <2>1, <2>2, <2>5
  <2>7. "steady" \in DOMAIN reader'
      BY <2>1 DEF Read
  <2>8. a.page \in Nat \ {0} /\ (a.page - 1) * a.size = p * size
      BY <2>3, <2>5
  <2>9. UNCHANGED <<kind, rows, clusters, order>>
      BY <1>5 DEF Turn
  <2> QED
      BY <1>2, <2>2, <2>3, <2>4, <2>5, <2>6, <2>7, <2>8, <2>9
<1>6. CASE UNCHANGED vars
  <2>1. /\ kind' = kind /\ rows' = rows /\ clusters' = clusters /\ order' = order /\ reader' = reader
      BY <1>6 DEF vars
  <2>2. ASSUME reader.state \in {"reading", "done"} PROVE Seen'
    <3>1. PICK q : q = reader.query
        OBVIOUS
    <3>2. /\ "steady" \in DOMAIN reader /\ IsQuery(q) /\ Accepts(q)
          /\ SoFar(reader, FullList(q), Asked(q).size)
        BY <2>2, <3>1 DEF Seen
    <3>3. FullList(q)' = FullList(q)
        BY <1>1, <2>1, <3>2, ListStays
    <3>4. Accepts(q)' /\ Asked(q)' = Asked(q)
        BY <2>1, <3>2 DEF Accepts, Asked
    <3> QED
        BY <2>1, <3>1, <3>2, <3>3, <3>4 DEF Seen
  <2> QED
      BY <2>1, <2>2 DEF Seen
<1> QED
    BY <1>3, <1>4, <1>5, <1>6 DEF Next

(* A query for one large page. *)
AtOnce(q, size) == [q EXCEPT !.page = 1, !.size = size]

(* A query for one large page is answered from the same list. *)
LEMMA AllAtOnce ==
    ASSUME NEW q, IsQuery(q), NEW size \in Int
    PROVE  /\ IsQuery(AtOnce(q, size)) /\ FullList(AtOnce(q, size)) = FullList(q)
           /\ AtOnce(q, size).page = 1 /\ AtOnce(q, size).size = size
<1>0. PICK n \in Int : n = 1
    OBVIOUS
<1>1. PICK whole : whole = [q EXCEPT !.page = n, !.size = size]
    OBVIOUS
<1>2. IsQuery(whole) /\ whole.page = n /\ whole.size = size
  <2>1. DOMAIN q = {"page", "size", "sort", "order", "status", "role", "group", "search"}
      BY DEF IsQuery
  <2>2. DOMAIN whole = DOMAIN q /\ whole = [x \in DOMAIN q |-> whole[x]]
      BY <1>1, <2>1
  <2>3. whole.page = n /\ whole.size = size
      BY <1>1, <2>1
  <2>4. whole = [page |-> whole.page, size |-> whole.size, sort |-> whole.sort, order |-> whole.order,
                 status |-> whole.status, role |-> whole.role, group |-> whole.group,
                 search |-> whole.search]
      BY <2>1, <2>2
  <2> QED
      BY <2>3, <2>4 DEF IsQuery
<1>3. FullList(whole) = FullList(q)
  <2>1. FullList([q EXCEPT !.page = n, !.size = size]) = FullList(q)
      BY OneListForAllPages
  <2> QED
      BY <1>1, <2>1
<1>4. AtOnce(q, size) = whole
    BY <1>0, <1>1 DEF AtOnce
<1> QED
    BY <1>0, <1>2, <1>3, <1>4

(***************************************************************************)
(* The pages of a list (Devices, Instances, Nodes, Services, Hosts): a       *)
(* reader who turns pages sees every row that matches once and no other,     *)
(* although snapshots are loaded in the meantime that list the same things   *)
(* in another order; provided that the addresses of a list of addresses are  *)
(* all IP addresses or all none, since others have no one order.             *)
(***************************************************************************)
THEOREM PagesPartitionLists == Spec /\ []AddressesAlike => []PagesPartition
<1>1. Init => Seen
    BY DEF Init, Idle, Seen
<1>2. Seen /\ Turning /\ Typed /\ Typed' /\ Countable /\ Countable' /\ AddressesAlike /\ [Next]_vars => Seen'
    BY SeenStep
<1>3. Seen /\ Typed /\ Countable => PagesPartition
  <2> SUFFICES ASSUME Seen, Typed, Countable, reader.state = "done", reader.steady
               PROVE  LET all == Page([reader.query EXCEPT !.page = 1, !.size = MaxInt])
                      IN  /\ reader.seen = all.ids
                          /\ IsInjective(reader.seen)
                          /\ Len(reader.seen) = reader.total
      BY DEF PagesPartition
  <2>1. PICK q, list : q = reader.query /\ list = FullList(q)
      OBVIOUS
  <2>2. IsQuery(q) /\ Accepts(q) /\ reader.seen = list /\ reader.total = Len(list)
      BY <2>1 DEF Seen, SoFar
  <2>3. /\ list \in Once(DOMAIN rows) /\ list \in Seq(DOMAIN rows) /\ Len(list) \in 0 .. MaxInt
        /\ MaxInt \in Nat \ {0}
      BY <2>1, FullListIs, ListingAssumption DEF Once, Countable
  <2>4. PICK whole : /\ whole = AtOnce(q, MaxInt)
                     /\ IsQuery(whole) /\ FullList(whole) = list
                     /\ whole.page = 1 /\ whole.size = MaxInt
      BY <2>1, <2>2, <2>3, AllAtOnce
  <2>5. PICK a : a = Asked(whole)
      OBVIOUS
  <2>6. a.page = 1 /\ a.size = MaxInt
      BY <2>3, <2>4, <2>5, DefaultedIs DEF Asked
  <2>7. Offset(a, Len(list)) = 0
      BY <2>3, <2>6 DEF Offset, Lesser
  <2>8. Bounded(a, Len(list))
      BY <2>3, <2>6, <2>7 DEF Bounded
  <2>9. Page(whole).ids = SubSeq(list, Offset(a, Len(list)) + 1,
                                 Lesser(Offset(a, Len(list)) + a.size, Len(list)))
      BY <2>4, <2>5, <2>8, PageSlices DEF Typed
  <2>10. Lesser(Offset(a, Len(list)) + a.size, Len(list)) = Len(list)
      BY <2>3, <2>6, <2>7 DEF Lesser
  <2>11. Page(whole).ids = list
      BY <2>3, <2>7, <2>9, <2>10, WholeSlice
  <2>12. IsInjective(list)
      BY <2>3 DEF Once
  <2>13. Page(AtOnce(reader.query, MaxInt)).ids = reader.seen
      BY <2>1, <2>2, <2>4, <2>11
  <2> QED
      BY <2>1, <2>2, <2>12, <2>13 DEF AtOnce
<1> QED
    BY <1>1, <1>2, <1>3, AlwaysTyped, AlwaysCountable, AlwaysTurning, PTL DEF Spec

(* What a row that is sorted by its figure is compared by. *)
LEMMA NumberKey ==
    ASSUME kind \in Kinds, NEW i, NEW row, NEW q, q.sort = "number"
    PROVE  KeyOf(i, row, q).present <=> row.number /= None
<1>0. kind \in {"disk", "mysql", "redis", "elasticsearch", "rabbitmq", "java", "host"}
    BY ViewsAssumption DEF ViewsAssumption
<1>1. CASE kind = "disk"
  <2>1. Disk!SortKey(row, "number") = Disk!Optional(row.number)
      BY DEF Disk!SortKey
  <2>2. Disk!Optional(row.number).present <=> row.number /= None
      BY DEF Disk!Optional, Disk!None, None
  <2> QED
      BY <1>1, <2>1, <2>2 DEF KeyOf
<1>2. CASE kind = "mysql"
  <2>1. MySQL!SortKey(row, "number") = MySQL!Optional(row.number)
      BY DEF MySQL!SortKey
  <2>2. MySQL!Optional(row.number).present <=> row.number /= None
      BY DEF MySQL!Optional, MySQL!None, None
  <2> QED
      BY <1>2, <2>1, <2>2 DEF KeyOf
<1>3. CASE kind = "redis"
  <2>1. Redis!SortKey(row, "number") = Redis!Optional(row.number)
      BY DEF Redis!SortKey
  <2>2. Redis!Optional(row.number).present <=> row.number /= None
      BY DEF Redis!Optional, Redis!None, None
  <2> QED
      BY <1>3, <2>1, <2>2 DEF KeyOf
<1>4. CASE kind = "elasticsearch"
  <2>1. Elasticsearch!SortKey(row, clusters, "number") = Elasticsearch!Optional(row.number)
      BY DEF Elasticsearch!SortKey
  <2>2. Elasticsearch!Optional(row.number).present <=> row.number /= None
      BY DEF Elasticsearch!Optional, Elasticsearch!None, None
  <2> QED
      BY <1>4, <2>1, <2>2 DEF KeyOf
<1>5. CASE kind = "rabbitmq"
  <2>1. RabbitMQ!SortKey(row, "number") = RabbitMQ!Optional(row.number)
      BY DEF RabbitMQ!SortKey
  <2>2. RabbitMQ!Optional(row.number).present <=> row.number /= None
      BY DEF RabbitMQ!Optional, RabbitMQ!None, None
  <2> QED
      BY <1>5, <2>1, <2>2 DEF KeyOf
<1>6. CASE kind = "java"
  <2>1. Java!SortKey(row, "number") = Java!Optional(row.number)
      BY DEF Java!SortKey
  <2>2. Java!Optional(row.number).present <=> row.number /= None
      BY DEF Java!Optional, Java!None, None
  <2> QED
      BY <1>6, <2>1, <2>2 DEF KeyOf
<1>7. CASE kind = "host"
  <2>1. Hosts!SortKey(i, row, "number") = Hosts!Optional(row.number)
      BY DEF Hosts!SortKey
  <2>2. Hosts!Optional(row.number).present <=> row.number /= None
      BY DEF Hosts!Optional, Hosts!None, None
  <2> QED
      BY <1>7, <2>1, <2>2 DEF KeyOf
<1> QED
    BY <1>0, <1>1, <1>2, <1>3, <1>4, <1>5, <1>6, <1>7

(* What lists that are sorted by a figure have been seen of. *)
SeenByNumber == reader.state \in {"reading", "done"} /\ reader.query.sort = "number" => Seen

(***************************************************************************)
(* What has no figure comes last in a list that is sorted by the figure,     *)
(* ascending or descending, on whichever page it is and whatever snapshots    *)
(* are loaded while the pages are turned (compare... of the services).       *)
(***************************************************************************)
THEOREM MissingComesLast == Spec => []MissingLast
<1>1. Init => SeenByNumber
    BY DEF Init, Idle, SeenByNumber
<1>2. ASSUME SeenByNumber, Turning, Typed, Typed', Countable, Countable', [Next]_vars
      PROVE  SeenByNumber'
  <2>1. CASE reader.state \in {"reading", "done"} /\ reader.query.sort /= "number"
    <3>1. reader'.state \in {"reading", "done"} => reader'.query = reader.query
      <4>1. CASE Pass \/ Reload \/ Change
        <5>1. PICK others : Become(others)
            BY <4>1 DEF Pass, Reload, Change
        <5> QED
            BY <5>1 DEF Become
      <4>2. CASE Turn
          BY <4>2 DEF Turn, Read
      <4>3. CASE UNCHANGED vars
          BY <4>3 DEF vars
      <4>4. CASE Ask
        <5>1. reader.state = "idle"
            BY <4>4 DEF Ask
        <5> QED
            BY <2>1, <5>1
      <4> QED
          BY <1>2, <4>1, <4>2, <4>3, <4>4 DEF Next
    <3> QED
        BY <2>1, <3>1 DEF SeenByNumber
  <2>2. CASE reader.state \notin {"reading", "done"} \/ reader.query.sort = "number"
    <3>1. Seen
      <4>1. CASE reader.state \notin {"reading", "done"}
          BY <4>1 DEF Seen
      <4>2. CASE reader.state \in {"reading", "done"}
          BY <1>2, <2>2, <4>2 DEF SeenByNumber
      <4> QED
          BY <4>1, <4>2
    <3>2. AddressesAlike
        BY <2>2 DEF AddressesAlike
    <3>3. Seen'
        BY <1>2, <3>1, <3>2, SeenStep
    <3> QED
        BY <3>3 DEF SeenByNumber
  <2> QED
      BY <2>1, <2>2
<1>3. SeenByNumber /\ Typed /\ Countable => MissingLast
  <2> SUFFICES ASSUME SeenByNumber, Typed, Countable,
                      reader.state = "done", reader.steady, reader.query.sort = "number",
                      NEW i \in DOMAIN reader.seen, NEW j \in DOMAIN reader.seen,
                      i < j, rows[reader.seen[i]].number = None
               PROVE  rows[reader.seen[j]].number = None
      BY DEF MissingLast
  <2>1. PICK q, list : q = reader.query /\ list = FullList(q)
      OBVIOUS
  <2>2. IsQuery(q) /\ Accepts(q) /\ reader.seen = list
      BY <2>1 DEF SeenByNumber, Seen, SoFar
  <2>3. IsOrder(DOMAIN rows, BeforeOf(q))
      BY <2>1, <2>2, OneBefore DEF ByAddress
  <2>4. Selected(order, MatchingOf(q)) \in Once(DOMAIN rows)
      BY SelectedIs DEF Countable
  <2>5. Ordered(list, BeforeOf(q))
      BY <2>1, <2>3, <2>4, SortedOrdered DEF FullList
  <2>6. list \in Seq(DOMAIN rows) /\ i \in 1 .. Len(list) /\ j \in 1 .. Len(list)
      BY <2>1, <2>2, FullListIs DEF Once
  <2>7. PICK x \in DOMAIN rows, y \in DOMAIN rows : x = list[i] /\ y = list[j]
      BY <2>6
  <2>8. BeforeOf(q)[<<x, y>>]
      BY <2>5, <2>6, <2>7 DEF Ordered
  <2> DEFINE keys == [k \in DOMAIN rows |-> KeyOf(k, rows[k], q)]
             keyed(k) == [id |-> k, present |-> keys[k].present, keys |-> keys[k].keys]
  <2>9. BeforeOf(q) = KeyOrder(keys, q.order)
      BY <2>1 DEF BeforeOf, ByAddress
  <2>10. keys[x].present <=> rows[x].number /= None
    <3>1. KeyOf(x, rows[x], q).present <=> rows[x].number /= None
        BY <2>1, NumberKey DEF Typed
    <3> QED
        BY <3>1
  <2>11. keys[y].present <=> rows[y].number /= None
    <3>1. KeyOf(y, rows[y], q).present <=> rows[y].number /= None
        BY <2>1, NumberKey DEF Typed
    <3> QED
        BY <3>1
  <2>12. DOMAIN keys = DOMAIN rows
      OBVIOUS
  <2> HIDE DEF keys
  <2>13. KeyOrder(keys, q.order)[<<x, y>>] <=> Before(keyed(x), keyed(y), q.order)
      BY <2>12 DEF KeyOrder
  <2>14. Before(keyed(x), keyed(y), q.order)
      BY <2>8, <2>9, <2>13
  <2>15. (keyed(x).present /= keyed(y).present) => keyed(x).present
      BY <2>14 DEF Before
  <2>16. keys[x].present /= keys[y].present => keys[x].present
      BY <2>15
  <2>17. rows[x].number = None
      BY <2>2, <2>7
  <2>18. rows[y].number = None
      BY <2>10, <2>11, <2>16, <2>17
  <2> QED
      BY <2>2, <2>7, <2>18
<1> QED
    BY <1>1, <1>2, <1>3, AlwaysTyped, AlwaysCountable, AlwaysTurning, PTL DEF Spec
=============================================================================
