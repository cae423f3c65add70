--------------------------- MODULE ModuleViewsProofs ---------------------------
(***************************************************************************)
(* Theorems about the statuses of the services: a status is explained by    *)
(* the alerts the thing counts in, and time alone never lowers one.         *)
(***************************************************************************)
EXTENDS ModuleViews, TLAPS

-----------------------------------------------------------------------------
(* Levels *)

LEMMA Ranks ==
    /\ Rank["normal"] = 0 /\ Rank["unknown"] = 1 /\ Rank["warning"] = 2 /\ Rank["critical"] = 3
    /\ \A l \in Levels : Rank[l] \in 0 .. 3
    /\ \A l, m \in Levels : Rank[l] = Rank[m] => l = m
BY DEF Rank, Levels

LEMMA HighestOf ==
    ASSUME NEW S \in SUBSET Levels
    PROVE  /\ Highest(S) \in S \cup {"normal"}
           /\ Highest(S) \in Levels
           /\ \A l \in S \cup {"normal"} : Rank[l] <= Rank[Highest(S)]
<1>1. \E l \in S \cup {"normal"} : \A m \in S : Rank[m] <= Rank[l]
  <2>1. CASE "critical" \in S
      BY <2>1, Ranks
  <2>2. CASE "critical" \notin S /\ "warning" \in S
      BY <2>2, Ranks DEF Levels
  <2>3. CASE "critical" \notin S /\ "warning" \notin S /\ "unknown" \in S
      BY <2>3, Ranks DEF Levels
  <2>4. CASE S \subseteq {"normal"}
      BY <2>4, Ranks
  <2> QED
      BY <2>1, <2>2, <2>3, <2>4 DEF Levels
<1>2. Highest(S) \in S \cup {"normal"} /\ \A m \in S : Rank[m] <= Rank[Highest(S)]
    BY <1>1 DEF Highest
<1>3. Highest(S) \in Levels
    BY <1>2 DEF Levels
<1> QED
    BY <1>2, <1>3, Ranks

(* A level that is the highest of some is their highest. *)
LEMMA HighestIs ==
    ASSUME NEW S \in SUBSET Levels, NEW l \in S \cup {"normal"}, \A m \in S : Rank[m] <= Rank[l]
    PROVE  Highest(S) = l
<1>1. l \in Levels /\ "normal" \in Levels
    BY DEF Levels
<1>2. Rank[Highest(S)] <= Rank[l] /\ Rank[l] <= Rank[Highest(S)]
    BY <1>1, HighestOf, Ranks
<1> QED
    BY <1>1, <1>2, HighestOf, Ranks

(* Two sets have the same highest level when neither has a higher one than the other. *)
LEMMA SameHighest ==
    ASSUME NEW S \in SUBSET Levels, NEW T \in SUBSET Levels,
           \A l \in S : Rank[l] <= Rank[Highest(T)],
           \A l \in T : Rank[l] <= Rank[Highest(S)]
    PROVE  Highest(S) = Highest(T)
<1>1. Highest(S) \in Levels /\ Highest(T) \in Levels
    BY HighestOf
<1>2. Rank[Highest(S)] <= Rank[Highest(T)] /\ Rank[Highest(T)] <= Rank[Highest(S)]
    BY HighestOf, Ranks
<1> QED
    BY <1>1, <1>2, Ranks

(* The highest level rises with those it is taken from. *)
LEMMA HighestRises ==
    ASSUME NEW S \in SUBSET Levels, NEW T \in SUBSET Levels,
           \A l \in S : \E m \in T : Rank[l] <= Rank[m]
    PROVE  Rank[Highest(S)] <= Rank[Highest(T)]
<1>1. Highest(S) \in Levels /\ Highest(T) \in Levels /\ Highest(S) \in S \cup {"normal"}
    BY HighestOf
<1>2. CASE Highest(S) \in S
  <2>1. PICK m \in T : Rank[Highest(S)] <= Rank[m]
      BY <1>2
  <2>2. Rank[m] <= Rank[Highest(T)]
      BY HighestOf
  <2> QED
      BY <1>1, <2>1, <2>2, Ranks
<1>3. CASE Highest(S) = "normal"
    BY <1>1, <1>3, Ranks
<1> QED
    BY <1>1, <1>2, <1>3

(* A set of findings about one thing. *)
Findings(S, precedence) ==
    /\ S /= {}
    /\ \A a \in S : a.level \in Levels /\ precedence[a.source] \in 0 .. 6

LEMMA WorstOf ==
    ASSUME NEW S, NEW precedence, Findings(S, precedence)
    PROVE  /\ Worst(S, precedence) \in S
           /\ Worst(S, precedence).level = Highest({a.level : a \in S})
<1> DEFINE P(a) == precedence[a.source]
           Ls == {a.level : a \in S}
           top == Highest(Ls)
           T == {a \in S : a.level = top}
<1>1. Ls \in SUBSET Levels
    BY DEF Findings
<1>2. T /= {} /\ \A a \in S : Rank[a.level] <= Rank[top]
  <2>1. top \in Ls \cup {"normal"} /\ \A l \in Ls : Rank[l] <= Rank[top]
      BY <1>1, HighestOf
  <2>2. CASE top \in Ls
      BY <2>1, <2>2
  <2>3. CASE top = "normal"
    <3>1. PICK a \in S : TRUE
        BY DEF Findings
    <3>2. a.level \in Levels /\ Rank[a.level] <= 0
        BY <2>1, <2>3, <3>1, Ranks DEF Findings
    <3>3. a.level = "normal"
        BY <3>2, Ranks DEF Levels
    <3> QED
        BY <2>1, <2>3, <3>3
  <2> QED
      BY <2>1, <2>2, <2>3
<1>3. \E a \in T : \A b \in T : precedence[b.source] <= precedence[a.source]
  <2>1. \A a \in T : precedence[a.source] \in 0 .. 6
      BY DEF Findings
  <2> HIDE DEF T
  <2>2. CASE \E a \in T : precedence[a.source] = 6
      BY <2>1, <2>2
  <2>3. CASE ~(\E a \in T : precedence[a.source] \in 6 .. 6) /\ \E a \in T : precedence[a.source] = 5
      BY <2>1, <2>3
  <2>4. CASE ~(\E a \in T : precedence[a.source] \in 5 .. 6) /\ \E a \in T : precedence[a.source] = 4
      BY <2>1, <2>4
  <2>5. CASE ~(\E a \in T : precedence[a.source] \in 4 .. 6) /\ \E a \in T : precedence[a.source] = 3
      BY <2>1, <2>5
  <2>6. CASE ~(\E a \in T : precedence[a.source] \in 3 .. 6) /\ \E a \in T : precedence[a.source] = 2
      BY <2>1, <2>6
  <2>7. CASE ~(\E a \in T : precedence[a.source] \in 2 .. 6) /\ \E a \in T : precedence[a.source] = 1
      BY <2>1, <2>7
  <2>8. CASE ~(\E a \in T : precedence[a.source] \in 1 .. 6)
      BY <1>2, <2>1, <2>8
  <2> QED
      BY <2>1, <2>2, <2>3, <2>4, <2>5, <2>6, <2>7, <2>8
<1>4. PICK w \in T : \A b \in T : precedence[b.source] <= precedence[w.source]
    BY <1>3
<1>5. \A a \in S : a.level \in Levels /\ precedence[a.source] \in 0 .. 6 /\ Rank[a.level] \in 0 .. 3
    BY Ranks DEF Findings
<1>6. \A b \in S : ~Beats(b, w, precedence)
  <2> TAKE b \in S
  <2>1. w \in S /\ w.level = top /\ Rank[b.level] <= Rank[w.level]
      BY <1>2, <1>4
  <2>2. Rank[b.level] = Rank[w.level] => b \in T
      BY <1>5, <2>1, Ranks
  <2>3. Rank[b.level] = Rank[w.level] => precedence[b.source] <= precedence[w.source]
      BY <1>4, <2>2
  <2> QED
      BY <1>5, <2>1, <2>3 DEF Beats
<1>7. /\ Worst(S, precedence) \in S
      /\ \A b \in S : ~Beats(b, Worst(S, precedence), precedence)
    BY <1>4, <1>6 DEF Worst
<1>8. Rank[w.level] <= Rank[Worst(S, precedence).level]
    BY <1>4, <1>5, <1>7 DEF Beats
<1>9. Rank[Worst(S, precedence).level] <= Rank[top]
    BY <1>2, <1>7
<1> QED
    BY <1>4, <1>5, <1>7, <1>8, <1>9, Ranks

-----------------------------------------------------------------------------
(* Every service has the levels, the choice among findings and the meaning  *)
(* of figures and ages from the same code.                                  *)

LEMMA DiskSame ==
    /\ \A S : Disk!Highest(S) = Highest(S)
    /\ \A S, p : Disk!Worst(S, p) = Worst(S, p)
    /\ \A age, u, v : Disk!Collected(age, u, v) = Collected(age, u, v)
    /\ \A usage, missing : Disk!UsageLevel(usage, missing) = UsageLevel(usage, missing)
    /\ \A flag : Disk!FlagLevel(flag) = FlagLevel(flag)
    /\ \A level, source : Disk!Found(level, source) = Found(level, source)
    /\ Disk!Usages = Usages /\ Disk!Flags = Flags
<1>1. \A S : Disk!Highest(S) = Highest(S)
    BY DEF Disk!Highest, Highest, Disk!Rank, Rank
<1>2. \A S, p : Disk!Worst(S, p) = Worst(S, p)
    BY DEF Disk!Worst, Worst, Disk!Beats, Beats, Disk!Rank, Rank
<1>3. \A age, u, v : Disk!Collected(age, u, v) = Collected(age, u, v)
    BY DEF Disk!Collected, Collected, Disk!NotTracked, NotTracked, Disk!NotSeen, NotSeen,
           Disk!Age!LevelAt, Age!LevelAt
<1>4. /\ \A usage, missing : Disk!UsageLevel(usage, missing) = UsageLevel(usage, missing)
      /\ \A flag : Disk!FlagLevel(flag) = FlagLevel(flag)
      /\ \A level, source : Disk!Found(level, source) = Found(level, source)
      /\ Disk!Usages = Usages /\ Disk!Flags = Flags
    BY DEF Disk!UsageLevel, UsageLevel, Disk!FlagLevel, FlagLevel, Disk!Found, Found,
           Disk!Usages, Usages, Disk!Flags, Flags
<1> QED
    BY <1>1, <1>2, <1>3, <1>4

LEMMA MySQLSame ==
    /\ \A S : MySQL!Highest(S) = Highest(S)
    /\ \A S, p : MySQL!Worst(S, p) = Worst(S, p)
    /\ \A age, u, v : MySQL!Collected(age, u, v) = Collected(age, u, v)
    /\ \A usage, missing : MySQL!UsageLevel(usage, missing) = UsageLevel(usage, missing)
    /\ \A flag : MySQL!FlagLevel(flag) = FlagLevel(flag)
    /\ \A level, source : MySQL!Found(level, source) = Found(level, source)
    /\ MySQL!Usages = Usages /\ MySQL!Flags = Flags
<1>1. \A S : MySQL!Highest(S) = Highest(S)
    BY DEF MySQL!Highest, Highest, MySQL!Rank, Rank
<1>2. \A S, p : MySQL!Worst(S, p) = Worst(S, p)
    BY DEF MySQL!Worst, Worst, MySQL!Beats, Beats, MySQL!Rank, Rank
<1>3. \A age, u, v : MySQL!Collected(age, u, v) = Collected(age, u, v)
    BY DEF MySQL!Collected, Collected, MySQL!NotTracked, NotTracked, MySQL!NotSeen, NotSeen,
           MySQL!Age!LevelAt, Age!LevelAt
<1>4. /\ \A usage, missing : MySQL!UsageLevel(usage, missing) = UsageLevel(usage, missing)
      /\ \A flag : MySQL!FlagLevel(flag) = FlagLevel(flag)
      /\ \A level, source : MySQL!Found(level, source) = Found(level, source)
      /\ MySQL!Usages = Usages /\ MySQL!Flags = Flags
    BY DEF MySQL!UsageLevel, UsageLevel, MySQL!FlagLevel, FlagLevel, MySQL!Found, Found,
           MySQL!Usages, Usages, MySQL!Flags, Flags
<1> QED
    BY <1>1, <1>2, <1>3, <1>4

LEMMA RedisSame ==
    /\ \A S : Redis!Highest(S) = Highest(S)
    /\ \A S, p : Redis!Worst(S, p) = Worst(S, p)
    /\ \A age, u, v : Redis!Collected(age, u, v) = Collected(age, u, v)
    /\ \A usage, missing : Redis!UsageLevel(usage, missing) = UsageLevel(usage, missing)
    /\ \A flag : Redis!FlagLevel(flag) = FlagLevel(flag)
    /\ \A level, source : Redis!Found(level, source) = Found(level, source)
    /\ Redis!Usages = Usages /\ Redis!Flags = Flags
<1>1. \A S : Redis!Highest(S) = Highest(S)
    BY DEF Redis!Highest, Highest, Redis!Rank, Rank
<1>2. \A S, p : Redis!Worst(S, p) = Worst(S, p)
    BY DEF Redis!Worst, Worst, Redis!Beats, Beats, Redis!Rank, Rank
<1>3. \A age, u, v : Redis!Collected(age, u, v) = Collected(age, u, v)
    BY DEF Redis!Collected, Collected, Redis!NotTracked, NotTracked, Redis!NotSeen, NotSeen,
           Redis!Age!LevelAt, Age!LevelAt
<1>4. /\ \A usage, missing : Redis!UsageLevel(usage, missing) = UsageLevel(usage, missing)
      /\ \A flag : Redis!FlagLevel(flag) = FlagLevel(flag)
      /\ \A level, source : Redis!Found(level, source) = Found(level, source)
      /\ Redis!Usages = Usages /\ Redis!Flags = Flags
    BY DEF Redis!UsageLevel, UsageLevel, Redis!FlagLevel, FlagLevel, Redis!Found, Found,
           Redis!Usages, Usages, Redis!Flags, Flags
<1> QED
    BY <1>1, <1>2, <1>3, <1>4

LEMMA ElasticsearchSame ==
    /\ \A S : Elasticsearch!Highest(S) = Highest(S)
    /\ \A S, p : Elasticsearch!Worst(S, p) = Worst(S, p)
    /\ \A age, u, v : Elasticsearch!Collected(age, u, v) = Collected(age, u, v)
    /\ \A usage, missing : Elasticsearch!UsageLevel(usage, missing) = UsageLevel(usage, missing)
    /\ \A flag : Elasticsearch!FlagLevel(flag) = FlagLevel(flag)
    /\ \A level, source : Elasticsearch!Found(level, source) = Found(level, source)
    /\ Elasticsearch!Usages = Usages /\ Elasticsearch!Flags = Flags
<1>1. \A S : Elasticsearch!Highest(S) = Highest(S)
    BY DEF Elasticsearch!Highest, Highest, Elasticsearch!Rank, Rank
<1>2. \A S, p : Elasticsearch!Worst(S, p) = Worst(S, p)
    BY DEF Elasticsearch!Worst, Worst, Elasticsearch!Beats, Beats, Elasticsearch!Rank, Rank
<1>3. \A age, u, v : Elasticsearch!Collected(age, u, v) = Collected(age, u, v)
    BY DEF Elasticsearch!Collected, Collected, Elasticsearch!NotTracked, NotTracked, Elasticsearch!NotSeen, NotSeen,
           Elasticsearch!Age!LevelAt, Age!LevelAt
<1>4. /\ \A usage, missing : Elasticsearch!UsageLevel(usage, missing) = UsageLevel(usage, missing)
      /\ \A flag : Elasticsearch!FlagLevel(flag) = FlagLevel(flag)
      /\ \A level, source : Elasticsearch!Found(level, source) = Found(level, source)
      /\ Elasticsearch!Usages = Usages /\ Elasticsearch!Flags = Flags
    BY DEF Elasticsearch!UsageLevel, UsageLevel, Elasticsearch!FlagLevel, FlagLevel, Elasticsearch!Found, Found,
           Elasticsearch!Usages, Usages, Elasticsearch!Flags, Flags
<1> QED
    BY <1>1, <1>2, <1>3, <1>4

LEMMA RabbitMQSame ==
    /\ \A S : RabbitMQ!Highest(S) = Highest(S)
    /\ \A S, p : RabbitMQ!Worst(S, p) = Worst(S, p)
    /\ \A age, u, v : RabbitMQ!Collected(age, u, v) = Collected(age, u, v)
    /\ \A usage, missing : RabbitMQ!UsageLevel(usage, missing) = UsageLevel(usage, missing)
    /\ \A flag : RabbitMQ!FlagLevel(flag) = FlagLevel(flag)
    /\ \A level, source : RabbitMQ!Found(level, source) = Found(level, source)
    /\ RabbitMQ!Usages = Usages /\ RabbitMQ!Flags = Flags
<1>1. \A S : RabbitMQ!Highest(S) = Highest(S)
    BY DEF RabbitMQ!Highest, Highest, RabbitMQ!Rank, Rank
<1>2. \A S, p : RabbitMQ!Worst(S, p) = Worst(S, p)
    BY DEF RabbitMQ!Worst, Worst, RabbitMQ!Beats, Beats, RabbitMQ!Rank, Rank
<1>3. \A age, u, v : RabbitMQ!Collected(age, u, v) = Collected(age, u, v)
    BY DEF RabbitMQ!Collected, Collected, RabbitMQ!NotTracked, NotTracked, RabbitMQ!NotSeen, NotSeen,
           RabbitMQ!Age!LevelAt, Age!LevelAt
<1>4. /\ \A usage, missing : RabbitMQ!UsageLevel(usage, missing) = UsageLevel(usage, missing)
      /\ \A flag : RabbitMQ!FlagLevel(flag) = FlagLevel(flag)
      /\ \A level, source : RabbitMQ!Found(level, source) = Found(level, source)
      /\ RabbitMQ!Usages = Usages /\ RabbitMQ!Flags = Flags
    BY DEF RabbitMQ!UsageLevel, UsageLevel, RabbitMQ!FlagLevel, FlagLevel, RabbitMQ!Found, Found,
           RabbitMQ!Usages, Usages, RabbitMQ!Flags, Flags
<1> QED
    BY <1>1, <1>2, <1>3, <1>4

LEMMA JavaSame ==
    /\ \A S : Java!Highest(S) = Highest(S)
    /\ \A S, p : Java!Worst(S, p) = Worst(S, p)
    /\ \A age, u, v : Java!Collected(age, u, v) = Collected(age, u, v)
    /\ \A usage, missing : Java!UsageLevel(usage, missing) = UsageLevel(usage, missing)
    /\ \A flag : Java!FlagLevel(flag) = FlagLevel(flag)
    /\ \A level, source : Java!Found(level, source) = Found(level, source)
    /\ Java!Usages = Usages /\ Java!Flags = Flags
<1>1. \A S : Java!Highest(S) = Highest(S)
    BY DEF Java!Highest, Highest, Java!Rank, Rank
<1>2. \A S, p : Java!Worst(S, p) = Worst(S, p)
    BY DEF Java!Worst, Worst, Java!Beats, Beats, Java!Rank, Rank
<1>3. \A age, u, v : Java!Collected(age, u, v) = Collected(age, u, v)
    BY DEF Java!Collected, Collected, Java!NotTracked, NotTracked, Java!NotSeen, NotSeen,
           Java!Age!LevelAt, Age!LevelAt
<1>4. /\ \A usage, missing : Java!UsageLevel(usage, missing) = UsageLevel(usage, missing)
      /\ \A flag : Java!FlagLevel(flag) = FlagLevel(flag)
      /\ \A level, source : Java!Found(level, source) = Found(level, source)
      /\ Java!Usages = Usages /\ Java!Flags = Flags
    BY DEF Java!UsageLevel, UsageLevel, Java!FlagLevel, FlagLevel, Java!Found, Found,
           Java!Usages, Usages, Java!Flags, Flags
<1> QED
    BY <1>1, <1>2, <1>3, <1>4

LEMMA HostsSame ==
    /\ \A S : Hosts!Highest(S) = Highest(S)
    /\ \A S, p : Hosts!Worst(S, p) = Worst(S, p)
    /\ \A age, u, v : Hosts!Collected(age, u, v) = Collected(age, u, v)
    /\ \A usage, missing : Hosts!UsageLevel(usage, missing) = UsageLevel(usage, missing)
    /\ \A flag : Hosts!FlagLevel(flag) = FlagLevel(flag)
    /\ \A level, source : Hosts!Found(level, source) = Found(level, source)
    /\ Hosts!Usages = Usages /\ Hosts!Flags = Flags
<1>1. \A S : Hosts!Highest(S) = Highest(S)
    BY DEF Hosts!Highest, Highest, Hosts!Rank, Rank
<1>2. \A S, p : Hosts!Worst(S, p) = Worst(S, p)
    BY DEF Hosts!Worst, Worst, Hosts!Beats, Beats, Hosts!Rank, Rank
<1>3. \A age, u, v : Hosts!Collected(age, u, v) = Collected(age, u, v)
    BY DEF Hosts!Collected, Collected, Hosts!NotTracked, NotTracked, Hosts!NotSeen, NotSeen,
           Hosts!Age!LevelAt, Age!LevelAt
<1>4. /\ \A usage, missing : Hosts!UsageLevel(usage, missing) = UsageLevel(usage, missing)
      /\ \A flag : Hosts!FlagLevel(flag) = FlagLevel(flag)
      /\ \A level, source : Hosts!Found(level, source) = Found(level, source)
      /\ Hosts!Usages = Usages /\ Hosts!Flags = Flags
    BY DEF Hosts!UsageLevel, UsageLevel, Hosts!FlagLevel, FlagLevel, Hosts!Found, Found,
           Hosts!Usages, Usages, Hosts!Flags, Flags
<1> QED
    BY <1>1, <1>2, <1>3, <1>4

(* What figures, flags and ages mean is a level. *)
LEMMA Meanings ==
    /\ \A usage \in Usages, l \in Levels : UsageLevel(usage, l) \in Levels
    /\ \A flag \in Flags : FlagLevel(flag) \in Levels
    /\ \A age \in Int, u, v \in Levels : Collected(age, u, v) \in Levels
    /\ \A l, source : Found(l, source).level = l
    /\ \A l, source : Found(l, source).source = IF l = "normal" THEN "normal" ELSE source
<1>1. \A usage \in Usages, l \in Levels : UsageLevel(usage, l) \in Levels
    BY DEF Usages, UsageLevel, Levels
<1>2. \A flag \in Flags : FlagLevel(flag) \in Levels
    BY DEF Flags, FlagLevel, Levels
<1>3. \A age \in Int, u, v \in Levels : Collected(age, u, v) \in Levels
    BY DEF Collected, NotTracked, NotSeen, Age!LevelAt, Levels
<1>4. \A l, source : Found(l, source).level = l /\ Found(l, source).source = IF l = "normal" THEN "normal" ELSE source
    BY DEF Found
<1> QED
    BY <1>1, <1>2, <1>3, <1>4

(* A sample that grows older is never collected any better. *)
LEMMA CollectedRises ==
    ASSUME NEW u \in Levels, NEW v \in Levels, NEW age \in Int, NEW older \in Int,
           older = age \/ (age >= 0 /\ older >= age)
    PROVE  Rank[Collected(age, u, v)] <= Rank[Collected(older, u, v)]
<1>1. CASE older = age
  <2>1. Rank[Collected(age, u, v)] \in 0 .. 3
      BY Ranks, Meanings
  <2> QED
      BY <1>1, <2>1
<1>2. CASE age >= 0 /\ older >= age
  <2>1. /\ Collected(age, u, v) = IF age >= 5 THEN "critical" ELSE IF age >= 2 THEN "warning" ELSE "normal"
        /\ Collected(older, u, v) = IF older >= 5 THEN "critical" ELSE IF older >= 2 THEN "warning" ELSE "normal"
      BY <1>2 DEF Collected, NotTracked, NotSeen, Age!LevelAt
  <2> QED
      BY <1>2, <2>1, Ranks
<1> QED
    BY <1>1, <1>2

-----------------------------------------------------------------------------
(* A thing's status is the highest of what does not depend on the age of its *)
(* sample and of its collection level; and of the alerts it counts in.       *)
Status(level, rest, collection, alerts) ==
    /\ rest \subseteq Levels
    /\ collection \in Levels
    /\ alerts \subseteq Levels
    /\ level = Highest(rest \cup {collection})
    /\ level = Highest(alerts)

(* What the age of a sample has no part in. *)
DiskRest(d) == {Disk!SMARTLevel(d), Disk!DeviceWarningLevel(d), Disk!AttributeLevel(d)}
MySQLRest(i) == {MySQL!AvailabilityLevel(i), MySQL!Replication(i).level}
RedisRest(i) == {Redis!Availability(i).level, Redis!Replication(i).level, Redis!Memory(i).level,
                 Redis!Connection(i).level}
ElasticsearchRest(n) == {f.level : f \in Elasticsearch!NodeFindings(n)}
RabbitMQRest(n) == {f.level : f \in RabbitMQ!Resources(n)} \cup {RabbitMQ!AlarmLevel(n)}
JavaRest(s) == {FlagLevel(s.health), FlagLevel(s.port), FlagLevel(s.process), FlagLevel(s.consistent)}
HostRest(h) == {[online |-> "normal", offline |-> "critical", unknown |-> "warning"][h.status],
                Hosts!MetricLevel(h.cpu), Hosts!MetricLevel(h.memory), Hosts!MetricLevel(h.io),
                Hosts!MetricLevel(h.transmit), Hosts!MetricLevel(h.receive)}

LEMMA DiskStatus ==
    ASSUME NEW d \in Row("disk")
    PROVE  Status(Disk!Summary(d).level, DiskRest(d), Disk!CollectionLevel(d), Range(Disk!Alerts(d)))
<1> DEFINE all == DiskRest(d) \cup {Disk!CollectionLevel(d)}
<1>1. /\ d.smart \in Disk!Healths /\ d.critical \in {"missing", "zero", "set"}
      /\ d.spare \in {"missing", "above", "at_threshold"} /\ d.attribute \in {"none", "past", "now"}
      /\ d.age \in Int
    BY DEF Row, Disk!Device
<1>2. DiskRest(d) \subseteq Levels
    BY <1>1 DEF DiskRest, Disk!SMARTLevel, Disk!DeviceWarningLevel, Disk!AttributeLevel, Disk!Healths, Levels
<1>3. Disk!CollectionLevel(d) \in Levels
  <2>1. "normal" \in Levels /\ "critical" \in Levels
      BY DEF Levels
  <2> QED
      BY <1>1, <2>1, Meanings, DiskSame DEF Disk!CollectionLevel
<1>4. Range(Disk!Alerts(d)) = all
    BY DEF Disk!Alerts, Range, DiskRest
<1>5. Disk!Summary(d).level = Highest(all)
  <2> DEFINE levels == <<Disk!SMARTLevel(d), Disk!DeviceWarningLevel(d), Disk!AttributeLevel(d),
                         Disk!CollectionLevel(d)>>
  <2>1. Disk!Range(levels) = all
      BY DEF Disk!Range, DiskRest
  <2>2. Disk!Summary(d).level = Disk!Highest(Disk!Range(levels))
      BY DEF Disk!Summary, Disk!Found
  <2> QED
      BY <2>1, <2>2, DiskSame
<1> QED
    BY <1>2, <1>3, <1>4, <1>5 DEF Status

LEMMA MySQLStatus ==
    ASSUME NEW i \in Row("mysql")
    PROVE  Status(MySQL!Summary(i).level, MySQLRest(i), MySQL!CollectionLevel(i), Range(MySQL!Alerts(i)))
<1> DEFINE availability == MySQL!AvailabilityLevel(i)
           collection == MySQL!CollectionLevel(i)
           replication == MySQL!Replication(i).level
           threads == MySQL!ThreadsLevel(i)
           lag == MySQL!LagLevel(i)
           data == MySQL!DataLevel(i)
<1>1. /\ i.availability \in {"up", "down", "unknown"} /\ i.role \in MySQL!Roles
      /\ \A c \in i.channels : c.io \in Flags /\ c.sql \in Flags /\ c.lag \in Usages
      /\ i.age \in Int
    BY MySQLSame DEF Row, MySQL!Instance, MySQL!Availability, MySQL!Channels
<1>2. availability \in Levels
    BY <1>1 DEF MySQL!AvailabilityLevel, MySQL!Availability, Levels
<1>3. collection \in Levels
  <2>1. "normal" \in Levels /\ "critical" \in Levels
      BY DEF Levels
  <2> QED
      BY <1>1, <2>1, Meanings, MySQLSame DEF MySQL!CollectionLevel
<1>4. MySQL!BareLevel(i) \in Levels
    BY DEF MySQL!BareLevel, Levels
<1> DEFINE flags == {MySQL!FlagLevel(c.io) : c \in i.channels} \cup {MySQL!FlagLevel(c.sql) : c \in i.channels}
           lags == {MySQL!UsageLevel(l, "unknown") : l \in MySQL!Lags(i)}
<1>5. flags \in SUBSET Levels /\ lags \in SUBSET Levels
  <2>1. "unknown" \in Levels
      BY DEF Levels
  <2>2. MySQL!Lags(i) \subseteq Usages
      BY <1>1 DEF MySQL!Lags
  <2> QED
      BY <1>1, <2>1, <2>2, Meanings, MySQLSame
<1>6. lag = Highest(lags) /\ lag \in Levels
    BY <1>5, HighestOf, MySQLSame DEF MySQL!LagLevel
<1>7. threads = (IF i.channels = {} THEN MySQL!BareLevel(i) ELSE Highest(flags)) /\ threads \in Levels
    BY <1>4, <1>5, HighestOf, MySQLSame DEF MySQL!ThreadsLevel
<1>8. data \in Levels
    BY <1>4 DEF MySQL!DataLevel, Levels
<1>9. /\ replication \in Levels
      /\ \A l \in {threads, lag, data} : Rank[l] <= Rank[replication]
      /\ \E l \in {threads, lag, data} : Rank[replication] <= Rank[l]
  <2>1. CASE i.channels = {}
    <3>1. replication = MySQL!BareLevel(i) /\ threads = MySQL!BareLevel(i) /\ data = MySQL!BareLevel(i)
        BY <1>7, <2>1 DEF MySQL!Replication, MySQL!DataLevel
    <3>2. lag = "normal"
      <4>1. lags = {}
          BY <2>1 DEF MySQL!Lags
      <4> QED
          BY <1>6, <4>1, HighestOf
    <3> QED
        BY <1>4, <3>1, <3>2, Ranks
  <2>2. CASE i.channels /= {} /\ \E c \in i.channels : MySQL!Stopped(c)
    <3>1. replication = "critical"
        BY <2>2 DEF MySQL!Replication
    <3>2. "critical" \in flags
        BY <2>2 DEF MySQL!Stopped, MySQL!FlagLevel
    <3>3. threads = "critical"
      <4>1. Rank["critical"] <= Rank[Highest(flags)] /\ Highest(flags) \in Levels
          BY <1>5, <3>2, HighestOf
      <4> QED
          BY <1>7, <2>2, <4>1, Ranks DEF Levels
    <3>4. "critical" \in Levels
        BY DEF Levels
    <3> QED
        BY <1>6, <1>8, <3>1, <3>3, <3>4, Ranks
  <2>3. CASE i.channels /= {} /\ ~(\E c \in i.channels : MySQL!Stopped(c))
    <3>1. flags \subseteq {"normal", "unknown"}
        BY <1>1, <2>3 DEF Flags, MySQL!Stopped, MySQL!FlagLevel
    <3>2. threads \in {"normal", "unknown"}
        BY <1>5, <1>7, <2>3, <3>1, HighestOf
    <3>3. CASE \E c \in i.channels : MySQL!Incomplete(c)
      <4>1. replication = Highest({"unknown", lag}) /\ data = "unknown"
          BY <2>3, <3>3, MySQLSame DEF MySQL!Replication, MySQL!DataLevel
      <4>2. {"unknown", lag} \in SUBSET Levels
          BY <1>6 DEF Levels
      <4>3. /\ replication \in {"unknown", lag, "normal"} /\ replication \in Levels
            /\ Rank["unknown"] <= Rank[replication] /\ Rank[lag] <= Rank[replication]
          BY <4>1, <4>2, HighestOf
      <4> QED
          BY <1>6, <3>2, <4>1, <4>3, Ranks
    <3>4. CASE ~(\E c \in i.channels : MySQL!Incomplete(c))
      <4>1. replication = lag /\ data = "normal"
          BY <2>3, <3>4 DEF MySQL!Replication, MySQL!DataLevel
      <4>2. flags \subseteq {"normal"}
          BY <1>1, <2>3, <3>4 DEF Flags, MySQL!Stopped, MySQL!Incomplete, MySQL!FlagLevel
      <4>3. threads = "normal"
          BY <1>5, <1>7, <2>3, <4>2, HighestOf
      <4> QED
          BY <1>6, <4>1, <4>3, Ranks
    <3> QED
        BY <3>3, <3>4
  <2> QED
      BY <2>1, <2>2, <2>3
<1> DEFINE both == Highest({availability, collection})
<1>10. Range(MySQL!Alerts(i)) = {both, threads, lag, data}
    BY MySQLSame DEF MySQL!Alerts, Range
<1>11. MySQL!Summary(i).level = Highest({availability, replication, collection})
    BY MySQLSame DEF MySQL!Summary
<1>12. MySQLRest(i) \cup {collection} = {availability, replication, collection}
    BY DEF MySQLRest
<1> HIDE DEF availability, collection, replication, threads, lag, data
<1>13. both \in {availability, collection, "normal"} /\ both \in Levels
       /\ Rank[availability] <= Rank[both] /\ Rank[collection] <= Rank[both]
    BY <1>2, <1>3, HighestOf
<1> HIDE DEF both
<1>14. Highest({availability, replication, collection}) = Highest({both, threads, lag, data})
  <2> DEFINE S == {availability, replication, collection}
             T == {both, threads, lag, data}
  <2>1. S \in SUBSET Levels /\ T \in SUBSET Levels
      BY <1>2, <1>3, <1>6, <1>7, <1>8, <1>9, <1>13
  <2>2. Rank[Highest(S)] <= Rank[Highest(T)]
    <3>1. \A l \in S : \E m \in T : Rank[l] <= Rank[m]
        BY <1>9, <1>13
    <3> QED
        BY <2>1, <3>1, HighestRises
  <2>3. Rank[Highest(T)] <= Rank[Highest(S)]
    <3>1. \A l \in {threads, lag, data} : Rank[l] <= Rank[Highest(S)]
      <4>1. Rank[replication] <= Rank[Highest(S)] /\ Highest(S) \in Levels
          BY <2>1, HighestOf
      <4> HIDE DEF S
      <4> QED
          BY <1>6, <1>7, <1>8, <1>9, <4>1, Ranks
    <3>2. Rank[both] <= Rank[Highest(S)]
        BY <1>13, <2>1, HighestOf
    <3>3. Highest(T) \in T \cup {"normal"}
        BY <2>1, HighestOf
    <3>4. Rank["normal"] <= Rank[Highest(S)]
        BY <2>1, HighestOf
    <3> QED
        BY <3>1, <3>2, <3>3, <3>4
  <2>4. Highest(S) \in Levels /\ Highest(T) \in Levels
      BY <2>1, HighestOf
  <2> HIDE DEF S, T
  <2>5. Highest(S) = Highest(T)
      BY <2>2, <2>3, <2>4, Ranks
  <2> QED
      BY <2>5 DEF S, T
<1>15. MySQLRest(i) \subseteq Levels
    BY <1>2, <1>3, <1>9, <1>12
<1> QED
    BY <1>2, <1>3, <1>6, <1>7, <1>8, <1>10, <1>11, <1>12, <1>13, <1>14, <1>15
       DEF Status, availability, collection, replication, threads, lag, data, both

(* The highest of some levels counts as much as they do. *)
LEMMA HighestNested ==
    ASSUME NEW S \in SUBSET Levels, NEW T \in SUBSET Levels
    PROVE  Highest(S \cup {Highest(T)}) = Highest(S \cup T)
<1> DEFINE nested == S \cup {Highest(T)}
           flat == S \cup T
<1>1. nested \in SUBSET Levels /\ flat \in SUBSET Levels
    BY HighestOf
<1>2. \A l \in flat : Rank[l] <= Rank[Highest(nested)]
  <2>1. \A l \in nested : Rank[l] <= Rank[Highest(nested)] /\ Highest(nested) \in Levels
      BY <1>1, HighestOf
  <2>2. \A l \in T : Rank[l] <= Rank[Highest(T)] /\ Highest(T) \in Levels
      BY HighestOf
  <2>3. S \subseteq nested /\ Highest(T) \in nested
      OBVIOUS
  <2> HIDE DEF nested
  <2> QED
      BY <2>1, <2>2, <2>3, Ranks
<1>3. \A l \in nested : Rank[l] <= Rank[Highest(flat)]
  <2>1. \A l \in flat \cup {"normal"} : Rank[l] <= Rank[Highest(flat)]
      BY <1>1, HighestOf
  <2>2. Highest(T) \in T \cup {"normal"}
      BY HighestOf
  <2> QED
      BY <2>1, <2>2
<1> QED
    BY <1>1, <1>2, <1>3, SameHighest

LEMMA FoundIs ==
    \A level, source : /\ Found(level, source).level = level
                       /\ Found(level, source).source \in {source, "normal"}
                       /\ Found(level, source).source = "normal" => level = "normal" \/ source = "normal"
BY DEF Found

LEMMA RedisStatus ==
    ASSUME NEW i \in Row("redis")
    PROVE  Status(Redis!Summary(i).level, RedisRest(i), Redis!Collection(i).level, Range(Redis!Alerts(i)))
<1> DEFINE p == Redis!Precedence
           availability == Redis!Availability(i)
           replication == Redis!Replication(i)
           memory == Redis!Memory(i)
           connection == Redis!Connection(i)
           collection == Redis!Collection(i)
           sources == {"availability", "replication", "memory", "connection", "collection", "unknown", "normal"}
           Good(f) == f.level \in Levels /\ f.source \in sources
<1>1. /\ i.availability \in {"up", "down", "unknown"} /\ i.role \in Redis!Roles
      /\ i.replicas \in {"missing", "none", "some"} /\ i.cluster \in BOOLEAN
      /\ i.lag \in Usages /\ i.link \in Flags /\ i.memory \in Usages
      /\ i.limited \in BOOLEAN /\ i.rejects \in BOOLEAN /\ i.age \in Int
    BY RedisSame DEF Row, Redis!Instance
<1>2. \A s \in sources : p[s] \in 0 .. 6
    BY DEF Redis!Precedence
<1>3. "normal" \in Levels /\ "critical" \in Levels /\ "unknown" \in Levels /\ "warning" \in Levels
    BY DEF Levels
<1>4. \A S : S /= {} /\ (\A f \in S : Good(f)) => Findings(S, p)
    BY <1>2 DEF Findings
<1>5. \A level \in Levels, source \in sources : Good(Found(level, source))
    BY FoundIs
<1>6. \A S : Redis!Chosen(S) = Worst(S, p)
    BY RedisSame DEF Redis!Chosen
<1> HIDE DEF p
<1>7. Good(availability)
  <2>1. [up |-> "normal", down |-> "critical", unknown |-> "unknown"][i.availability] \in Levels
      BY <1>1, <1>3
  <2> QED
      BY <1>5, <2>1, RedisSame DEF Redis!Availability
<1>8. Good(replication)
  <2>1. CASE i.role = "master"
    <3> DEFINE a == Found(IF i.cluster /\ i.replicas = "none" THEN "critical" ELSE "normal", "replication")
               b == Found(UsageLevel(i.lag, "normal"), "replication")
    <3>1. replication = Worst({a, b}, p)
        BY <1>6, <2>1, RedisSame DEF Redis!Replication
    <3>2. UsageLevel(i.lag, "normal") \in Levels
        BY <1>1, <1>3, Meanings
    <3>3. Good(a) /\ Good(b)
        BY <1>3, <1>5, <3>2
    <3>4. replication \in {a, b}
      <4> HIDE DEF a, b
      <4>1. Findings({a, b}, p)
          BY <1>4, <3>3
      <4> QED
          BY <3>1, <4>1, WorstOf
    <3> QED
        BY <3>3, <3>4
  <2>2. CASE i.role = "slave"
    <3>1. replication = Found(FlagLevel(i.link), "replication")
        BY <2>2, RedisSame DEF Redis!Replication
    <3>2. FlagLevel(i.link) \in Levels
        BY <1>1, Meanings
    <3> QED
        BY <1>5, <3>1, <3>2
  <2>3. CASE i.role = "unknown"
    <3>1. replication = Found("unknown", "unknown")
        BY <2>3, RedisSame DEF Redis!Replication
    <3> QED
        BY <1>3, <1>5, <3>1
  <2> QED
      BY <1>1, <2>1, <2>2, <2>3 DEF Redis!Roles
<1>9. Good(memory)
  <2>1. UsageLevel(i.memory, "unknown") \in Levels
      BY <1>1, <1>3, Meanings
  <2>2. memory = Found(IF i.limited THEN UsageLevel(i.memory, "unknown") ELSE "normal", "memory")
      BY RedisSame DEF Redis!Memory
  <2> QED
      BY <1>3, <1>5, <2>1, <2>2
<1>10. Good(connection)
    BY <1>3, <1>5, RedisSame DEF Redis!Connection
<1>11. Good(collection)
  <2>1. Collected(i.age, "normal", "critical") \in Levels
      BY <1>1, <1>3, Meanings
  <2> QED
      BY <1>5, <2>1, RedisSame DEF Redis!Collection
<1> DEFINE a == availability.level
           r == replication.level
           m == memory.level
           n == connection.level
           c == collection.level
<1>12. Redis!Summary(i).level = Highest({a, r, m, n, c})
  <2> DEFINE S == {availability, replication, memory, connection, collection}
  <2>1. Redis!Summary(i) = Worst(S, p)
      BY <1>6 DEF Redis!Summary, Redis!Findings
  <2>2. {f.level : f \in S} = {a, r, m, n, c}
      OBVIOUS
  <2> HIDE DEF availability, replication, memory, connection, collection
  <2>3. Findings(S, p)
      BY <1>4, <1>7, <1>8, <1>9, <1>10, <1>11
  <2> QED
      BY <2>1, <2>2, <2>3, WorstOf
<1>13. Redis!Alerts(i).availability = Highest({a, c})
  <2> DEFINE S == {availability, collection}
  <2>1. Redis!Alerts(i).availability = Worst(S, p).level
      BY <1>6 DEF Redis!Alerts
  <2>2. {f.level : f \in S} = {a, c}
      OBVIOUS
  <2> HIDE DEF availability, collection
  <2>3. Findings(S, p)
      BY <1>4, <1>7, <1>11
  <2> QED
      BY <2>1, <2>2, <2>3, WorstOf
<1>14. Range(Redis!Alerts(i)) = {m, n, r} \cup {Highest({a, c})}
    BY <1>13 DEF Redis!Alerts, Range
<1>15. {a, r, m, n, c} = {m, n, r} \cup {a, c} /\ RedisRest(i) = {a, r, m, n}
    BY DEF RedisRest
<1> HIDE DEF availability, replication, memory, connection, collection
<1>16. a \in Levels /\ r \in Levels /\ m \in Levels /\ n \in Levels /\ c \in Levels
    BY <1>7, <1>8, <1>9, <1>10, <1>11
<1> HIDE DEF a, r, m, n, c
<1>17. Highest({m, n, r} \cup {Highest({a, c})}) = Highest({m, n, r} \cup {a, c})
    BY <1>16, HighestNested
<1>18. Highest({a, c}) \in Levels
    BY <1>16, HighestOf
<1>19. {a, r, m, n} \cup {c} = {a, r, m, n, c}
    OBVIOUS
<1>20. c = Redis!Collection(i).level
    BY DEF c, collection
<1> QED
    BY <1>12, <1>14, <1>15, <1>16, <1>17, <1>18, <1>19, <1>20 DEF Status

LEMMA ElasticsearchStatus ==
    ASSUME NEW n \in Row("elasticsearch")
    PROVE  Status(Elasticsearch!Summary(n).level, ElasticsearchRest(n), Elasticsearch!CollectionLevel(n),
                  Range(Elasticsearch!Alerts(n)) \cup {Elasticsearch!CollectionLevel(n)})
<1> DEFINE p == Elasticsearch!NodePrecedence
           d == IF n.data THEN UsageLevel(n.disk, "unknown") ELSE "normal"
           h == UsageLevel(n.heap, "unknown")
           r == IF n.rejects THEN "warning" ELSE "normal"
           c == Elasticsearch!CollectionLevel(n)
           S == {Found(d, "disk"), Found(h, "jvm"), Found(r, "thread_pool"), Found(c, "collection")}
           w == Elasticsearch!Summary(n)
           resource == IF w.source \in {"disk", "jvm"} THEN w.level ELSE "normal"
<1>1. /\ n.data \in BOOLEAN /\ n.disk \in Usages /\ n.heap \in Usages /\ n.rejects \in BOOLEAN
      /\ n.age \in Int
    BY ElasticsearchSame DEF Row, Elasticsearch!Node
<1>2. "normal" \in Levels /\ "critical" \in Levels /\ "unknown" \in Levels /\ "warning" \in Levels
    BY DEF Levels
<1>3. d \in Levels /\ h \in Levels /\ r \in Levels
    BY <1>1, <1>2, Meanings
<1>4. c \in Levels
    BY <1>1, <1>2, Meanings, ElasticsearchSame DEF Elasticsearch!CollectionLevel
<1>5. /\ w = Worst(S, p)
      /\ ElasticsearchRest(n) = {d, h, r}
  <2>1. Elasticsearch!NodeFindings(n) = {Found(d, "disk"), Found(h, "jvm"), Found(r, "thread_pool")}
      BY ElasticsearchSame DEF Elasticsearch!NodeFindings
  <2>2. w = Worst(Elasticsearch!NodeFindings(n) \cup {Found(c, "collection")}, p)
      BY ElasticsearchSame DEF Elasticsearch!Summary
  <2>3. Elasticsearch!NodeFindings(n) \cup {Found(c, "collection")} = S
      BY <2>1
  <2> HIDE DEF d, h, r, w
  <2>4. ElasticsearchRest(n) = {d, h, r}
      BY <2>1, FoundIs DEF ElasticsearchRest
  <2> QED
      BY <2>2, <2>3, <2>4
<1>6. Range(Elasticsearch!Alerts(n)) = {resource, r}
    BY DEF Elasticsearch!Alerts, Range
<1> HIDE DEF d, h, r, c, w
<1>7. Findings(S, p)
  <2>1. \A s \in {"disk", "jvm", "thread_pool", "collection", "normal"} : p[s] \in 0 .. 6
      BY DEF Elasticsearch!NodePrecedence
  <2> HIDE DEF p
  <2>2. \A f \in S : f.level \in Levels /\ f.source \in {"disk", "jvm", "thread_pool", "collection", "normal"}
      BY <1>3, <1>4, FoundIs
  <2> QED
      BY <2>1, <2>2 DEF Findings
<1>8. w \in S /\ w.level = Highest({d, h, r, c})
  <2>1. {f.level : f \in S} = {d, h, r, c}
      BY FoundIs
  <2> HIDE DEF S, p
  <2> QED
      BY <1>5, <1>7, <2>1, WorstOf
<1>9. /\ w.level \in Levels
      /\ \A l \in {"normal", d, h, r, c} : Rank[l] <= Rank[w.level]
    BY <1>3, <1>4, <1>8, HighestOf
<1>10. w.level \in {resource, r, c, "normal"}
    BY <1>8, FoundIs
<1>11. resource \in Levels /\ Rank[resource] <= Rank[w.level]
    BY <1>2, <1>9, Ranks
<1>12. w.level = Highest({resource, r, c})
    BY <1>3, <1>4, <1>9, <1>10, <1>11, HighestIs
<1>13. {resource, r} \cup {c} = {resource, r, c} /\ {d, h, r} \cup {c} = {d, h, r, c}
    OBVIOUS
<1> HIDE DEF resource
<1> QED
    BY <1>3, <1>4, <1>5, <1>6, <1>8, <1>11, <1>12, <1>13 DEF Status, c, w

LEMMA RabbitMQStatus ==
    ASSUME NEW n \in Row("rabbitmq")
    PROVE  Status(RabbitMQ!Summary(n).level, RabbitMQRest(n), RabbitMQ!CollectionLevel(n),
                  Range(RabbitMQ!Alerts(n)))
<1> DEFINE p == RabbitMQ!Precedence
           R == RabbitMQ!Resources(n)
           Rs == {f.level : f \in R}
           a == RabbitMQ!AlarmLevel(n)
           c == RabbitMQ!CollectionLevel(n)
           sources == {"disk", "memory", "file_descriptor", "erlang_process", "alarm", "collection", "normal"}
           Good(f) == f.level \in Levels /\ f.source \in sources
<1>1. /\ n.alarms \in SUBSET Flags /\ n.age \in Int
      /\ n.disk \in Usages /\ n.memory \in Usages /\ n.descriptors \in Usages /\ n.processes \in Usages
    BY RabbitMQSame DEF Row, RabbitMQ!Node
<1>2. "normal" \in Levels /\ "critical" \in Levels /\ "unknown" \in Levels /\ "warning" \in Levels
    BY DEF Levels
<1>3. c \in Levels
    BY <1>1, <1>2, Meanings, RabbitMQSame DEF RabbitMQ!CollectionLevel
<1>4. a \in Levels
  <2>1. {FlagLevel(flag) : flag \in n.alarms} \in SUBSET Levels
      BY <1>1, Meanings
  <2> QED
      BY <2>1, HighestOf, RabbitMQSame DEF RabbitMQ!AlarmLevel
<1>5. \A level \in Levels, source \in sources : Good(Found(level, source))
    BY FoundIs
<1>6. R /= {} /\ \A f \in R : Good(f)
  <2>1. R = {Found(UsageLevel(n.disk, "unknown"), "disk"),
             Found(UsageLevel(n.memory, "unknown"), "memory"),
             Found(UsageLevel(n.descriptors, "unknown"), "file_descriptor"),
             Found(UsageLevel(n.processes, "unknown"), "erlang_process")}
      BY RabbitMQSame DEF RabbitMQ!Resources
  <2>2. /\ UsageLevel(n.disk, "unknown") \in Levels /\ UsageLevel(n.memory, "unknown") \in Levels
        /\ UsageLevel(n.descriptors, "unknown") \in Levels /\ UsageLevel(n.processes, "unknown") \in Levels
      BY <1>1, <1>2, Meanings
  <2> QED
      BY <1>5, <2>1, <2>2
<1>7. \A s \in sources : p[s] \in 0 .. 6
    BY DEF RabbitMQ!Precedence
<1> HIDE DEF p
<1>8. \A S : S /= {} /\ (\A f \in S : Good(f)) => Findings(S, p)
    BY <1>7 DEF Findings
<1>9. RabbitMQ!Summary(n).level = Highest(Rs \cup {a, c})
  <2> DEFINE S == R \cup {Found(a, "alarm"), Found(c, "collection")}
  <2>1. RabbitMQ!Summary(n) = Worst(S, p)
      BY RabbitMQSame DEF RabbitMQ!Summary, p
  <2> HIDE DEF R, a, c
  <2>2. Findings(S, p)
      BY <1>3, <1>4, <1>5, <1>6, <1>8
  <2>3. {f.level : f \in S} = Rs \cup {a, c}
      BY FoundIs
  <2> QED
      BY <2>1, <2>2, <2>3, WorstOf
<1>10. Range(RabbitMQ!Alerts(n)) = {a, c} \cup {Highest(Rs)}
  <2>1. Worst(R, p).level = Highest(Rs)
    <3> HIDE DEF R
    <3>1. Findings(R, p)
        BY <1>6, <1>8
    <3> QED
        BY <3>1, WorstOf
  <2>2. Range(RabbitMQ!Alerts(n)) = {a, Worst(R, p).level, c}
      BY RabbitMQSame DEF RabbitMQ!Alerts, Range, p
  <2> QED
      BY <2>1, <2>2
<1>11. RabbitMQRest(n) = Rs \cup {a}
    BY DEF RabbitMQRest
<1>12. Rs \in SUBSET Levels
  <2> HIDE DEF R
  <2> QED
      BY <1>6
<1> HIDE DEF Rs, a, c
<1>13. Highest({a, c} \cup {Highest(Rs)}) = Highest({a, c} \cup Rs) /\ Highest(Rs) \in Levels
    BY <1>3, <1>4, <1>12, HighestNested, HighestOf
<1>14. {a, c} \cup Rs = Rs \cup {a, c} /\ Rs \cup {a} \cup {c} = Rs \cup {a, c}
    OBVIOUS
<1> QED
    BY <1>3, <1>4, <1>9, <1>10, <1>11, <1>12, <1>13, <1>14 DEF Status, c

LEMMA JavaStatus ==
    ASSUME NEW s \in Row("java")
    PROVE  Status(Java!Summary(s).level, JavaRest(s), Java!CollectionLevel(s), Range(Java!Alerts(s)))
<1> DEFINE p == Java!Precedence
           h == FlagLevel(s.health)
           o == FlagLevel(s.port)
           r == FlagLevel(s.process)
           t == FlagLevel(s.consistent)
           c == Java!CollectionLevel(s)
           S == {Java!Binary(s.health, "health"), Java!Binary(s.port, "port"),
                 Java!Binary(s.process, "process"), Java!Binary(s.consistent, "consistency"),
                 Found(c, "collection")}
           sources == {"unknown", "health", "port", "process", "consistency", "collection", "normal"}
<1>1. /\ s.health \in Flags /\ s.port \in Flags /\ s.process \in Flags /\ s.consistent \in Flags
      /\ s.age \in Int
    BY JavaSame DEF Row, Java!Service
<1>2. "normal" \in Levels /\ "critical" \in Levels /\ "unknown" \in Levels
    BY DEF Levels
<1>3. h \in Levels /\ o \in Levels /\ r \in Levels /\ t \in Levels
    BY <1>1, Meanings
<1>4. c \in Levels
    BY <1>1, <1>2, Meanings, JavaSame DEF Java!CollectionLevel
<1>5. \A flag, source : /\ Java!Binary(flag, source).level = FlagLevel(flag)
                        /\ Java!Binary(flag, source).source \in {"unknown", "normal", source}
    BY FoundIs, JavaSame DEF Java!Binary
<1>6. Java!Summary(s) = Worst(S, p)
    BY JavaSame DEF Java!Summary
<1>7. {f.level : f \in S} = {h, o, r, t, c}
    BY <1>5, FoundIs
<1>8. Findings(S, p)
  <2>1. \A u \in sources : p[u] \in 0 .. 6
      BY DEF Java!Precedence
  <2>2. \A f \in S : f.source \in sources
      BY <1>5, FoundIs
  <2>3. \A f \in S : f.level \in Levels
      BY <1>3, <1>4, <1>7
  <2> HIDE DEF p
  <2> QED
      BY <2>1, <2>2, <2>3 DEF Findings
<1>9. Java!Summary(s).level = Highest({h, o, r, t, c})
  <2> HIDE DEF S, p
  <2> QED
      BY <1>6, <1>7, <1>8, WorstOf
<1>10. Range(Java!Alerts(s)) = {h, o, c} \cup {Highest({r, t})}
    BY JavaSame DEF Java!Alerts, Range
<1>11. JavaRest(s) = {h, o, r, t}
    BY DEF JavaRest
<1> HIDE DEF h, o, r, t, c
<1>12. Highest({h, o, c} \cup {Highest({r, t})}) = Highest({h, o, c} \cup {r, t}) /\ Highest({r, t}) \in Levels
    BY <1>3, <1>4, HighestNested, HighestOf
<1>13. {h, o, c} \cup {r, t} = {h, o, r, t, c} /\ {h, o, r, t} \cup {c} = {h, o, r, t, c}
    OBVIOUS
<1> QED
    BY <1>3, <1>4, <1>9, <1>10, <1>11, <1>12, <1>13 DEF Status, c

LEMMA HostStatus ==
    ASSUME NEW h \in Row("host")
    PROVE  Status(Hosts!Summary(h).level, HostRest(h), Hosts!CollectionLevel(h), Range(Hosts!Alerts(h)))
<1> DEFINE shown(status) == [online |-> "normal", offline |-> "critical", unknown |-> "warning"][status]
           e == shown(Hosts!EffectiveStatus(h))
           b == shown(h.status)
           c == Hosts!CollectionLevel(h)
           u == Hosts!MetricLevel(h.cpu)
           m == Hosts!MetricLevel(h.memory)
           o == Hosts!MetricLevel(h.io)
           t == Hosts!MetricLevel(h.transmit)
           r == Hosts!MetricLevel(h.receive)
<1>1. /\ h.status \in {"online", "offline", "unknown"} /\ h.age \in Int
      /\ h.cpu \in Usages /\ h.memory \in Usages /\ h.io \in Usages
      /\ h.transmit \in Usages /\ h.receive \in Usages
    BY HostsSame DEF Row, Hosts!Host, Hosts!States
<1>2. "normal" \in Levels /\ "critical" \in Levels /\ "warning" \in Levels
    BY DEF Levels
<1>3. u \in Levels /\ m \in Levels /\ o \in Levels /\ t \in Levels /\ r \in Levels
    BY <1>1, <1>2, Meanings, HostsSame DEF Hosts!MetricLevel
<1>4. c \in {"normal", "warning", "critical"}
    BY <1>1, HostsSame DEF Hosts!CollectionLevel, Collected, Age!LevelAt
<1>5. b \in {"normal", "critical", "warning"}
    BY <1>1
<1>6. e = Highest({b, c})
  <2>1. e = IF b = "critical" \/ c = "critical" THEN "critical"
            ELSE IF b = "warning" \/ c = "warning" THEN "warning" ELSE "normal"
    <3> HIDE DEF c
    <3> QED
        BY <1>1, <1>4 DEF Hosts!EffectiveStatus, c
  <2>2. b \in Levels /\ c \in Levels
      BY <1>2, <1>4, <1>5
  <2> HIDE DEF b, c, e
  <2>3. e \in {b, c} \cup {"normal"} /\ \A l \in {b, c} : Rank[l] <= Rank[e]
      BY <1>4, <1>5, <2>1, Ranks
  <2> QED
      BY <2>2, <2>3, HighestIs
<1>7. Hosts!Summary(h).level = Highest({e, c, u, m, o, t, r})
    BY HostsSame DEF Hosts!Summary
<1>8. Range(Hosts!Alerts(h)) = {u, m, o, e} \cup {Highest({t, r})}
    BY HostsSame DEF Hosts!Alerts, Range
<1>9. HostRest(h) = {b, u, m, o, t, r}
    BY DEF HostRest
<1> HIDE DEF e, b, c, u, m, o, t, r
<1>10. b \in Levels /\ c \in Levels /\ e \in Levels
    BY <1>2, <1>4, <1>5, <1>6, HighestOf
<1> DEFINE metrics == {u, m, o, t, r}
           others == {c, u, m, o, t, r}
           pair == {b, c}
<1>11. metrics \in SUBSET Levels /\ others \in SUBSET Levels /\ pair \in SUBSET Levels
    BY <1>3, <1>10
<1>12. Highest({u, m, o, e} \cup {Highest({t, r})}) = Highest({u, m, o, e} \cup {t, r})
       /\ Highest({t, r}) \in Levels
  <2> DEFINE S == {u, m, o, e}
             T == {t, r}
  <2>1. S \in SUBSET Levels /\ T \in SUBSET Levels
      BY <1>3, <1>10
  <2> HIDE DEF S, T
  <2>2. Highest(S \cup {Highest(T)}) = Highest(S \cup T) /\ Highest(T) \in Levels
      BY <2>1, HighestNested, HighestOf
  <2> QED
      BY <2>2 DEF S, T
<1>13. /\ Highest(others \cup {e}) = Highest(others \cup pair)
       /\ Highest(metrics \cup {e}) = Highest(metrics \cup pair)
  <2> HIDE DEF metrics, others, pair
  <2>1. e = Highest(pair)
      BY <1>6 DEF pair
  <2> QED
      BY <1>11, <2>1, HighestNested
<1>14. /\ {e, c, u, m, o, t, r} = {c, u, m, o, t, r} \cup {e}
       /\ {c, u, m, o, t, r} \cup {b, c} = {b, u, m, o, t, r} \cup {c}
       /\ {u, m, o, t, r} \cup {b, c} = {b, u, m, o, t, r} \cup {c}
       /\ {u, m, o, e} \cup {t, r} = {u, m, o, t, r} \cup {e}
    OBVIOUS
<1> QED
    BY <1>3, <1>7, <1>8, <1>9, <1>10, <1>11, <1>12, <1>13, <1>14 DEF Status, c

-----------------------------------------------------------------------------
(* A sample that grows older: the row is the same but for its age. *)
Older(row, older) ==
    /\ [older EXCEPT !.age = row.age] = row
    /\ older.age = row.age \/ (row.age >= 0 /\ older.age >= row.age)

LEMMA StatusRises ==
    ASSUME NEW rest, NEW level, NEW collection, NEW alerts, NEW level2, NEW collection2, NEW alerts2,
           Status(level, rest, collection, alerts), Status(level2, rest, collection2, alerts2),
           Rank[collection] <= Rank[collection2]
    PROVE  Rank[level] <= Rank[level2]
<1> DEFINE S == rest \cup {collection}
           T == rest \cup {collection2}
<1>1. S \in SUBSET Levels /\ T \in SUBSET Levels
    BY DEF Status
<1>2. \A l \in S : \E m \in T : Rank[l] <= Rank[m]
    BY Ranks DEF Status
<1>3. level = Highest(S) /\ level2 = Highest(T)
    BY DEF Status
<1> HIDE DEF S, T
<1> QED
    BY <1>1, <1>2, <1>3, HighestRises

LEMMA DiskRises ==
    ASSUME NEW r \in Row("disk"), NEW e \in Row("disk"), Older(r, e)
    PROVE  Rank[Disk!Summary(r).level] <= Rank[Disk!Summary(e).level]
<1>1. r.age \in Int /\ e.age \in Int /\ "normal" \in Levels /\ "critical" \in Levels
    BY DEF Row, Disk!Device, Levels
<1>2. e.smart = r.smart /\ e.critical = r.critical /\ e.spare = r.spare /\ e.attribute = r.attribute
    BY DEF Row, Disk!Device, Older
<1>3. DiskRest(e) = DiskRest(r)
    BY <1>2 DEF DiskRest, Disk!SMARTLevel, Disk!DeviceWarningLevel, Disk!AttributeLevel
<1>4. Rank[Disk!CollectionLevel(r)] <= Rank[Disk!CollectionLevel(e)]
    BY <1>1, CollectedRises, DiskSame DEF Older, Disk!CollectionLevel
<1> QED
    BY <1>3, <1>4, DiskStatus, StatusRises

LEMMA MySQLRises ==
    ASSUME NEW r \in Row("mysql"), NEW e \in Row("mysql"), Older(r, e)
    PROVE  Rank[MySQL!Summary(r).level] <= Rank[MySQL!Summary(e).level]
<1>1. r.age \in Int /\ e.age \in Int /\ "normal" \in Levels /\ "critical" \in Levels
    BY DEF Row, MySQL!Instance, Levels
<1>2. e.availability = r.availability /\ e.role = r.role /\ e.channels = r.channels
    BY DEF Row, MySQL!Instance, Older
<1>3. MySQLRest(e) = MySQLRest(r)
    BY <1>2 DEF MySQLRest, MySQL!AvailabilityLevel, MySQL!Replication, MySQL!BareLevel, MySQL!LagLevel, MySQL!Lags
<1>4. Rank[MySQL!CollectionLevel(r)] <= Rank[MySQL!CollectionLevel(e)]
    BY <1>1, CollectedRises, MySQLSame DEF Older, MySQL!CollectionLevel
<1> QED
    BY <1>3, <1>4, MySQLStatus, StatusRises

LEMMA RedisRises ==
    ASSUME NEW r \in Row("redis"), NEW e \in Row("redis"), Older(r, e)
    PROVE  Rank[Redis!Summary(r).level] <= Rank[Redis!Summary(e).level]
<1>1. r.age \in Int /\ e.age \in Int /\ "normal" \in Levels /\ "critical" \in Levels
    BY DEF Row, Redis!Instance, Levels
<1>2. /\ e.availability = r.availability /\ e.role = r.role /\ e.replicas = r.replicas
      /\ e.cluster = r.cluster /\ e.lag = r.lag /\ e.link = r.link /\ e.limited = r.limited
      /\ e.memory = r.memory /\ e.rejects = r.rejects
    BY DEF Row, Redis!Instance, Older
<1>3. RedisRest(e) = RedisRest(r)
    BY <1>2 DEF RedisRest, Redis!Availability, Redis!Replication, Redis!Memory, Redis!Connection
<1>4. Rank[Redis!Collection(r).level] <= Rank[Redis!Collection(e).level]
    BY <1>1, CollectedRises, RedisSame, FoundIs DEF Older, Redis!Collection
<1> QED
    BY <1>3, <1>4, RedisStatus, StatusRises

LEMMA ElasticsearchRises ==
    ASSUME NEW r \in Row("elasticsearch"), NEW e \in Row("elasticsearch"), Older(r, e)
    PROVE  Rank[Elasticsearch!Summary(r).level] <= Rank[Elasticsearch!Summary(e).level]
<1>1. r.age \in Int /\ e.age \in Int /\ "normal" \in Levels /\ "critical" \in Levels
    BY DEF Row, Elasticsearch!Node, Levels
<1>2. e.data = r.data /\ e.disk = r.disk /\ e.heap = r.heap /\ e.rejects = r.rejects
    BY DEF Row, Elasticsearch!Node, Older
<1>3. ElasticsearchRest(e) = ElasticsearchRest(r)
    BY <1>2 DEF ElasticsearchRest, Elasticsearch!NodeFindings
<1>4. Rank[Elasticsearch!CollectionLevel(r)] <= Rank[Elasticsearch!CollectionLevel(e)]
    BY <1>1, CollectedRises, ElasticsearchSame DEF Older, Elasticsearch!CollectionLevel
<1>5. \A n \in {r, e} :
          Status(Elasticsearch!Summary(n).level, ElasticsearchRest(n), Elasticsearch!CollectionLevel(n),
                 Range(Elasticsearch!Alerts(n)) \cup {Elasticsearch!CollectionLevel(n)})
    BY ElasticsearchStatus
<1> QED
    BY <1>3, <1>4, <1>5, StatusRises

LEMMA RabbitMQRises ==
    ASSUME NEW r \in Row("rabbitmq"), NEW e \in Row("rabbitmq"), Older(r, e)
    PROVE  Rank[RabbitMQ!Summary(r).level] <= Rank[RabbitMQ!Summary(e).level]
<1>1. r.age \in Int /\ e.age \in Int /\ "unknown" \in Levels
    BY DEF Row, RabbitMQ!Node, Levels
<1>2. /\ e.alarms = r.alarms /\ e.disk = r.disk /\ e.memory = r.memory
      /\ e.descriptors = r.descriptors /\ e.processes = r.processes
    BY DEF Row, RabbitMQ!Node, Older
<1>3. RabbitMQRest(e) = RabbitMQRest(r)
    BY <1>2 DEF RabbitMQRest, RabbitMQ!Resources, RabbitMQ!AlarmLevel
<1>4. Rank[RabbitMQ!CollectionLevel(r)] <= Rank[RabbitMQ!CollectionLevel(e)]
    BY <1>1, CollectedRises, RabbitMQSame DEF Older, RabbitMQ!CollectionLevel
<1> QED
    BY <1>3, <1>4, RabbitMQStatus, StatusRises

LEMMA JavaRises ==
    ASSUME NEW r \in Row("java"), NEW e \in Row("java"), Older(r, e)
    PROVE  Rank[Java!Summary(r).level] <= Rank[Java!Summary(e).level]
<1>1. r.age \in Int /\ e.age \in Int /\ "unknown" \in Levels
    BY DEF Row, Java!Service, Levels
<1>2. e.health = r.health /\ e.port = r.port /\ e.process = r.process /\ e.consistent = r.consistent
    BY DEF Row, Java!Service, Older
<1>3. JavaRest(e) = JavaRest(r)
    BY <1>2 DEF JavaRest
<1>4. Rank[Java!CollectionLevel(r)] <= Rank[Java!CollectionLevel(e)]
    BY <1>1, CollectedRises, JavaSame DEF Older, Java!CollectionLevel
<1> QED
    BY <1>3, <1>4, JavaStatus, StatusRises

LEMMA HostRises ==
    ASSUME NEW r \in Row("host"), NEW e \in Row("host"), Older(r, e)
    PROVE  Rank[Hosts!Summary(r).level] <= Rank[Hosts!Summary(e).level]
<1>1. r.age \in Int /\ e.age \in Int /\ "normal" \in Levels /\ "critical" \in Levels
    BY DEF Row, Hosts!Host, Levels
<1>2. /\ e.status = r.status /\ e.cpu = r.cpu /\ e.memory = r.memory /\ e.io = r.io
      /\ e.transmit = r.transmit /\ e.receive = r.receive
    BY DEF Row, Hosts!Host, Older
<1>3. HostRest(e) = HostRest(r)
    BY <1>2 DEF HostRest
<1>4. Rank[Hosts!CollectionLevel(r)] <= Rank[Hosts!CollectionLevel(e)]
    BY <1>1, CollectedRises, HostsSame DEF Older, Hosts!CollectionLevel
<1> QED
    BY <1>3, <1>4, HostStatus, StatusRises

-----------------------------------------------------------------------------
(* What a service reports of a row, for each kind of service. *)
Reported(k, row) ==
    CASE k = "disk" -> Disk!Summary(row).level
      [] k = "mysql" -> MySQL!Summary(row).level
      [] k = "redis" -> Redis!Summary(row).level
      [] k = "elasticsearch" -> Elasticsearch!Summary(row).level
      [] k = "rabbitmq" -> RabbitMQ!Summary(row).level
      [] k = "java" -> Java!Summary(row).level
      [] k = "host" -> Hosts!Summary(row).level

LEMMA ReportedRises ==
    ASSUME NEW k \in Kinds, NEW r \in Row(k), NEW e \in Row(k), Older(r, e)
    PROVE  Rank[Reported(k, r)] <= Rank[Reported(k, e)]
<1>1. k \in {"disk", "mysql", "redis", "elasticsearch", "rabbitmq", "java", "host"}
    BY ViewsAssumption DEF ViewsAssumption
<1>2. CASE k = "disk"
    BY <1>2, DiskRises DEF Reported
<1>3. CASE k = "mysql"
    BY <1>3, MySQLRises DEF Reported
<1>4. CASE k = "redis"
    BY <1>4, RedisRises DEF Reported
<1>5. CASE k = "elasticsearch"
    BY <1>5, ElasticsearchRises DEF Reported
<1>6. CASE k = "rabbitmq"
    BY <1>6, RabbitMQRises DEF Reported
<1>7. CASE k = "java"
    BY <1>7, JavaRises DEF Reported
<1>8. CASE k = "host"
    BY <1>8, HostRises DEF Reported
<1> QED
    BY <1>1, <1>2, <1>3, <1>4, <1>5, <1>6, <1>7, <1>8

LEMMA ReportedIsLevel ==
    ASSUME NEW k \in Kinds, NEW r \in Row(k)
    PROVE  Reported(k, r) \in Levels
<1>1. k \in {"disk", "mysql", "redis", "elasticsearch", "rabbitmq", "java", "host"}
    BY ViewsAssumption DEF ViewsAssumption
<1>2. \A level, rest, collection, alerts : Status(level, rest, collection, alerts) => level \in Levels
    BY HighestOf DEF Status
<1>3. CASE k = "disk"
    BY <1>2, <1>3, DiskStatus DEF Reported
<1>4. CASE k = "mysql"
    BY <1>2, <1>4, MySQLStatus DEF Reported
<1>5. CASE k = "redis"
    BY <1>2, <1>5, RedisStatus DEF Reported
<1>6. CASE k = "elasticsearch"
    BY <1>2, <1>6, ElasticsearchStatus DEF Reported
<1>7. CASE k = "rabbitmq"
    BY <1>2, <1>7, RabbitMQStatus DEF Reported
<1>8. CASE k = "java"
    BY <1>2, <1>8, JavaStatus DEF Reported
<1>9. CASE k = "host"
    BY <1>2, <1>9, HostStatus DEF Reported
<1> QED
    BY <1>1, <1>3, <1>4, <1>5, <1>6, <1>7, <1>8, <1>9

-----------------------------------------------------------------------------
(* The rows and clusters of a snapshot that is loaded anew stay of their kind, *)
(* and there are as many as there were.                                        *)
Typed ==
    /\ kind \in Kinds
    /\ \E s \in Snapshots[kind] : DOMAIN rows = DOMAIN s.rows
    /\ \A i \in DOMAIN rows : rows[i] \in Row(kind)
    /\ \A c \in DOMAIN clusters : clusters[c] \in Cluster(kind)

LEMMA Aged ==
    ASSUME NEW k \in Kinds, NEW r \in Row(k), NEW age \in Int
    PROVE  [r EXCEPT !.age = age] \in Row(k)
<1>1. k \in {"disk", "mysql", "redis", "elasticsearch", "rabbitmq", "java", "host"}
    BY ViewsAssumption DEF ViewsAssumption
<1>2. CASE k = "disk"
    BY <1>2 DEF Row, Disk!Device
<1>3. CASE k = "mysql"
    BY <1>3 DEF Row, MySQL!Instance
<1>4. CASE k = "redis"
    BY <1>4 DEF Row, Redis!Instance
<1>5. CASE k = "elasticsearch"
    BY <1>5 DEF Row, Elasticsearch!Node
<1>6. CASE k = "rabbitmq"
    BY <1>6 DEF Row, RabbitMQ!Node
<1>7. CASE k = "java"
    BY <1>7 DEF Row, Java!Service
<1>8. CASE k = "host"
    BY <1>8 DEF Row, Hosts!Host
<1> QED
    BY <1>1, <1>2, <1>3, <1>4, <1>5, <1>6, <1>7, <1>8

LEMMA AgeIsInt ==
    ASSUME NEW k \in Kinds, NEW r \in Row(k)
    PROVE  r.age \in Int
BY ViewsAssumption DEF ViewsAssumption, Row, Disk!Device, MySQL!Instance, Redis!Instance,
   Elasticsearch!Node, RabbitMQ!Node, Java!Service, Hosts!Host

LEMMA TypedInit == Init => Typed
<1> SUFFICES ASSUME Init PROVE Typed
    OBVIOUS
<1>1. kind \in Kinds /\ \E s \in Snapshots[kind] : rows = s.rows /\ clusters = s.clusters
    BY DEF Init
<1> QED
    BY <1>1, SnapshotsAssumption DEF SnapshotsAssumption, Typed

(* Every step keeps the kind, the clusters and the number of the rows. *)
LEMMA TypedStep ==
    ASSUME Typed, [Next]_vars
    PROVE  /\ Typed'
           /\ kind' = kind /\ clusters' = clusters /\ DOMAIN rows' = DOMAIN rows
<1> USE DEF Typed
<1>1. ASSUME NEW others, rows' = others, kind' = kind, clusters' = clusters,
             DOMAIN others = DOMAIN rows, \A i \in DOMAIN rows : others[i] \in Row(kind)
      PROVE  Typed' /\ kind' = kind /\ clusters' = clusters /\ DOMAIN rows' = DOMAIN rows
    BY <1>1
<1>2. CASE Pass
  <2>1. PICK S \in SUBSET {i \in DOMAIN rows : rows[i].age \in 0 .. 4} \ {{}} :
            Become([i \in DOMAIN rows |->
                      IF i \in S THEN [rows[i] EXCEPT !.age = IF @ = 0 THEN 2 ELSE 5] ELSE rows[i]])
      BY <1>2 DEF Pass
  <2> DEFINE others == [i \in DOMAIN rows |->
                 IF i \in S THEN [rows[i] EXCEPT !.age = IF @ = 0 THEN 2 ELSE 5] ELSE rows[i]]
  <2>2. rows' = others /\ kind' = kind /\ clusters' = clusters
      BY <2>1 DEF Become
  <2>3. \A i \in DOMAIN rows : others[i] \in Row(kind)
    <3> TAKE i \in DOMAIN rows
    <3>1. [rows[i] EXCEPT !.age = 2] \in Row(kind) /\ [rows[i] EXCEPT !.age = 5] \in Row(kind)
        BY Aged
    <3> QED
        BY <3>1
  <2> QED
      BY <1>1, <2>2, <2>3
<1>3. CASE Reload
  <2>1. PICK S \in SUBSET {i \in DOMAIN rows : Observes(rows[i])} :
            Become([i \in DOMAIN rows |-> IF i \in S THEN [rows[i] EXCEPT !.age = 0] ELSE rows[i]])
      BY <1>3 DEF Reload
  <2> DEFINE others == [i \in DOMAIN rows |-> IF i \in S THEN [rows[i] EXCEPT !.age = 0] ELSE rows[i]]
  <2>2. rows' = others /\ kind' = kind /\ clusters' = clusters
      BY <2>1 DEF Become
  <2>3. \A i \in DOMAIN rows : others[i] \in Row(kind)
      BY Aged
  <2> QED
      BY <1>1, <2>2, <2>3
<1>4. CASE Change
  <2>1. PICK i \in DOMAIN rows, row \in Variants[kind][Cardinality(DOMAIN rows)] :
            Become([rows EXCEPT ![i] = row])
      BY <1>4 DEF Change
  <2> DEFINE others == [rows EXCEPT ![i] = row]
  <2>2. rows' = others /\ kind' = kind /\ clusters' = clusters
      BY <2>1 DEF Become
  <2>3. row \in Row(kind)
      BY <2>1, SnapshotsAssumption DEF SnapshotsAssumption
  <2>4. DOMAIN others = DOMAIN rows /\ \A j \in DOMAIN rows : others[j] \in Row(kind)
      BY <2>3
  <2> QED
      BY <1>1, <2>2, <2>4
<1>5. CASE Ask \/ Turn \/ UNCHANGED vars
  <2>1. UNCHANGED <<kind, rows, clusters>>
      BY <1>5 DEF Ask, Turn, vars
  <2> QED
      BY <2>1
<1> QED
    BY <1>2, <1>3, <1>4, <1>5 DEF Next

LEMMA AlwaysTyped == Spec => []Typed
<1>1. Typed /\ [Next]_vars => Typed'
    BY TypedStep
<1> QED
    BY TypedInit, <1>1, PTL DEF Spec

(* What something counts at in the categories: the levels of its alerts, but *)
(* another one for those that are unknown.                                  *)
LEMMA CountedRange ==
    \A alerts, unknown :
        Range(CountedAs(alerts, unknown)) = {IF l = "unknown" THEN unknown ELSE l : l \in Range(alerts)}
BY DEF CountedAs, Range

LEMMA CountedSame ==
    /\ \A row : Disk!Counted(row) = CountedAs(Disk!Alerts(row), "normal")
    /\ \A row : MySQL!Counted(row) = CountedAs(MySQL!Alerts(row), "warning")
    /\ \A row : Redis!Counted(row) = CountedAs(Redis!Alerts(row), "warning")
    /\ \A row : Elasticsearch!Counted(row) = CountedAs(Elasticsearch!Alerts(row), "warning")
BY DEF CountedAs, Disk!Counted, Disk!CountedAs, MySQL!Counted, MySQL!CountedAs,
       Redis!Counted, Redis!CountedAs, Elasticsearch!Counted, Elasticsearch!CountedAs

(* Where the unknown is affected as a warning: what is not above the level is not *)
(* counted above it, and when one of the alerts is at the level, one is counted   *)
(* at it, unless the unknown is not counted.                                      *)
LEMMA CountedExplains ==
    ASSUME NEW alerts, Range(alerts) \subseteq Levels, NEW level \in Levels,
           \A l \in Range(alerts) : Rank[l] <= Rank[level],
           NEW unknown \in {"normal", "warning"}
    PROVE  LET affected == IF level = "unknown" THEN "warning" ELSE level
               counted == Range(CountedAs(alerts, unknown))
           IN  /\ \A l \in counted : Rank[l] <= Rank[affected]
               /\ level \in Range(alerts) \cup {"normal"} /\ (level = "unknown" => unknown = "warning") =>
                      affected \in counted \cup {"normal"}
<1> DEFINE affected == IF level = "unknown" THEN "warning" ELSE level
           Mapped(l) == IF l = "unknown" THEN unknown ELSE l
<1>1. Range(CountedAs(alerts, unknown)) = {Mapped(l) : l \in Range(alerts)}
    BY CountedRange
<1>2. \A l \in Range(alerts) : Rank[Mapped(l)] <= Rank[affected]
  <2> TAKE l \in Range(alerts)
  <2>1. l \in Levels /\ Rank[l] <= Rank[level] /\ Rank[level] <= Rank[affected]
      BY Ranks
  <2>2. CASE l = "unknown"
    <3>1. Rank[level] >= 1
        BY <2>1, <2>2, Ranks
    <3>2. level \in {"unknown", "warning", "critical"}
        BY <3>1, Ranks DEF Levels
    <3> QED
        BY <2>2, <3>2, Ranks
  <2>3. CASE l /= "unknown"
      BY <2>1, <2>3, Ranks
  <2> QED
      BY <2>2, <2>3
<1>3. level \in Range(alerts) /\ (level = "unknown" => unknown = "warning") => affected = Mapped(level)
    OBVIOUS
<1> QED
    BY <1>1, <1>2, <1>3

(* A node's status is that of its resources, of its rejections or of its collection. *)
LEMMA ElasticsearchAlerted ==
    ASSUME NEW n \in Row("elasticsearch")
    PROVE  \/ Elasticsearch!Summary(n).source = "collection"
           \/ Elasticsearch!Summary(n).level \in Range(Elasticsearch!Alerts(n)) \cup {"normal"}
<1> DEFINE p == Elasticsearch!NodePrecedence
           d == IF n.data THEN UsageLevel(n.disk, "unknown") ELSE "normal"
           h == UsageLevel(n.heap, "unknown")
           r == IF n.rejects THEN "warning" ELSE "normal"
           c == Elasticsearch!CollectionLevel(n)
           S == {Found(d, "disk"), Found(h, "jvm"), Found(r, "thread_pool"), Found(c, "collection")}
           w == Elasticsearch!Summary(n)
           resource == IF w.source \in {"disk", "jvm"} THEN w.level ELSE "normal"
<1>1. /\ n.data \in BOOLEAN /\ n.disk \in Usages /\ n.heap \in Usages /\ n.rejects \in BOOLEAN
      /\ n.age \in Int
    BY ElasticsearchSame DEF Row, Elasticsearch!Node
<1>2. "normal" \in Levels /\ "critical" \in Levels /\ "unknown" \in Levels /\ "warning" \in Levels
    BY DEF Levels
<1>3. d \in Levels /\ h \in Levels /\ r \in Levels /\ c \in Levels
    BY <1>1, <1>2, Meanings, ElasticsearchSame DEF Elasticsearch!CollectionLevel
<1>4. w = Worst(S, p)
  <2>1. Elasticsearch!NodeFindings(n) = {Found(d, "disk"), Found(h, "jvm"), Found(r, "thread_pool")}
      BY ElasticsearchSame DEF Elasticsearch!NodeFindings
  <2>2. w = Worst(Elasticsearch!NodeFindings(n) \cup {Found(c, "collection")}, p)
      BY ElasticsearchSame DEF Elasticsearch!Summary
  <2> QED
      BY <2>1, <2>2
<1>5. Range(Elasticsearch!Alerts(n)) = {resource, r}
    BY DEF Elasticsearch!Alerts, Range
<1> HIDE DEF d, h, r, c, w
<1>6. Findings(S, p)
  <2>1. \A s \in {"disk", "jvm", "thread_pool", "collection", "normal"} : p[s] \in 0 .. 6
      BY DEF Elasticsearch!NodePrecedence
  <2> HIDE DEF p
  <2>2. \A f \in S : f.level \in Levels /\ f.source \in {"disk", "jvm", "thread_pool", "collection", "normal"}
      BY <1>3, FoundIs
  <2> QED
      BY <2>1, <2>2 DEF Findings
<1>7. w \in S
    BY <1>4, <1>6, WorstOf
<1>8. w.source \in {"disk", "jvm"} \/ w.source = "collection" \/ w.level \in {r, "normal"}
    BY <1>7 DEF Found
<1> QED
    BY <1>5, <1>8 DEF w

(* Of no row of any service a category of the overview counts a higher level    *)
(* than the row is affected at, and one counts that level, but for unknown disks *)
(* and nodes that are no longer collected (the Overview and summarize functions).*)
THEOREM AlertsExplain == Spec => []AlertsExplainStatus
<1>1. Typed => AlertsExplainStatus
  <2> SUFFICES ASSUME Typed, NEW i \in DOMAIN rows
               PROVE  LET affected == AffectedLevel(rows[i])
                      IN  /\ \A level \in CountedLevels(rows[i]) : Rank[level] <= Rank[affected]
                          /\ affected \in CountedLevels(rows[i]) \cup {"normal"} \/ Unalerted(rows[i])
      BY DEF AlertsExplainStatus
  <2> DEFINE row == rows[i]
             level == Summary(row).level
  <2>1. /\ kind \in {"disk", "mysql", "redis", "elasticsearch", "rabbitmq", "java", "host"}
        /\ row \in Row(kind)
      BY ViewsAssumption DEF ViewsAssumption, Typed
  <2> HIDE DEF row
  <2>2. \A S : S \subseteq Levels /\ level = Highest(S) =>
                  /\ level \in Levels /\ level \in S \cup {"normal"}
                  /\ \A l \in S : Rank[l] <= Rank[level]
      BY HighestOf
  <2>3. CASE kind = "disk"
    <3>1. Range(Disk!Alerts(row)) \subseteq Levels /\ level = Highest(Range(Disk!Alerts(row)))
        BY <2>1, <2>3, DiskStatus DEF Status, Summary
    <3>2. /\ CountedLevels(row) = Range(CountedAs(Disk!Alerts(row), "normal"))
          /\ AffectedLevel(row) = IF level = "unknown" THEN "warning" ELSE level
          /\ level = "unknown" => Unalerted(row)
        BY <2>3, CountedSame DEF CountedLevels, AffectedLevel, Unalerted
    <3> QED
        BY <2>2, <3>1, <3>2, CountedExplains DEF row
  <2>4. CASE kind = "mysql"
    <3>1. Range(MySQL!Alerts(row)) \subseteq Levels /\ level = Highest(Range(MySQL!Alerts(row)))
        BY <2>1, <2>4, MySQLStatus DEF Status, Summary
    <3>2. /\ CountedLevels(row) = Range(CountedAs(MySQL!Alerts(row), "warning"))
          /\ AffectedLevel(row) = IF level = "unknown" THEN "warning" ELSE level
        BY <2>4, CountedSame DEF CountedLevels, AffectedLevel
    <3> QED
        BY <2>2, <3>1, <3>2, CountedExplains DEF row
  <2>5. CASE kind = "redis"
    <3>1. Range(Redis!Alerts(row)) \subseteq Levels /\ level = Highest(Range(Redis!Alerts(row)))
        BY <2>1, <2>5, RedisStatus DEF Status, Summary
    <3>2. /\ CountedLevels(row) = Range(CountedAs(Redis!Alerts(row), "warning"))
          /\ AffectedLevel(row) = IF level = "unknown" THEN "warning" ELSE level
        BY <2>5, CountedSame DEF CountedLevels, AffectedLevel
    <3> QED
        BY <2>2, <3>1, <3>2, CountedExplains DEF row
  <2>6. CASE kind = "elasticsearch"
    <3> DEFINE A == Range(Elasticsearch!Alerts(row))
               c == Elasticsearch!CollectionLevel(row)
    <3>1. A \cup {c} \subseteq Levels /\ level = Highest(A \cup {c})
        BY <2>1, <2>6, ElasticsearchStatus DEF Status, Summary
    <3>2. /\ CountedLevels(row) = Range(CountedAs(Elasticsearch!Alerts(row), "warning"))
          /\ AffectedLevel(row) = IF level = "unknown" THEN "warning" ELSE level
        BY <2>6, CountedSame DEF CountedLevels, AffectedLevel
    <3>3. level \in A \cup {"normal"} \/ Unalerted(row)
        BY <2>1, <2>6, ElasticsearchAlerted DEF Unalerted, Summary
    <3>4. A \subseteq Levels /\ level \in Levels /\ \A l \in A : Rank[l] <= Rank[level]
        BY <2>2, <3>1
    <3> QED
        BY <3>2, <3>3, <3>4, CountedExplains DEF row
  <2>7. CASE kind = "rabbitmq"
      BY <2>1, <2>2, <2>7, RabbitMQStatus DEF Status, CountedLevels, AffectedLevel, Summary, row
  <2>8. CASE kind = "java"
      BY <2>1, <2>2, <2>8, JavaStatus DEF Status, CountedLevels, AffectedLevel, Summary, row
  <2>9. CASE kind = "host"
      BY <2>1, <2>2, <2>9, HostStatus DEF Status, CountedLevels, AffectedLevel, Summary, row
  <2> QED
      BY <2>1, <2>3, <2>4, <2>5, <2>6, <2>7, <2>8, <2>9
<1> QED
    BY AlwaysTyped, <1>1, PTL

-----------------------------------------------------------------------------
(* The level of a module as a whole is the highest of its clusters' and its rows'. *)
ClusterReported(k, c) ==
    IF k = "elasticsearch" THEN Elasticsearch!ClusterSummary(c).level ELSE RabbitMQ!Connectivity[c]

LEMMA ClusterReportedIsLevel ==
    ASSUME NEW k \in {"elasticsearch", "rabbitmq"}, NEW c \in Cluster(k)
    PROVE  ClusterReported(k, c) \in Levels
<1>1. CASE k = "rabbitmq"
    BY <1>1 DEF Cluster, ClusterReported, RabbitMQ!Connectivity, Levels
<1>2. CASE k = "elasticsearch"
  <2> DEFINE p == Elasticsearch!ClusterPrecedence
             a == Elasticsearch!SwitchLevel(c.availability)
             t == Elasticsearch!SwitchLevel(c.stats)
             h == Elasticsearch!HealthLevel[c.health]
             l == Elasticsearch!CollectionLevel(c)
             S == {Found(a, "availability"), Found(t, "collection"), Found(h, "health"), Found(l, "collection")}
  <2>1. /\ c.availability \in {"up", "down", "unknown"} /\ c.stats \in {"up", "down", "unknown"}
        /\ c.health \in {"green", "yellow", "red", "unknown"} /\ c.age \in Int
      BY <1>2 DEF Cluster, Elasticsearch!Cluster, Elasticsearch!Switches, Elasticsearch!Healths
  <2>2. "normal" \in Levels /\ "warning" \in Levels /\ "critical" \in Levels /\ "unknown" \in Levels
      BY DEF Levels
  <2>3. a \in Levels /\ t \in Levels /\ h \in Levels
      BY <2>1, <2>2 DEF Elasticsearch!SwitchLevel, Elasticsearch!HealthLevel
  <2>4. l \in Levels
      BY <2>1, <2>2, Meanings, ElasticsearchSame DEF Elasticsearch!CollectionLevel
  <2>5. Elasticsearch!ClusterSummary(c) = Worst(S, p)
      BY ElasticsearchSame DEF Elasticsearch!ClusterSummary
  <2> HIDE DEF a, t, h, l
  <2>6. \A s \in {"availability", "health", "collection", "normal"} : p[s] \in 0 .. 6
      BY DEF Elasticsearch!ClusterPrecedence
  <2>7. \A f \in S : f.level \in Levels /\ f.source \in {"availability", "health", "collection", "normal"}
      BY <2>3, <2>4, FoundIs
  <2>8. S /= {}
      OBVIOUS
  <2> HIDE DEF S, p
  <2>9. Findings(S, p)
      BY <2>6, <2>7, <2>8 DEF Findings
  <2> QED
      BY <1>2, <2>5, <2>7, <2>9, WorstOf DEF ClusterReported
<1> QED
    BY <1>1, <1>2

(* What the rows and clusters of a service are reported as. *)
Reports(k, rs, cs) ==
    {Reported(k, rs[i]) : i \in DOMAIN rs}
    \cup (IF k = "java" THEN {} ELSE {ClusterReported(k, cs[c]) : c \in DOMAIN cs})

LEMMA OverviewIs ==
    kind \in {"elasticsearch", "rabbitmq", "java"} =>
        Overview.status = Highest(Reports(kind, rows, clusters))
<1>1. CASE kind = "elasticsearch"
  <2>1. Overview.status =
            Highest({Elasticsearch!ClusterSummary(clusters[c]).level : c \in DOMAIN clusters}
                    \cup {Elasticsearch!Summary(rows[i]).level : i \in DOMAIN rows})
      BY <1>1, ElasticsearchSame DEF Overview, Elasticsearch!Overview
  <2>2. Reports(kind, rows, clusters) =
            {Elasticsearch!ClusterSummary(clusters[c]).level : c \in DOMAIN clusters}
            \cup {Elasticsearch!Summary(rows[i]).level : i \in DOMAIN rows}
      BY <1>1 DEF Reports, Reported, ClusterReported
  <2> QED
      BY <2>1, <2>2
<1>2. CASE kind = "rabbitmq"
  <2>1. Overview.status =
            Highest({RabbitMQ!Connectivity[clusters[c]] : c \in DOMAIN clusters}
                    \cup {RabbitMQ!Summary(rows[i]).level : i \in DOMAIN rows})
      BY <1>2, RabbitMQSame DEF Overview, RabbitMQ!Overview
  <2>2. Reports(kind, rows, clusters) =
            {RabbitMQ!Connectivity[clusters[c]] : c \in DOMAIN clusters}
            \cup {RabbitMQ!Summary(rows[i]).level : i \in DOMAIN rows}
      BY <1>2 DEF Reports, Reported, ClusterReported
  <2> QED
      BY <2>1, <2>2
<1>3. CASE kind = "java"
  <2>1. Overview.status = Highest({Java!Summary(rows[i]).level : i \in DOMAIN rows})
      BY <1>3, JavaSame DEF Overview, Java!Overview
  <2>2. Reports(kind, rows, clusters) = {Java!Summary(rows[i]).level : i \in DOMAIN rows}
      BY <1>3 DEF Reports, Reported
  <2> QED
      BY <2>1, <2>2
<1> QED
    BY <1>1, <1>2, <1>3

(* Three services have a level as a whole. *)
LEMMA Leveled ==
    ASSUME kind \in Kinds, "status" \in DOMAIN Overview
    PROVE  kind \in {"elasticsearch", "rabbitmq", "java"}
<1>1. kind \in {"disk", "mysql", "redis", "elasticsearch", "rabbitmq", "java", "host"}
    BY ViewsAssumption DEF ViewsAssumption
<1>2. kind /= "disk"
    BY DEF Overview, Disk!Overview
<1>3. kind /= "mysql"
    BY DEF Overview, MySQL!Overview
<1>4. kind /= "redis"
    BY DEF Overview, Redis!Overview
<1>5. kind /= "host"
    BY DEF Overview, Hosts!Overview
<1> QED
    BY <1>1, <1>2, <1>3, <1>4, <1>5

(* Time never heals: a status does not fall, nor does the level of the module, *)
(* unless there is a newer sample or another figure.                           *)
THEOREM TimeNeverHeals == Spec => OnlyNewsImproves
<1> DEFINE older(i) ==
              /\ rows'[i].age \in {rows[i].age} \cup (IF rows[i].age >= 0 THEN rows[i].age .. 5 ELSE {})
              /\ [rows'[i] EXCEPT !.age = rows[i].age] = rows[i]
           Heals ==
              /\ \A i \in DOMAIN rows :
                    older(i) => Rank[Summary(rows[i])'.level] >= Rank[Summary(rows[i]).level]
              /\ (\A i \in DOMAIN rows : older(i)) /\ "status" \in DOMAIN Overview =>
                    Rank[Overview'.status] >= Rank[Overview.status]
<1> DEFINE Says == kind \in {"elasticsearch", "rabbitmq", "java"} =>
                       Overview.status = Highest(Reports(kind, rows, clusters))
<1>0. Says /\ Says'
    BY OverviewIs, PTL
<1>1. ASSUME Typed, Typed', [Next]_vars PROVE Heals
  <2>1. /\ kind \in Kinds /\ kind' = kind /\ clusters' = clusters /\ DOMAIN rows' = DOMAIN rows
        /\ \A i \in DOMAIN rows : rows[i] \in Row(kind) /\ rows'[i] \in Row(kind)
        /\ \A c \in DOMAIN clusters : clusters[c] \in Cluster(kind)
    <3>1. kind' = kind /\ clusters' = clusters /\ DOMAIN rows' = DOMAIN rows
        BY <1>1, TypedStep
    <3> QED
        BY <1>1, <3>1 DEF Typed
  <2>2. PICK k, old, new, cs :
            /\ k \in Kinds /\ k = kind /\ old = rows /\ new = rows' /\ cs = clusters
            /\ DOMAIN new = DOMAIN old
            /\ \A i \in DOMAIN old : old[i] \in Row(k) /\ new[i] \in Row(k)
            /\ \A c \in DOMAIN cs : cs[c] \in Cluster(k)
      BY <2>1
  <2>3. \A i \in DOMAIN old : older(i) => Rank[Reported(k, old[i])] <= Rank[Reported(k, new[i])]
    <3> SUFFICES ASSUME NEW i \in DOMAIN old, older(i)
                 PROVE  Rank[Reported(k, old[i])] <= Rank[Reported(k, new[i])]
        OBVIOUS
    <3>1. old[i].age \in Int
        BY <2>2, AgeIsInt
    <3>2. Older(old[i], new[i])
        BY <2>2, <3>1 DEF Older
    <3> QED
        BY <2>2, <3>2, ReportedRises
  <2>4. \A i \in DOMAIN old : /\ Summary(rows[i]).level = Reported(k, old[i])
                              /\ Summary(rows[i])'.level = Reported(k, new[i])
    <3>1. kind \in {"disk", "mysql", "redis", "elasticsearch", "rabbitmq", "java", "host"}
        BY <2>1, ViewsAssumption DEF ViewsAssumption
    <3> QED
        BY <2>1, <2>2, <3>1 DEF Summary, Reported
  <2>5. ASSUME \A i \in DOMAIN rows : older(i), "status" \in DOMAIN Overview
        PROVE  Rank[Overview'.status] >= Rank[Overview.status]
    <3>1. k \in {"elasticsearch", "rabbitmq", "java"} /\ Overview.status = Highest(Reports(k, old, cs))
        BY <1>0, <2>1, <2>2, <2>5, Leveled
    <3>2. Overview'.status = Highest(Reports(k, new, cs))
        BY <1>0, <2>1, <2>2, <3>1
    <3>3. Reports(k, old, cs) \in SUBSET Levels /\ Reports(k, new, cs) \in SUBSET Levels
      <4>1. \A c \in DOMAIN cs : k /= "java" => ClusterReported(k, cs[c]) \in Levels
          BY <2>2, <3>1, ClusterReportedIsLevel
      <4>2. \A i \in DOMAIN old : Reported(k, old[i]) \in Levels /\ Reported(k, new[i]) \in Levels
          BY <2>2, ReportedIsLevel
      <4> QED
          BY <2>2, <3>1, <4>1, <4>2 DEF Reports
    <3>4. \A l \in Reports(k, old, cs) : \E m \in Reports(k, new, cs) : Rank[l] <= Rank[m]
      <4>1. \A i \in DOMAIN old : Rank[Reported(k, old[i])] <= Rank[Reported(k, new[i])]
          BY <2>2, <2>3, <2>5
      <4>2. \A l \in Reports(k, old, cs) : Rank[l] \in 0 .. 3
          BY <3>3, Ranks
      <4> QED
          BY <2>2, <4>1, <4>2 DEF Reports
    <3>5. \A l \in Levels : Rank[l] \in 0 .. 3
        BY Ranks
    <3> QED
        BY <3>1, <3>2, <3>3, <3>4, <3>5, HighestRises, HighestOf
  <2>6. \A i \in DOMAIN old : Rank[Reported(k, old[i])] \in 0 .. 3 /\ Rank[Reported(k, new[i])] \in 0 .. 3
      BY <2>2, ReportedIsLevel, Ranks
  <2> QED
      BY <2>2, <2>3, <2>4, <2>5, <2>6
<1>2. Typed /\ Typed' /\ [Next]_vars => Heals
    BY <1>1
<1> QED
    BY AlwaysTyped, <1>2, PTL DEF Spec, OnlyNewsImproves
=============================================================================
