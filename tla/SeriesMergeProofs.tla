--------------------------- MODULE SeriesMergeProofs ---------------------------
(***************************************************************************)
(* That the merges of SeriesMerge do not depend on the order of the series, *)
(* for every set of times and values.  The entry is shown to be a summary   *)
(* of the series merged so far (EntryInv); the lemmas say how one merge     *)
(* changes the summary, kind by kind.                                       *)
(***************************************************************************)
EXTENDS SeriesMerge, TLAPS

(* The entry e shows that it knows of a dispute. *)
Marked(e) == IF kind = "mysql" THEN e.value = Blank /\ ~e.conflict ELSE e.conflict

(* Nothing but a role that is not one conflicts with itself. *)
Calm(e) == e.conflict => kind = "role" /\ e.value = Blank

(* e is the entry of some series, and the rule neither passes s over nor rejects it. *)
Mergeable(e, s) ==
    /\ kind \in Kinds
    /\ e \in Entry
    /\ s \in Series
    /\ e = NoEntry \/ (e.present /\ e.time \in Times)
    /\ kind = "java" /\ e.present /\ e.value = Blank => e.conflict
    /\ ~PassedOver(s)
    /\ ~Rejects(e, s)

(* The kinds are the rules listed. *)
LEMMA KindCases ==
    ASSUME kind \in Kinds
    PROVE  \/ kind = "mysql" \/ kind = "flagged" \/ kind = "java" \/ kind = "elasticsearch"
           \/ kind = "role" \/ kind = "disk_inventory" \/ kind = "java_inventory"
           \/ kind = "elasticsearch_inventory" \/ kind = "rabbitmq_inventory"
           \/ kind = "single_inventory"
  BY SeriesMergeAssumption DEF SeriesMergeAssumption, Metrics, Inventories

(* The times of samples are later than the zero time. *)
LEMMA TimesPositive == \A t \in Times : t \in Nat /\ t > 0
  BY SeriesMergeAssumption

(* What a merge starts from. *)
Known(e, s) ==
    /\ e \in Entry /\ s \in Series
    /\ e.time \in Nat /\ s.time \in Nat /\ s.time > 0
    /\ e = NoEntry => e.time = 0 /\ e.value = Blank /\ ~e.conflict /\ ~e.present
    /\ e /= NoEntry => e.time > 0 /\ e.present

(* A merge that can happen starts so. *)
LEMMA KnownFacts ==
    ASSUME NEW e, NEW s, Mergeable(e, s)
    PROVE  Known(e, s)
<1> USE TimesPositive DEF Mergeable
<1>1. e.time \in Times \cup {0} /\ s.time \in Times
  BY DEF Entry, Series, ZeroTime
<1>2. e.time \in Nat /\ s.time \in Nat /\ s.time > 0
  BY <1>1
<1>3. e = NoEntry => e.time = 0 /\ e.value = Blank /\ ~e.conflict /\ ~e.present
  BY DEF NoEntry, ZeroTime
<1>4. e /= NoEntry => e.time > 0 /\ e.present
  OBVIOUS
<1> QED
  BY <1>1, <1>2, <1>3, <1>4 DEF Known

(* The situations of a merge, which the rules tell apart. *)
Later(e, s) == e = NoEntry \/ s.time > e.time
Earlier(e, s) == e /= NoEntry /\ s.time < e.time
Level(e, s) == e /= NoEntry /\ s.time = e.time

Apart(e, s) ==
    /\ Later(e, s) \/ Earlier(e, s) \/ Level(e, s)
    /\ Later(e, s) => /\ ~Earlier(e, s) /\ ~Level(e, s)
                      /\ s.time > e.time /\ ~(s.time < e.time)
                      /\ ~e.present \/ s.time > e.time
    /\ Earlier(e, s) => /\ ~Later(e, s) /\ ~Level(e, s) /\ e.present
                        /\ ~(s.time > e.time) /\ s.time /= e.time /\ s.time < e.time
    /\ Level(e, s) => /\ ~Later(e, s) /\ ~Earlier(e, s) /\ e.present
                      /\ ~(s.time > e.time) /\ ~(s.time < e.time) /\ s.time = e.time
                      /\ e.time /= ZeroTime

(* The comparisons that the rules make, in each situation. *)
LEMMA Situations ==
    ASSUME NEW e, NEW s, Known(e, s)
    PROVE  Apart(e, s)
  BY DEF Apart, Known, Later, Earlier, Level, ZeroTime

(* How a merge of s changes the entry e to m, in any rule but that of the disks. *)
Law(e, s, m) ==
    /\ Later(e, s) =>
           m \in Entry /\ m.present /\ m.time = s.time /\ m.value = s.value /\ Calm(m)
    /\ Earlier(e, s) => m = e
    /\ Level(e, s) =>
           /\ m \in Entry /\ m.present /\ m.time = e.time
           /\ Calm(e) /\ s.value = e.value => m.value = e.value /\ Calm(m)
           /\ Marked(e) \/ (Calm(e) /\ s.value /= e.value) => Marked(m)

(* A series taken over makes a calm entry. *)
LEMMA TakenFacts ==
    ASSUME NEW s \in Series
    PROVE  /\ Taken(s) \in Entry /\ Taken(s).present /\ Taken(s).time = s.time
           /\ Taken(s).value = s.value /\ Taken(s).conflict = FALSE
  BY DEF Series, Taken, Entry

(* An entry that does not change obeys the law if it is not to be marked. *)
LEMMA Kept ==
    ASSUME NEW e, NEW s, Known(e, s), Level(e, s),
           Marked(e) \/ ~Calm(e) \/ s.value = e.value
    PROVE  Law(e, s, e)
  BY Situations DEF Apart, Law, Known, Marked, Calm

(* The rule that keeps no mark, of which Blank is one. *)
LEMMA MySQLLaw ==
    ASSUME NEW e, NEW s, Known(e, s), kind = "mysql", s.value /= Blank
    PROVE  Law(e, s, MergeMySQL(e, s))
<1> DEFINE m == MergeMySQL(e, s)
<1> SUFFICES Law(e, s, m)
  OBVIOUS
<1>0. Apart(e, s)
  BY Situations
<1> USE <1>0 DEF Apart
<1>1. CASE Later(e, s)
  <2>1. m = Taken(s)
    BY <1>1 DEF MergeMySQL
  <2> QED
    BY <1>1, <2>1, TakenFacts DEF Law, Known, Calm
<1>2. CASE Earlier(e, s)
  <2>1. m = e
    BY <1>2 DEF MergeMySQL, Known, Entry
  <2> QED
    BY <1>2, <2>1 DEF Law
<1>3. CASE Level(e, s)
  <2>1. CASE e.value /= s.value
    <3>1. m = [e EXCEPT !.value = Blank, !.conflict = e.conflict]
      BY <1>3, <2>1 DEF MergeMySQL, Known, Entry
    <3>2. Blank \in Texts \cup {Blank} /\ e.conflict \in BOOLEAN /\ e \in Entry
      BY DEF Known, Entry
    <3> HIDE DEF m
    <3>3. /\ m \in Entry /\ m.present = e.present /\ m.time = e.time
          /\ m.value = Blank /\ m.conflict = e.conflict
      BY <3>1, <3>2 DEF Entry
    <3>4. Marked(e) \/ Calm(e) => Marked(m)
      BY <2>1, <3>3 DEF Marked, Calm
    <3>5. ~(Calm(e) /\ s.value = e.value) \/ (m.value = e.value /\ Calm(m))
      BY <2>1, <3>3 DEF Calm
    <3> QED
      BY <1>3, <3>3, <3>4, <3>5 DEF Law
  <2>2. CASE ~(e.value /= s.value)
    <3>1. m = e
      BY <1>3, <2>2 DEF MergeMySQL, Known, Entry
    <3>2. Marked(e) \/ ~Calm(e) \/ s.value = e.value
      BY <1>3, <2>2 DEF Marked, Calm, Known, Entry
    <3> QED
      BY <1>3, <3>1, <3>2, Kept
  <2> QED
    BY <2>1, <2>2
<1> QED
  BY <1>1, <1>2, <1>3

(* The rule with a mark. *)
LEMMA FlaggedLaw ==
    ASSUME NEW e, NEW s, Known(e, s), kind = "flagged"
    PROVE  Law(e, s, MergeFlagged(e, s))
<1> DEFINE m == MergeFlagged(e, s)
<1> SUFFICES Law(e, s, m)
  OBVIOUS
<1>0. Apart(e, s)
  BY Situations
<1> USE <1>0 DEF Apart
<1>1. CASE Later(e, s)
  <2>1. m = Taken(s)
    BY <1>1 DEF MergeFlagged
  <2> QED
    BY <1>1, <2>1, TakenFacts DEF Law, Known, Calm
<1>2. CASE Earlier(e, s)
  <2>1. m = e
    BY <1>2 DEF MergeFlagged, Known, Entry
  <2> QED
    BY <1>2, <2>1 DEF Law
<1>3. CASE Level(e, s)
  <2>1. CASE ~e.conflict /\ e.value /= s.value
    <3>1. m = [e EXCEPT !.value = Blank, !.conflict = TRUE]
      BY <1>3, <2>1 DEF MergeFlagged, Known, Entry
    <3>2. Blank \in Texts \cup {Blank} /\ TRUE \in BOOLEAN /\ e \in Entry
      BY DEF Known, Entry
    <3> HIDE DEF m
    <3>3. /\ m \in Entry /\ m.present = e.present /\ m.time = e.time
          /\ m.value = Blank /\ m.conflict = TRUE
      BY <3>1, <3>2 DEF Entry
    <3>4. Marked(e) \/ Calm(e) => Marked(m)
      BY <2>1, <3>3 DEF Marked, Calm
    <3>5. ~(Calm(e) /\ s.value = e.value) \/ (m.value = e.value /\ Calm(m))
      BY <2>1, <3>3 DEF Calm
    <3> QED
      BY <1>3, <3>3, <3>4, <3>5 DEF Law
  <2>2. CASE ~(~e.conflict /\ e.value /= s.value)
    <3>1. m = e
      BY <1>3, <2>2 DEF MergeFlagged, Known, Entry
    <3>2. Marked(e) \/ ~Calm(e) \/ s.value = e.value
      BY <1>3, <2>2 DEF Marked, Calm, Known, Entry
    <3> QED
      BY <1>3, <3>1, <3>2, Kept
  <2> QED
    BY <2>1, <2>2
<1> QED
  BY <1>1, <1>2, <1>3

(* The rule of Java samples, which tells its first sample by present. *)
LEMMA JavaLaw ==
    ASSUME NEW e, NEW s, Known(e, s), kind = "java", s.value /= Blank,
           e.present /\ e.value = Blank => e.conflict
    PROVE  Law(e, s, MergeJava(e, s))
<1> DEFINE m == MergeJava(e, s)
<1> SUFFICES Law(e, s, m)
  OBVIOUS
<1>0. Apart(e, s)
  BY Situations
<1> USE <1>0 DEF Apart
<1>1. CASE Later(e, s)
  <2>1. m = Taken(s)
    BY <1>1 DEF MergeJava
  <2> QED
    BY <1>1, <2>1, TakenFacts DEF Law, Known, Calm
<1>2. CASE Earlier(e, s)
  <2>1. m = e
    BY <1>2 DEF MergeJava, Known, Entry
  <2> QED
    BY <1>2, <2>1 DEF Law
<1>3. CASE Level(e, s)
  <2>1. CASE e.value /= Blank /\ e.value /= s.value
    <3>1. m = [e EXCEPT !.value = Blank, !.conflict = TRUE]
      BY <1>3, <2>1 DEF MergeJava, Known, Entry
    <3>2. Blank \in Texts \cup {Blank} /\ TRUE \in BOOLEAN /\ e \in Entry
      BY DEF Known, Entry
    <3> HIDE DEF m
    <3>3. /\ m \in Entry /\ m.present = e.present /\ m.time = e.time
          /\ m.value = Blank /\ m.conflict = TRUE
      BY <3>1, <3>2 DEF Entry
    <3>4. Marked(e) \/ Calm(e) => Marked(m)
      BY <2>1, <3>3 DEF Marked, Calm
    <3>5. ~(Calm(e) /\ s.value = e.value) \/ (m.value = e.value /\ Calm(m))
      BY <2>1, <3>3 DEF Calm
    <3> QED
      BY <1>3, <3>3, <3>4, <3>5 DEF Law
  <2>2. CASE ~(e.value /= Blank /\ e.value /= s.value)
    <3>1. m = e
      BY <1>3, <2>2 DEF MergeJava, Known, Entry
    <3>2. Marked(e) \/ ~Calm(e) \/ s.value = e.value
      BY <1>3, <2>2 DEF Marked, Calm, Known, Entry
    <3> QED
      BY <1>3, <3>1, <3>2, Kept
  <2> QED
    BY <2>1, <2>2
<1> QED
  BY <1>1, <1>2, <1>3

(* The rule that keeps the disputed value. *)
LEMMA ElasticsearchLaw ==
    ASSUME NEW e, NEW s, Known(e, s), kind = "elasticsearch"
    PROVE  Law(e, s, MergeElasticsearch(e, s))
<1> DEFINE m == MergeElasticsearch(e, s)
<1> SUFFICES Law(e, s, m)
  OBVIOUS
<1>0. Apart(e, s)
  BY Situations
<1> USE <1>0 DEF Apart
<1>1. CASE Later(e, s)
  <2>1. m = Taken(s)
    BY <1>1 DEF MergeElasticsearch
  <2> QED
    BY <1>1, <2>1, TakenFacts DEF Law, Known, Calm
<1>2. CASE Earlier(e, s)
  <2>1. m = e
    BY <1>2 DEF MergeElasticsearch, Known, Entry
  <2> QED
    BY <1>2, <2>1 DEF Law
<1>3. CASE Level(e, s)
  <2>1. CASE e.value /= s.value
    <3>1. m = [e EXCEPT !.value = e.value, !.conflict = TRUE]
      BY <1>3, <2>1 DEF MergeElasticsearch, Known, Entry
    <3>2. e.value \in Texts \cup {Blank} /\ TRUE \in BOOLEAN /\ e \in Entry
      BY DEF Known, Entry
    <3> HIDE DEF m
    <3>3. /\ m \in Entry /\ m.present = e.present /\ m.time = e.time
          /\ m.value = e.value /\ m.conflict = TRUE
      BY <3>1, <3>2 DEF Entry
    <3>4. Marked(e) \/ Calm(e) => Marked(m)
      BY <2>1, <3>3 DEF Marked, Calm
    <3>5. ~(Calm(e) /\ s.value = e.value) \/ (m.value = e.value /\ Calm(m))
      BY <2>1, <3>3 DEF Calm
    <3> QED
      BY <1>3, <3>3, <3>4, <3>5 DEF Law
  <2>2. CASE ~(e.value /= s.value)
    <3>1. m = e
      BY <1>3, <2>2 DEF MergeElasticsearch, Known, Entry
    <3>2. Marked(e) \/ ~Calm(e) \/ s.value = e.value
      BY <1>3, <2>2 DEF Marked, Calm, Known, Entry
    <3> QED
      BY <1>3, <3>1, <3>2, Kept
  <2> QED
    BY <2>1, <2>2
<1> QED
  BY <1>1, <1>2, <1>3

(* The addresses of Elasticsearch nodes. *)
LEMMA ElasticsearchInventoryLaw ==
    ASSUME NEW e, NEW s, Known(e, s), kind = "elasticsearch_inventory"
    PROVE  Law(e, s, MergeElasticsearchInventory(e, s))
<1> DEFINE m == MergeElasticsearchInventory(e, s)
<1> SUFFICES Law(e, s, m)
  OBVIOUS
<1>0. Apart(e, s)
  BY Situations
<1> USE <1>0 DEF Apart
<1>1. CASE Later(e, s)
  <2>1. m = Taken(s)
    BY <1>1 DEF MergeElasticsearchInventory
  <2> QED
    BY <1>1, <2>1, TakenFacts DEF Law, Known, Calm
<1>2. CASE Earlier(e, s)
  <2>1. m = e
    BY <1>2 DEF MergeElasticsearchInventory, Known, Entry
  <2> QED
    BY <1>2, <2>1 DEF Law
<1>3. CASE Level(e, s)
  <2>1. CASE ~e.conflict /\ e.value /= s.value
    <3>1. m = [e EXCEPT !.value = Blank, !.conflict = TRUE]
      BY <1>3, <2>1 DEF MergeElasticsearchInventory, Known, Entry
    <3>2. Blank \in Texts \cup {Blank} /\ TRUE \in BOOLEAN /\ e \in Entry
      BY DEF Known, Entry
    <3> HIDE DEF m
    <3>3. /\ m \in Entry /\ m.present = e.present /\ m.time = e.time
          /\ m.value = Blank /\ m.conflict = TRUE
      BY <3>1, <3>2 DEF Entry
    <3>4. Marked(e) \/ Calm(e) => Marked(m)
      BY <2>1, <3>3 DEF Marked, Calm
    <3>5. ~(Calm(e) /\ s.value = e.value) \/ (m.value = e.value /\ Calm(m))
      BY <2>1, <3>3 DEF Calm
    <3> QED
      BY <1>3, <3>3, <3>4, <3>5 DEF Law
  <2>2. CASE ~(~e.conflict /\ e.value /= s.value)
    <3>1. m = e
      BY <1>3, <2>2 DEF MergeElasticsearchInventory, Known, Entry
    <3>2. Marked(e) \/ ~Calm(e) \/ s.value = e.value
      BY <1>3, <2>2 DEF Marked, Calm, Known, Entry
    <3> QED
      BY <1>3, <3>1, <3>2, Kept
  <2> QED
    BY <2>1, <2>2
<1> QED
  BY <1>1, <1>2, <1>3

(* The identities of RabbitMQ nodes. *)
LEMMA RabbitMQInventoryLaw ==
    ASSUME NEW e, NEW s, Known(e, s), kind = "rabbitmq_inventory"
    PROVE  Law(e, s, MergeRabbitMQInventory(e, s))
<1> DEFINE m == MergeRabbitMQInventory(e, s)
<1> SUFFICES Law(e, s, m)
  OBVIOUS
<1>0. Apart(e, s)
  BY Situations
<1> USE <1>0 DEF Apart
<1>1. CASE Later(e, s)
  <2>1. m = Taken(s)
    BY <1>1 DEF MergeRabbitMQInventory
  <2> QED
    BY <1>1, <2>1, TakenFacts DEF Law, Known, Calm
<1>2. CASE Earlier(e, s)
  <2>1. m = e
    BY <1>2 DEF MergeRabbitMQInventory, Known, Entry
  <2> QED
    BY <1>2, <2>1 DEF Law
<1>3. CASE Level(e, s)
  <2>1. CASE e.value /= s.value
    <3>1. m = [e EXCEPT !.value = e.value, !.conflict = TRUE]
      BY <1>3, <2>1 DEF MergeRabbitMQInventory, Known, Entry
    <3>2. e.value \in Texts \cup {Blank} /\ TRUE \in BOOLEAN /\ e \in Entry
      BY DEF Known, Entry
    <3> HIDE DEF m
    <3>3. /\ m \in Entry /\ m.present = e.present /\ m.time = e.time
          /\ m.value = e.value /\ m.conflict = TRUE
      BY <3>1, <3>2 DEF Entry
    <3>4. Marked(e) \/ Calm(e) => Marked(m)
      BY <2>1, <3>3 DEF Marked, Calm
    <3>5. ~(Calm(e) /\ s.value = e.value) \/ (m.value = e.value /\ Calm(m))
      BY <2>1, <3>3 DEF Calm
    <3> QED
      BY <1>3, <3>3, <3>4, <3>5 DEF Law
  <2>2. CASE ~(e.value /= s.value)
    <3>1. m = e
      BY <1>3, <2>2 DEF MergeRabbitMQInventory, Known, Entry
    <3>2. Marked(e) \/ ~Calm(e) \/ s.value = e.value
      BY <1>3, <2>2 DEF Marked, Calm, Known, Entry
    <3> QED
      BY <1>3, <3>1, <3>2, Kept
  <2> QED
    BY <2>1, <2>2
<1> QED
  BY <1>1, <1>2, <1>3

(* The roles of Redis instances, where a blank one counts. *)
LEMMA RoleLaw ==
    ASSUME NEW e, NEW s, Known(e, s), kind = "role"
    PROVE  Law(e, s, MergeRole(e, s))
<1> DEFINE m == MergeRole(e, s)
<1> SUFFICES Law(e, s, m)
  OBVIOUS
<1>0. Apart(e, s)
  BY Situations
<1> USE <1>0 DEF Apart
<1>1. CASE Later(e, s)
  <2>1. m = [Taken(s) EXCEPT !.conflict = s.value = Blank]
    BY <1>1 DEF MergeRole
  <2>2. /\ m \in Entry /\ m.present /\ m.time = s.time
        /\ m.value = s.value /\ m.conflict = (s.value = Blank)
    BY <2>1 DEF Taken, Known, Entry, Series
  <2> HIDE DEF m
  <2> QED
    BY <1>1, <2>2 DEF Law, Calm
<1>2. CASE Earlier(e, s)
  <2>1. m = e
    BY <1>2 DEF MergeRole, Known, Entry
  <2> QED
    BY <1>2, <2>1 DEF Law
<1>3. CASE Level(e, s)
  <2>1. CASE s.value = Blank \/ e.value /= s.value
    <3>1. m = [e EXCEPT !.value = Blank, !.conflict = TRUE]
      BY <1>3, <2>1 DEF MergeRole, Known, Entry
    <3>2. Blank \in Texts \cup {Blank} /\ TRUE \in BOOLEAN /\ e \in Entry
      BY DEF Known, Entry
    <3> HIDE DEF m
    <3>3. /\ m \in Entry /\ m.present = e.present /\ m.time = e.time
          /\ m.value = Blank /\ m.conflict = TRUE
      BY <3>1, <3>2 DEF Entry
    <3>4. Marked(e) \/ Calm(e) => Marked(m)
      BY <2>1, <3>3 DEF Marked, Calm
    <3>5. ~(Calm(e) /\ s.value = e.value) \/ (m.value = e.value /\ Calm(m))
      BY <2>1, <3>3 DEF Calm
    <3> QED
      BY <1>3, <3>3, <3>4, <3>5 DEF Law
  <2>2. CASE ~(s.value = Blank \/ e.value /= s.value)
    <3>1. m = e
      BY <1>3, <2>2 DEF MergeRole, Known, Entry
    <3>2. Marked(e) \/ ~Calm(e) \/ s.value = e.value
      BY <1>3, <2>2 DEF Marked, Calm, Known, Entry
    <3> QED
      BY <1>3, <3>1, <3>2, Kept
  <2> QED
    BY <2>1, <2>2
<1> QED
  BY <1>1, <1>2, <1>3

(* The records of Java services: a disputed one is rejected. *)
LEMMA JavaInventoryLaw ==
    ASSUME NEW e, NEW s, Known(e, s), kind = "java_inventory", ~Rejects(e, s)
    PROVE  Law(e, s, MergeJavaInventory(e, s))
<1> DEFINE m == MergeJavaInventory(e, s)
<1> SUFFICES Law(e, s, m)
  OBVIOUS
<1>0. Apart(e, s)
  BY Situations
<1> USE <1>0 DEF Apart
<1>1. CASE Later(e, s)
  <2>1. m = Taken(s)
    BY <1>1 DEF MergeJavaInventory
  <2> QED
    BY <1>1, <2>1, TakenFacts DEF Law, Known, Calm
<1>2. CASE Earlier(e, s)
  <2>1. m = e
    BY <1>2 DEF MergeJavaInventory, Known, Entry
  <2> QED
    BY <1>2, <2>1 DEF Law
<1>3. CASE Level(e, s)
  <2>1. m = e
    BY <1>3 DEF MergeJavaInventory
  <2>2. s.value = e.value
    BY <1>3 DEF Rejects, JavaRejects, Known, Level
  <2> QED
    BY <1>3, <2>1, <2>2, Kept
<1> QED
  BY <1>1, <1>2, <1>3

(* The law holds of the merge of every kind but the disks. *)
LEMMA MergedLaw ==
    ASSUME NEW e, NEW s, Mergeable(e, s), kind /= "disk_inventory"
    PROVE  Law(e, s, Merged(e, s))
<1>0. Known(e, s)
  BY KnownFacts
<1>1. CASE kind = "mysql"
  <2>1. Merged(e, s) = MergeMySQL(e, s)
    BY <1>1 DEF Merged
  <2> QED
    BY <1>1, <2>1, <1>0, MySQLLaw DEF Mergeable, PassedOver, Metrics
<1>2. CASE kind = "flagged"
  <2>1. Merged(e, s) = MergeFlagged(e, s)
    BY <1>2 DEF Merged
  <2> QED
    BY <1>2, <2>1, <1>0, FlaggedLaw
<1>3. CASE kind = "java"
  <2>1. Merged(e, s) = MergeJava(e, s)
    BY <1>3 DEF Merged
  <2> QED
    BY <1>3, <2>1, <1>0, JavaLaw DEF Mergeable, PassedOver, Metrics
<1>4. CASE kind = "elasticsearch"
  <2>1. Merged(e, s) = MergeElasticsearch(e, s)
    BY <1>4 DEF Merged
  <2> QED
    BY <1>4, <2>1, <1>0, ElasticsearchLaw
<1>5. CASE kind = "role"
  <2>1. Merged(e, s) = MergeRole(e, s)
    BY <1>5 DEF Merged
  <2> QED
    BY <1>5, <2>1, <1>0, RoleLaw
<1>6. CASE kind = "java_inventory"
  <2>1. Merged(e, s) = MergeJavaInventory(e, s)
    BY <1>6 DEF Merged
  <2> QED
    BY <1>6, <2>1, <1>0, JavaInventoryLaw DEF Mergeable
<1>7. CASE kind = "elasticsearch_inventory"
  <2>1. Merged(e, s) = MergeElasticsearchInventory(e, s)
    BY <1>7 DEF Merged
  <2> QED
    BY <1>7, <2>1, <1>0, ElasticsearchInventoryLaw
<1>8. CASE kind = "rabbitmq_inventory"
  <2>1. Merged(e, s) = MergeRabbitMQInventory(e, s)
    BY <1>8 DEF Merged
  <2> QED
    BY <1>8, <2>1, <1>0, RabbitMQInventoryLaw
<1>9. CASE kind = "single_inventory"
  <2>1. Merged(e, s) = Taken(s)
    BY <1>9 DEF Merged
  <2>2. Later(e, s) /\ ~Earlier(e, s) /\ ~Level(e, s)
    BY <1>9, <1>0, Situations DEF Mergeable, Rejects, SingleRejects, Later, Earlier, Level
  <2> QED
    BY <2>1, <2>2, <1>0, TakenFacts DEF Law, Known, Calm
<1> QED
  BY <1>1, <1>2, <1>3, <1>4, <1>5, <1>6, <1>7, <1>8, <1>9, KindCases DEF Mergeable

(* What a disk's merge does to identity and time. *)
LEMMA DiskLaw ==
    ASSUME NEW e, NEW s, Mergeable(e, s), kind = "disk_inventory"
    PROVE  LET m == Merged(e, s)
           IN  /\ m \in Entry /\ m.present
               /\ m.time = IF Later(e, s) THEN s.time ELSE e.time
               /\ m.id = IF e = NoEntry \/ e.id = Blank THEN s.id ELSE e.id
<1> DEFINE m == Merged(e, s)
<1> SUFFICES /\ m \in Entry /\ m.present
             /\ m.time = IF Later(e, s) THEN s.time ELSE e.time
             /\ m.id = IF e = NoEntry \/ e.id = Blank THEN s.id ELSE e.id
  OBVIOUS
<1>0. Known(e, s) /\ Apart(e, s)
  BY KnownFacts, Situations
<1>1. m = MergeDiskInventory(e, s)
  BY DEF Merged
<1>2. CASE ~e.present
  <2>1. m = Taken(s) /\ e = NoEntry
    BY <1>1, <1>2 DEF MergeDiskInventory, Mergeable
  <2> QED
    BY <1>0, <2>1, TakenFacts DEF Taken, Known, Later
<1>3. CASE e.present
  <2>1. e /= NoEntry /\ (Later(e, s) <=> s.time > e.time)
    BY <1>0, <1>3 DEF Known, Later
  <2>2. m = [e EXCEPT !.id = IF @ = Blank THEN s.id ELSE @,
                      !.time = IF s.time > e.time THEN s.time ELSE @,
                      !.value = IF @ = Blank \/ (s.time > e.time /\ s.value /= Blank)
                                THEN s.value ELSE @]
    BY <1>1, <1>3 DEF MergeDiskInventory
  <2> HIDE DEF m
  <2> QED
    BY <1>0, <1>3, <2>1, <2>2 DEF Known, Entry, Series
<1> QED
  BY <1>2, <1>3

-----------------------------------------------------------------------------
(* What a step is, when the invariant holds. *)
Joins(s) ==
    /\ ~failed /\ ~failed'
    /\ Mergeable(entry, s)
    /\ entry' = Merged(entry, s)
    /\ Counted' = Counted \cup {s}
    /\ arrived' = arrived \cup {s}

Skips(s) ==
    /\ ~failed /\ ~failed'
    /\ PassedOver(s)
    /\ entry' = entry
    /\ Counted' = Counted
    /\ arrived' = arrived \cup {s}

Fails(s) ==
    /\ ~failed /\ failed'
    /\ Rejects(entry, s)
    /\ entry' = entry
    /\ arrived' = arrived \cup {s}

(* An entry is no entry just as long as no series counts. *)
LEMMA EntryOfCounted ==
    ASSUME EntryInv, ~failed
    PROVE  /\ Counted \subseteq Series
           /\ (entry = NoEntry) <=> (Counted = {})
           /\ entry /= NoEntry => entry.present /\ entry.time \in Times
           /\ kind = "java" /\ entry.present /\ entry.value = Blank => entry.conflict
<1>1. Counted \subseteq Series
  BY DEF EntryInv, TypeOK, Counted
<1>2. (entry = NoEntry) <=> (Counted = {})
  BY DEF EntryInv, EntryNewest, NoEntry
<1>3. entry /= NoEntry => entry.present /\ entry.time \in Times
  BY <1>1, <1>2 DEF EntryInv, EntryNewest, Series
<1>4. ASSUME kind = "java", entry.present, entry.value = Blank
      PROVE  entry.conflict
  <2>1. CASE Unanimous
    <3>1. PICK s \in Counted : s.time = entry.time
      BY <1>2, <1>4 DEF EntryInv, EntryNewest, NoEntry
    <3>2. s.value = Blank
      BY <1>4, <2>1, <3>1 DEF Unanimous
    <3>3. PassedOver(s)
      BY <1>4, <3>2 DEF PassedOver, Metrics
    <3> QED
      BY <3>1, <3>3 DEF Counted
  <2>2. CASE Disputed
    BY <1>4, <2>2 DEF Disputed
  <2> QED
    BY <1>4, <2>1, <2>2 DEF EntryInv
<1> QED
  BY <1>1, <1>2, <1>3, <1>4

(* A step is one of the three. *)
LEMMA Steps ==
    ASSUME EntryInv, NEW s \in Series, Arrive(s)
    PROVE  kind' = kind /\ (Joins(s) \/ Skips(s) \/ Fails(s))
<1>1. kind' = kind /\ ~failed /\ failed' = Rejects(entry, s) /\ arrived' = arrived \cup {s}
  BY DEF Arrive
<1>2. \A r : PassedOver(r)' <=> PassedOver(r)
  BY <1>1 DEF PassedOver
<1>3. CASE failed'
  BY <1>1, <1>3 DEF Arrive, Fails
<1>4. CASE ~failed' /\ PassedOver(s)
  <2>1. Counted' = Counted
    BY <1>1, <1>2, <1>4 DEF Counted
  <2> QED
    BY <1>1, <1>4, <2>1 DEF Arrive, Skips
<1>5. CASE ~failed' /\ ~PassedOver(s)
  <2>1. Counted' = Counted \cup {s}
    BY <1>1, <1>2, <1>5 DEF Counted
  <2>2. entry' = Merged(entry, s)
    BY <1>1, <1>5 DEF Arrive
  <2>3. Mergeable(entry, s)
    BY <1>1, <1>5, EntryOfCounted DEF Mergeable, EntryInv, TypeOK
  <2> QED
    BY <1>1, <1>5, <2>1, <2>2, <2>3 DEF Joins
<1> QED
  BY <1>1, <1>3, <1>4, <1>5

(* The kinds without disks: the newest series agree, or the entry knows that they do not. *)
LEMMA JoinsSummary ==
    ASSUME EntryInv, NEW s \in Series, kind' = kind, kind /= "disk_inventory", Joins(s)
    PROVE  entry' \in Entry /\ EntryNewest' /\ (Unanimous \/ Disputed)'
<1> USE DEF Joins
<1>1. Law(entry, s, entry') /\ Apart(entry, s)
  BY MergedLaw, KnownFacts, Situations
<1>2. /\ Counted \subseteq Series
      /\ (entry = NoEntry) <=> (Counted = {})
  BY EntryOfCounted
<1>3. /\ \A r \in Counted : r.time \in Nat /\ r.time <= entry.time
      /\ entry.time \in Nat /\ s.time \in Nat
  BY <1>2, KnownFacts, TimesPositive DEF EntryInv, EntryNewest, Known, Series
<1>4. (Calm(entry') <=> (entry'.conflict => kind' = "role" /\ entry'.value = Blank))
  BY DEF Calm
<1>5. CASE Later(entry, s)
  <2>1. /\ entry' \in Entry /\ entry'.present /\ entry'.time = s.time
        /\ entry'.value = s.value /\ Calm(entry')
    BY <1>1, <1>5 DEF Law
  <2>2. \A r \in Counted : r.time < s.time
    BY <1>1, <1>2, <1>3, <1>5 DEF Apart, Later
  <2>3. EntryNewest'
    BY <1>3, <2>1, <2>2 DEF EntryNewest
  <2>4. Unanimous'
    BY <1>3, <1>4, <2>1, <2>2 DEF Unanimous
  <2> QED
    BY <2>1, <2>3, <2>4
<1>6. CASE Earlier(entry, s)
  <2>1. entry' = entry /\ s.time < entry.time /\ entry /= NoEntry
    BY <1>1, <1>6 DEF Law, Earlier
  <2>2. EntryNewest'
    BY <1>2, <1>3, <2>1 DEF EntryInv, EntryNewest
  <2>3. Unanimous => Unanimous'
    BY <1>3, <2>1 DEF Unanimous
  <2>4. Disputed => Disputed'
    BY <2>1 DEF Disputed
  <2> QED
    BY <2>1, <2>2, <2>3, <2>4 DEF EntryInv, TypeOK
<1>7. CASE Level(entry, s)
  <2>1. /\ entry' \in Entry /\ entry'.present /\ entry'.time = entry.time
        /\ Calm(entry) /\ s.value = entry.value => entry'.value = entry.value /\ Calm(entry')
        /\ Marked(entry) \/ (Calm(entry) /\ s.value /= entry.value) => Marked(entry')
    BY <1>1, <1>7 DEF Law
  <2>2. s.time = entry.time /\ entry /= NoEntry
    BY <1>7 DEF Level
  <2>3. EntryNewest'
    BY <1>2, <1>3, <2>1, <2>2 DEF EntryInv, EntryNewest
  <2>4. CASE Unanimous /\ s.value = entry.value
    <3>1. entry'.value = entry.value /\ Calm(entry')
      BY <2>1, <2>4 DEF Unanimous, Calm
    <3> QED
      BY <1>4, <2>1, <2>2, <2>3, <2>4, <3>1 DEF Unanimous
  <2>5. CASE Unanimous /\ s.value /= entry.value
    <3>1. Marked(entry')
      BY <2>1, <2>5 DEF Unanimous, Calm
    <3>2. PICK r \in Counted : r.time = entry.time /\ r.value = entry.value
      BY <1>2, <2>2, <2>5 DEF EntryInv, EntryNewest, Unanimous
    <3>3. Disputed'
      BY <2>1, <2>2, <2>5, <3>1, <3>2 DEF Disputed, Marked
    <3> QED
      BY <2>1, <2>3, <3>3
  <2>6. CASE Disputed
    <3>1. Marked(entry')
      BY <2>1, <2>6 DEF Disputed, Marked
    <3>2. Disputed'
      BY <2>1, <2>6, <3>1 DEF Disputed, Marked
    <3> QED
      BY <2>1, <2>3, <3>2
  <2> QED
    BY <2>4, <2>5, <2>6 DEF EntryInv
<1> QED
  BY <1>1, <1>5, <1>6, <1>7 DEF Apart

(* The disks: the newest time. *)
LEMMA JoinsNewest ==
    ASSUME EntryInv, NEW s \in Series, kind' = kind, kind = "disk_inventory", Joins(s)
    PROVE  entry' \in Entry /\ EntryNewest'
<1> USE DEF Joins
<1>1. /\ entry' \in Entry /\ entry'.present
      /\ entry'.time = IF Later(entry, s) THEN s.time ELSE entry.time
  BY DiskLaw
<1>2. /\ Counted \subseteq Series
      /\ (entry = NoEntry) <=> (Counted = {})
  BY EntryOfCounted
<1>3. /\ \A r \in Counted : r.time \in Nat /\ r.time <= entry.time
      /\ entry.time \in Nat /\ s.time \in Nat
  BY <1>2, KnownFacts, TimesPositive DEF EntryInv, EntryNewest, Known, Series
<1>4. CASE Later(entry, s)
  <2>1. \A r \in Counted : r.time < s.time
    BY <1>2, <1>3, <1>4 DEF Later
  <2> QED
    BY <1>1, <1>3, <1>4, <2>1 DEF EntryNewest
<1>5. CASE ~Later(entry, s)
  BY <1>1, <1>2, <1>3, <1>5 DEF EntryInv, EntryNewest, Later
<1> QED
  BY <1>4, <1>5

(* The summary is kept by every step. *)
LEMMA EntryStep ==
    ASSUME EntryInv, [Next]_vars
    PROVE  EntryInv'
<1>1. CASE Next
  <2>1. PICK s \in Series : Arrive(s)
    BY <1>1 DEF Next
  <2>2. kind' = kind /\ (Joins(s) \/ Skips(s) \/ Fails(s))
    BY <2>1, Steps
  <2>3. kind' \in Kinds /\ failed' \in BOOLEAN /\ arrived' \subseteq Series
    BY <2>1, <2>2 DEF EntryInv, TypeOK, Arrive, Rejects, DiskRejects, JavaRejects, SingleRejects
  <2>4. CASE Joins(s)
    BY <2>2, <2>3, <2>4, JoinsSummary, JoinsNewest DEF EntryInv, TypeOK, Joins
  <2>5. CASE Skips(s)
    <3>1. EntryNewest' /\ (Unanimous => Unanimous') /\ (Disputed => Disputed')
      BY <2>2, <2>5 DEF Skips, EntryInv, EntryNewest, Unanimous, Disputed
    <3> QED
      BY <2>2, <2>3, <2>5, <3>1 DEF EntryInv, TypeOK, Skips
  <2>6. CASE Fails(s)
    BY <2>2, <2>3, <2>6 DEF EntryInv, TypeOK, Fails
  <2> QED
    BY <2>2, <2>4, <2>5, <2>6
<1>2. CASE UNCHANGED vars
  <2>1. Counted' = Counted
    BY <1>2 DEF vars, Counted, PassedOver
  <2>2. TypeOK' /\ failed' = failed /\ kind' = kind
    BY <1>2 DEF vars, EntryInv, TypeOK
  <2>3. (EntryNewest => EntryNewest') /\ (Unanimous => Unanimous') /\ (Disputed => Disputed')
    BY <1>2, <2>1 DEF vars, EntryNewest, Unanimous, Disputed
  <2> QED
    BY <2>2, <2>3 DEF EntryInv
<1> QED
  BY <1>1, <1>2

(* And holds of no series. *)
LEMMA EntryInit == Init => EntryInv
<1> SUFFICES ASSUME Init
             PROVE  EntryInv
  OBVIOUS
<1>1. Counted = {}
  BY DEF Init, Counted
<1>2. TypeOK
  BY DEF Init, TypeOK, NoEntry, Entry, ZeroTime
<1>3. EntryNewest /\ Unanimous
  BY <1>1 DEF Init, EntryNewest, Unanimous, NoEntry
<1> QED
  BY <1>2, <1>3 DEF EntryInv

(***************************************************************************)
(* Whatever rule is at work, the entry is at all times a summary of the     *)
(* series merged so far: their newest time, and the value the newest have   *)
(* or a mark that they differ.                                              *)
(***************************************************************************)
THEOREM EntryCorrect == Spec => []EntryInv
  BY EntryInit, EntryStep, PTL DEF Spec

-----------------------------------------------------------------------------
(* What is shown of a summary is what the newest series agree on. *)
LEMMA SummaryAgrees ==
    ASSUME EntryInv
    PROVE  NewestAgreed
<1> SUFFICES ASSUME ~failed, kind /= "disk_inventory"
             PROVE  Shown = Agreed(Counted)
  BY DEF NewestAgreed
<1>1. Blank \notin Texts
  BY SeriesMergeAssumption
<1>2. CASE Counted = {}
  <2>1. Shown = Blank
    BY <1>2 DEF EntryInv, EntryNewest, NoEntry, Shown
  <2> QED
    BY <1>2, <2>1 DEF Agreed
<1>3. CASE Counted /= {}
  <2>1. entry.time \in Nat /\ \A r \in Counted : r.time \in Nat /\ r.time <= entry.time
    BY <1>3, EntryOfCounted, TimesPositive DEF EntryInv, EntryNewest, Series
  <2>2. PICK last \in Counted : last.time = entry.time
    BY <1>3 DEF EntryInv, EntryNewest
  <2>3. \A s : s \in Newest(Counted) <=> s \in Counted /\ s.time = entry.time
    BY <2>1, <2>2 DEF Newest
  <2> DEFINE common(v) == \A s \in Newest(Counted) : s.value = v
  <2>4. CASE Unanimous /\ entry.value \in Texts
    <3>1. common(entry.value)
      BY <2>3, <2>4 DEF Unanimous
    <3>2. \A v \in Texts : common(v) => v = entry.value
      BY <2>2, <2>3, <3>1
    <3>3. Agreed(Counted) = entry.value
      BY <1>3, <2>4, <3>1, <3>2 DEF Agreed
    <3>4. ~entry.conflict
      BY <1>1, <2>4 DEF Unanimous
    <3> QED
      BY <3>3, <3>4 DEF Shown
  <2>5. CASE Unanimous /\ entry.value \notin Texts
    <3>1. last.value = entry.value
      BY <2>2, <2>5 DEF Unanimous
    <3>2. \A v \in Texts : ~common(v)
      BY <2>2, <2>3, <2>5, <3>1
    <3>3. entry.value = Blank
      BY <2>5 DEF EntryInv, TypeOK, Entry
    <3> QED
      BY <3>2, <3>3 DEF Agreed, Shown
  <2>6. CASE Disputed
    <3>1. \A v \in Texts : ~common(v)
      BY <2>3, <2>6 DEF Disputed
    <3>2. Shown = Blank
      BY <2>6 DEF Disputed, Shown
    <3> QED
      BY <3>1, <3>2 DEF Agreed
  <2> QED
    BY <2>4, <2>5, <2>6 DEF EntryInv
<1> QED
  BY <1>2, <1>3

(***************************************************************************)
(* What is shown does not depend on the order of the series: it is what the *)
(* newest valid ones agree on, and nothing when they do not.                *)
(***************************************************************************)
THEOREM NewestShown == Spec => []NewestAgreed
  BY EntryCorrect, SummaryAgrees, PTL

-----------------------------------------------------------------------------
(* A disk's series that is not rejected leaves its identity exact. *)
LEMMA DiskStep ==
    ASSUME EntryInv, DiskIdentityExact, [Next]_vars
    PROVE  DiskIdentityExact'
<1> SUFFICES ASSUME ~failed', kind' = "disk_inventory"
             PROVE  DiskIdentityExact'
  BY DEF DiskIdentityExact
<1>1. CASE Next
  <2>1. PICK s \in Series : Arrive(s)
    BY <1>1 DEF Next
  <2>2. kind' = kind /\ Joins(s)
    BY <2>1, Steps DEF Skips, Fails, PassedOver, Metrics
  <2>3. Counted = arrived
    BY <2>2 DEF Counted, PassedOver, Metrics
  <2>4. /\ arrived \subseteq Series
        /\ (entry = NoEntry) <=> (arrived = {})
    BY <2>2, <2>3, EntryOfCounted DEF Joins
  <2>5. /\ entry'.time = IF Later(entry, s) THEN s.time ELSE entry.time
        /\ entry'.id = IF entry = NoEntry \/ entry.id = Blank THEN s.id ELSE entry.id
    BY <2>2, DiskLaw DEF Joins
  <2>6. /\ \A r \in arrived : r.time \in Nat
        /\ entry.time \in Nat /\ s.time \in Nat
    BY <2>2, <2>4, KnownFacts, TimesPositive DEF Joins, Known, Series
  <2>7. arrived' = arrived \cup {s}
    BY <2>2 DEF Joins
  <2>8. CASE entry = NoEntry
    BY <2>4, <2>5, <2>6, <2>7, <2>8 DEF DiskIdentityExact, Later
  <2>9. CASE entry /= NoEntry
    <3>1. /\ \A r \in arrived : r.id \in {entry.id, Blank} /\ r.time <= entry.time
          /\ \E r \in arrived : r.id = entry.id
          /\ \E r \in arrived : r.time = entry.time
      BY <2>2, <2>4, <2>9 DEF DiskIdentityExact, Joins
    <3>2. entry.id = Blank \/ s.id \in {entry.id, Blank}
      BY <2>2, <2>9, EntryOfCounted DEF Joins, Mergeable, Rejects, DiskRejects
    <3>3. \A r \in arrived' : r.id \in {entry'.id, Blank}
      BY <2>5, <2>7, <2>9, <3>1, <3>2
    <3>4. \E r \in arrived' : r.id = entry'.id
      BY <2>5, <2>7, <2>9, <3>1
    <3>5. /\ \A r \in arrived' : r.time <= entry'.time
          /\ \E r \in arrived' : r.time = entry'.time
      BY <2>5, <2>6, <2>7, <2>9, <3>1 DEF Later
    <3> QED
      BY <3>3, <3>4, <3>5 DEF DiskIdentityExact
  <2> QED
    BY <2>8, <2>9
<1>2. CASE UNCHANGED vars
  BY <1>2 DEF vars, DiskIdentityExact
<1> QED
  BY <1>1, <1>2

(***************************************************************************)
(* A disk that is shown has the serial number and the newest reported time  *)
(* of its series, in whatever order they came.                              *)
(***************************************************************************)
THEOREM DiskIdentity == Spec => []DiskIdentityExact
<1>1. Init => DiskIdentityExact
  BY DEF Init, DiskIdentityExact
<1> QED
  BY <1>1, DiskStep, EntryCorrect, PTL DEF Spec

-----------------------------------------------------------------------------
(* A Java series that is rejected has its cause among the series. *)
LEMMA JavaStep ==
    ASSUME EntryInv, JavaFailsForCause, [Next]_vars
    PROVE  JavaFailsForCause'
<1> SUFFICES ASSUME failed', kind' = "java_inventory"
             PROVE  \/ \E s \in arrived' : s.value = Blank
                    \/ \E s, r \in arrived' : s.time = r.time /\ s.value /= r.value
  BY DEF JavaFailsForCause
<1>1. CASE Next
  <2>1. PICK s \in Series : Arrive(s)
    BY <1>1 DEF Next
  <2>2. kind' = kind /\ Fails(s)
    BY <2>1, Steps DEF Joins, Skips
  <2>3. arrived' = arrived \cup {s} /\ JavaRejects(entry, s)
    BY <2>2 DEF Fails, Rejects
  <2>4. CASE s.value = Blank
    BY <2>3, <2>4
  <2>5. CASE entry.present /\ s.time = entry.time /\ s.value /= entry.value
    <3>1. ~failed /\ Counted /= {} /\ Counted \subseteq arrived
      BY <2>2, <2>5, EntryOfCounted DEF Fails, NoEntry, Counted
    <3>2. PICK r \in Counted : r.time = entry.time
      BY <3>1 DEF EntryInv, EntryNewest
    <3>3. CASE Unanimous
      <4>1. r.value = entry.value
        BY <3>2, <3>3 DEF Unanimous
      <4> QED
        BY <2>3, <2>5, <3>1, <3>2, <4>1
    <3>4. CASE Disputed
      BY <2>3, <3>1, <3>4 DEF Disputed
    <3> QED
      BY <2>2, <3>1, <3>3, <3>4 DEF EntryInv
  <2> QED
    BY <2>3, <2>4, <2>5 DEF JavaRejects
<1>2. CASE UNCHANGED vars
  BY <1>2 DEF vars, JavaFailsForCause
<1> QED
  BY <1>1, <1>2

(***************************************************************************)
(* No Java snapshot is given up without an invalid time, or two series of   *)
(* one service and one sample time that disagree.                           *)
(***************************************************************************)
THEOREM JavaCause == Spec => []JavaFailsForCause
<1>1. Init => JavaFailsForCause
  BY DEF Init, JavaFailsForCause
<1> QED
  BY <1>1, JavaStep, EntryCorrect, PTL DEF Spec

=============================================================================
