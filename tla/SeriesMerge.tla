------------------------------ MODULE SeriesMerge ------------------------------
(***************************************************************************)
(* How the providers of internal/adapters/nightingale reduce the series of  *)
(* one query that belong together to one entry: the samples of a metric of  *)
(* an instance to a value, the inventory series of an instance to a record. *)
(* A result lists its series in no particular order, and every provider has *)
(* merge rules of its own.                                                  *)
(*                                                                         *)
(* A series has a time, the sample's own or the reported one, whichever the *)
(* rule compares; and a value: the metric's, or for an inventory what it    *)
(* says of the instance (the model of a disk, the address of an             *)
(* Elasticsearch node, the identity of a RabbitMQ node, the reported time   *)
(* of a Java service).  Blank is an invalid value or a missing label.  A    *)
(* disk's series also has an id, its serial number or WWN.                  *)
(***************************************************************************)
EXTENDS Integers

CONSTANTS
    Kinds,   \* the merge rules considered
    Times,   \* the times of series
    Texts,   \* valid values
    Ids,     \* serial numbers
    Blank    \* no value, no id

Metrics == {"mysql", "flagged", "java", "elasticsearch", "role"}

Inventories == {"disk_inventory", "java_inventory", "elasticsearch_inventory",
                "rabbitmq_inventory", "single_inventory"}

ASSUME SeriesMergeAssumption ==
    /\ Kinds \subseteq Metrics \cup Inventories
    /\ Times \subseteq Nat \ {0}    \* 0 is Go's zero time, which no sample has
    /\ Blank \notin Texts \cup Ids

ZeroTime == 0

Series == [time : Times, value : Texts \cup {Blank}, id : Ids \cup {Blank}]

Entry == [time : Times \cup {ZeroTime}, value : Texts \cup {Blank}, id : Ids \cup {Blank},
          conflict : BOOLEAN, present : BOOLEAN]

NoEntry == [time |-> ZeroTime, value |-> Blank, id |-> Blank,
            conflict |-> FALSE, present |-> FALSE]

VARIABLES
    kind,      \* the rule at work
    entry,     \* what the series so far were merged to
    failed,    \* the snapshot was given up: ErrUnavailable
    arrived    \* history: the series merged so far

vars == <<kind, entry, failed, arrived>>

-----------------------------------------------------------------------------
(* The entry that s alone makes. *)
Taken(s) == [time |-> s.time, value |-> s.value, id |-> s.id,
             conflict |-> FALSE, present |-> TRUE]

(* Mutant: a series of the same time replaces the entry, the last one wins. *)
LastWins(e, s) == IF s.time >= e.time THEN Taken(s) ELSE e

(* Mutant: after a conflict the next series of the same time is taken. *)
ForgetsConflict(e, s) ==
    IF s.time < e.time THEN e
    ELSE IF s.time > e.time \/ e.value = Blank THEN Taken(s)
    ELSE [e EXCEPT !.value = IF @ = s.value THEN @ ELSE Blank]

(* newestMySQLValue, mergeMySQLVersion, mergeMySQLBool: a disputed value is cleared. *)
MergeMySQL(e, s) ==
    IF s.time < e.time THEN e
    ELSE IF s.time > e.time \/ (e.time = ZeroTime /\ e.value = Blank) THEN Taken(s)
    ELSE [e EXCEPT !.value = IF @ = s.value THEN @ ELSE Blank]

(* The disk, Redis and RabbitMQ merges: cleared, and marked as disputed. *)
MergeFlagged(e, s) ==
    IF s.time < e.time THEN e
    ELSE IF s.time > e.time \/ (e.time = ZeroTime /\ e.value = Blank /\ ~e.conflict) THEN Taken(s)
    ELSE IF ~e.conflict /\ e.value /= s.value
         THEN [e EXCEPT !.value = Blank, !.conflict = TRUE]
         ELSE e

(* mergeJavaLatest: the same, but for how it knows its first sample. *)
MergeJava(e, s) ==
    IF ~e.present \/ s.time > e.time THEN Taken(s)
    ELSE IF s.time = e.time /\ e.value /= Blank /\ e.value /= s.value
         THEN [e EXCEPT !.value = Blank, !.conflict = TRUE]
         ELSE e

(* mergeElasticsearchLatest: a disputed value is kept, and marked. *)
MergeElasticsearch(e, s) ==
    IF ~e.present \/ s.time > e.time THEN Taken(s)
    ELSE [e EXCEPT !.conflict = @ \/ (s.time = e.time /\ e.value /= s.value)]

(* mergeRedisRole: a role that is not one disputes the others, and itself. *)
MergeRole(e, s) ==
    IF s.time < e.time THEN e
    ELSE IF s.time > e.time \/ ~e.present THEN [Taken(s) EXCEPT !.conflict = s.value = Blank]
    ELSE IF s.value = Blank \/ e.value /= s.value
         THEN [e EXCEPT !.value = Blank, !.conflict = TRUE]
         ELSE e

(* buildDiskStates: ids complete each other; the model is the newer one that is not *)
(* missing, or the first one when the entry has none.                               *)
MergeDiskInventory(e, s) ==
    IF ~e.present THEN Taken(s)
    ELSE LET newer == s.time > e.time
         IN  [e EXCEPT !.id = IF @ = Blank THEN s.id ELSE @,
                       !.time = IF newer THEN s.time ELSE @,
                       !.value = IF @ = Blank \/ (newer /\ s.value /= Blank) THEN s.value ELSE @]

(* buildElasticsearchNodeInventory: a disputed address is cleared, the node stays. *)
MergeElasticsearchInventory(e, s) ==
    IF ~e.present \/ s.time > e.time THEN Taken(s)
    ELSE IF s.time = e.time /\ ~e.conflict /\ e.value /= s.value
         THEN [e EXCEPT !.value = Blank, !.conflict = TRUE]
         ELSE e

(* buildRabbitMQInventory: of a node with a disputed identity nothing is shown. *)
MergeRabbitMQInventory(e, s) ==
    IF ~e.present \/ s.time > e.time THEN Taken(s)
    ELSE [e EXCEPT !.conflict = @ \/ (s.time = e.time /\ e.value /= s.value)]

(* buildJavaInventory: the newer record; one of the same time must agree. *)
MergeJavaInventory(e, s) == IF ~e.present \/ s.time > e.time THEN Taken(s) ELSE e

Merged(e, s) ==
    CASE kind = "mysql"                   -> MergeMySQL(e, s)
      [] kind = "flagged"                 -> MergeFlagged(e, s)
      [] kind = "java"                    -> MergeJava(e, s)
      [] kind = "elasticsearch"           -> MergeElasticsearch(e, s)
      [] kind = "role"                    -> MergeRole(e, s)
      [] kind = "disk_inventory"          -> MergeDiskInventory(e, s)
      [] kind = "elasticsearch_inventory" -> MergeElasticsearchInventory(e, s)
      [] kind = "rabbitmq_inventory"      -> MergeRabbitMQInventory(e, s)
      [] kind = "java_inventory"          -> MergeJavaInventory(e, s)
      [] OTHER                            -> Taken(s)
-----------------------------------------------------------------------------
(* Mutant: serial numbers are not compared. *)
IdsIgnored(e, s) ==
    /\ e.present
    /\ s.time = e.time /\ e.value /= Blank /\ s.value /= Blank /\ e.value /= s.value

(* buildDiskStates: both ids known and different, or at the same time both models. *)
DiskRejects(e, s) ==
    /\ e.present
    /\ \/ e.id /= Blank /\ s.id /= Blank /\ e.id /= s.id
       \/ s.time = e.time /\ e.value /= Blank /\ s.value /= Blank /\ e.value /= s.value

(* Mutant: the older record must agree, too. *)
JavaRejectsOlder(e, s) == s.value = Blank \/ (e.present /\ s.time <= e.time /\ e.value /= s.value)

(* buildJavaInventory: an invalid time, or another one for the same sample. *)
JavaRejects(e, s) == s.value = Blank \/ (e.present /\ s.time = e.time /\ e.value /= s.value)

(* MySQLSnapshot, buildRedisSnapshot: an invalid time, or a second series. *)
SingleRejects(e, s) == s.value = Blank \/ e.present

(* The provider gives up the whole snapshot for s. *)
Rejects(e, s) ==
    \/ kind = "disk_inventory"   /\ DiskRejects(e, s)
    \/ kind = "java_inventory"   /\ JavaRejects(e, s)
    \/ kind = "single_inventory" /\ SingleRejects(e, s)

(* Samples that do not parse or are out of range, and RabbitMQ series without an *)
(* identity, are passed over; a role that is not one is not.                     *)
PassedOver(s) ==
    /\ kind \in (Metrics \ {"role"}) \cup {"rabbitmq_inventory"}
    /\ s.value = Blank

-----------------------------------------------------------------------------
Init ==
    /\ kind \in Kinds
    /\ entry = NoEntry
    /\ failed = FALSE
    /\ arrived = {}

(* The loop comes to the series s, which may be any: they are in no order, and *)
(* several may differ only in labels the rule does not read.                   *)
Arrive(s) ==
    /\ ~failed
    /\ failed' = Rejects(entry, s)
    /\ entry' = IF PassedOver(s) \/ failed' THEN entry ELSE Merged(entry, s)
    /\ arrived' = arrived \cup {s}
    /\ UNCHANGED kind

(* Only disks have ids. *)
Next == \E s \in Series : (kind = "disk_inventory" \/ s.id = Blank) /\ Arrive(s)

Spec == Init /\ [][Next]_vars

-----------------------------------------------------------------------------
(* What is shown of the entry: javaLatestPointer, elasticsearchLatestPointer and  *)
(* their like, and the test of nodeConflicts in buildRabbitMQInventory.           *)
Shown == IF entry.conflict THEN Blank ELSE entry.value

(* Properties *)

Counted == {s \in arrived : ~PassedOver(s)}

Newest(S) == {s \in S : \A r \in S : r.time <= s.time}

(* What the newest of the series S agree on. *)
Agreed(S) ==
    IF \E v \in Texts : S /= {} /\ \A s \in Newest(S) : s.value = v
    THEN CHOOSE v \in Texts : \A s \in Newest(S) : s.value = v
    ELSE Blank

TypeOK ==
    /\ kind \in Kinds
    /\ entry \in Entry
    /\ failed \in BOOLEAN
    /\ arrived \subseteq Series

(* The entry has the time of the newest of the counted series. *)
EntryNewest ==
    /\ Counted = {} => entry = NoEntry
    /\ Counted /= {} => /\ entry.present
                        /\ \A s \in Counted : s.time <= entry.time
                        /\ \E s \in Counted : s.time = entry.time

(* The newest series have one value, which the entry has. *)
Unanimous ==
    /\ entry.conflict => kind = "role" /\ entry.value = Blank
    /\ \A s \in Counted : s.time = entry.time => s.value = entry.value

(* Two of the newest series differ, and the entry shows that it knows. *)
Disputed ==
    /\ IF kind = "mysql" THEN entry.value = Blank /\ ~entry.conflict ELSE entry.conflict
    /\ \E s, r \in Counted : s.time = entry.time /\ r.time = entry.time /\ s.value /= r.value

(***************************************************************************)
(* The entry remembers of the series merged so far just what decides how    *)
(* the next one is merged: the newest time, and whether the series of that  *)
(* time agree.  A dispute is never forgotten, not even by the rules that    *)
(* keep no mark of it.                                                      *)
(***************************************************************************)
EntryInv ==
    /\ TypeOK
    /\ ~failed => EntryNewest
    /\ ~failed /\ kind /= "disk_inventory" => Unanimous \/ Disputed

(***************************************************************************)
(* Whatever the order of the series, what is shown is what the newest valid *)
(* ones agree on, and nothing when they do not: no value from an older      *)
(* sample, none of a disputed pair, none that depends on who came last.     *)
(* (The model of a disk is another matter: DiskModelNewest.)                *)
(***************************************************************************)
NewestAgreed == ~failed /\ kind /= "disk_inventory" => Shown = Agreed(Counted)

(***************************************************************************)
(* A disk keeps the one serial number that any of its series has, and the   *)
(* newest of their reported times, whatever their order.                    *)
(***************************************************************************)
DiskIdentityExact ==
    ~failed /\ kind = "disk_inventory" =>
        /\ \A s \in arrived : s.id \in {entry.id, Blank} /\ s.time <= entry.time
        /\ arrived /= {} => /\ \E s \in arrived : s.id = entry.id
                            /\ \E s \in arrived : s.time = entry.time

(***************************************************************************)
(* A Java snapshot is given up only for an invalid time, or for two series  *)
(* of one service and one sample time that disagree.                        *)
(***************************************************************************)
JavaFailsForCause ==
    failed /\ kind = "java_inventory" =>
        \/ \E s \in arrived : s.value = Blank
        \/ \E s, r \in arrived : s.time = r.time /\ s.value /= r.value

(***************************************************************************)
(* docs/superpowers/specs/2026-07-30-host-disk-smart-module-design.md: of   *)
(* the models that are not missing the newer one is preferred.  The model a *)
(* disk is shown with is that of a newest series that has one.              *)
(***************************************************************************)
DiskModelNewest ==
    LET named == {s \in arrived : s.value /= Blank}
    IN  ~failed /\ kind = "disk_inventory" /\ named /= {} =>
            \E s \in Newest(named) : s.value = entry.value
=============================================================================
