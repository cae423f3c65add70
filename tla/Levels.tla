-------------------------------- MODULE Levels --------------------------------
(***************************************************************************)
(* The levels of internal/service: how they are ranked, when a figure or    *)
(* the age of a sample reaches one, and how several findings about one      *)
(* thing are reduced to its status and the source of it.                    *)
(***************************************************************************)
EXTENDS Integers, FiniteSets

Age == INSTANCE Freshness WITH Interval <- 1, Untracked <- "untracked"

Levels == {"normal", "warning", "critical", "unknown"}

(* What is worse than what, for statuses and alerts. *)
Rank == [normal |-> 0, unknown |-> 1, warning |-> 2, critical |-> 3]

(* The order in which lists show statuses, the unknown last. *)
ListRank == [normal |-> 0, warning |-> 1, critical |-> 2, unknown |-> 3]

(* Ages of the last locally seen progress, in collection intervals: just    *)
(* seen, missed twice, missed five times.                                   *)
Ages == {0, 2, 5}

NotTracked == -2    \* collection of this thing is not followed
NotSeen == -1       \* no sample of it was ever seen

(* The collection level, by what a service makes of the two. *)
Collected(age, untracked, unseen) ==
    CASE age = NotTracked -> untracked
      [] age = NotSeen -> unseen
      [] OTHER -> Age!LevelAt(age, 0)

(* The highest of several levels, normal when there is none. *)
Highest(S) == CHOOSE l \in S \cup {"normal"} : \A m \in S : Rank[m] <= Rank[l]

(* A usage in percent: missing, below both limits, or at one of them. *)
Usages == {"missing", "low", "high", "full"}

(* The level of a usage; what a missing one means differs from use to use. *)
UsageLevel(usage, missing) ==
    [missing |-> missing, low |-> "normal", high |-> "warning", full |-> "critical"][usage]

(* A switch the exporter reports: missing, good or bad. *)
Flags == {"missing", "good", "bad"}

FlagLevel(flag) == [missing |-> "unknown", good |-> "normal", bad |-> "critical"][flag]

(* A finding: a level and where it comes from; what is normal has no source. *)
Found(level, source) ==
    [level |-> level, source |-> IF level = "normal" THEN "normal" ELSE source]

(* Mutant: the source decides, and the level only between findings of one source. *)
BeatsBySource(a, b, precedence) ==
    \/ precedence[a.source] > precedence[b.source]
    \/ precedence[a.source] = precedence[b.source] /\ Rank[a.level] > Rank[b.level]

(* A finding is chosen over another for its level, then for its source. *)
Beats(a, b, precedence) ==
    \/ Rank[a.level] > Rank[b.level]
    \/ Rank[a.level] = Rank[b.level] /\ precedence[a.source] > precedence[b.source]

(* The finding the status is taken from. *)
Worst(S, precedence) == CHOOSE a \in S : \A b \in S : ~Beats(b, a, precedence)

(* How many things have each of some values: the tally of an overview. *)
Tally(of, values) == [v \in values |-> Cardinality({i \in DOMAIN of : of[i] = v})]

(* The levels something counts at in the categories; services differ in what *)
(* they make of an alert of unknown level.                                   *)
CountedAs(alerts, unknown) ==
    [c \in DOMAIN alerts |-> IF alerts[c] = "unknown" THEN unknown ELSE alerts[c]]

(* The tallies of alerts, by category: what is normal counts in none. *)
AlertTallies(alerts, categories) ==
    [c \in categories |-> Tally([i \in DOMAIN alerts |-> alerts[i][c]], Levels \ {"normal"})]

=============================================================================
