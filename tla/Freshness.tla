------------------------------ MODULE Freshness ------------------------------
(***************************************************************************)
(* internal/service/freshness.go and collectionLevelAt: how the age of the  *)
(* last locally seen advance of a sample becomes a collection level.        *)
(***************************************************************************)
EXTENDS Integers

CONSTANTS
    Interval,    \* the collection interval, in ticks
    Untracked    \* no entry in the tracker

ASSUME FreshnessAssumption ==
    /\ Interval \in Nat \ {0}
    /\ Untracked \notin [sampleAt : Nat, advancedAt : Nat]
    /\ Untracked \notin Nat

Levels == {"normal", "warning", "critical", "unknown"}

Progress == [sampleAt : Nat, advancedAt : Nat]

(* collectionLevelAt: missed for two intervals, the sample is late; for five, gone. *)
LevelAt(now, advancedAt) ==
    IF now - advancedAt >= 5 * Interval THEN "critical"
    ELSE IF now - advancedAt >= 2 * Interval THEN "warning" ELSE "normal"

(* Mutant: every observation restarts the age. *)
ObserveAlways(entry, sampleAt, now) == [sampleAt |-> sampleAt, advancedAt |-> now]

(* Mutant: another sample is taken over without restarting the age. *)
ObserveInPlace(entry, sampleAt, now) ==
    IF entry = Untracked THEN [sampleAt |-> sampleAt, advancedAt |-> now]
    ELSE [entry EXCEPT !.sampleAt = sampleAt]

(* observeLocked: a sample unlike the last one, older ones included, restarts the age. *)
Observed(entry, sampleAt, now) ==
    IF entry = Untracked \/ entry.sampleAt /= sampleAt
    THEN [sampleAt |-> sampleAt, advancedAt |-> now]
    ELSE entry

(* freshnessTracker.Level *)
TrackedLevel(entry, now) ==
    IF entry = Untracked THEN "critical" ELSE LevelAt(now, entry.advancedAt)
=============================================================================
