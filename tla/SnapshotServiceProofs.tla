------------------------- MODULE SnapshotServiceProofs -------------------------
(***************************************************************************)
(* Proofs about SnapshotService: its types, when a page may show data as    *)
(* delayed or gone, and how old it shows them.                              *)
(*                                                                         *)
(* The argument is an invariant about sightings.  What a load has shown to  *)
(* the tracker, what is cached and what the tracker holds are all sighted;  *)
(* no loader is more than LoadBound behind its reading of the clock, so no  *)
(* age counts from longer than that before a sighting, and while a source   *)
(* is in order none counts from after the first.                            *)
(***************************************************************************)
EXTENDS SnapshotService, TLAPS

(* The loader of some call has shown version v of source s to the tracker. *)
Sighted(s, v) == v \in Versions /\ firstSeen[s][v] /= Untracked

(* The loader of p has shown its sample to the tracker. *)
Reported(p) == seen[p].pc \in {"observed", "captured"}

LoadsPlaced ==
    \A p \in Calls :
        /\ load[p].phase /= "free" => load[p].key \in Keys
        /\ load[p].phase \in {"fetched", "stamped"} /\ load[p].ok => load[p].version \in Versions
        /\ seen[p].pc /= "none" => load[p].phase \in {"fetched", "stamped"} /\ load[p].ok
        /\ Reported(p) => Sighted(SourceOf(p), load[p].version)
        /\ load[p].phase = "stamped" /\ load[p].ok => Reported(p)
        /\ seen[p].advancedAt /= Untracked => seen[p].pc = "captured"

(* No loader is further behind its reading of the clock than it may be. *)
LoadsTimely ==
    \A p \in Calls :
        /\ seen[p].clock <= now
        /\ load[p].phase /= "free" => now - seen[p].clock <= LoadBound

EntriesSighted ==
    \A k \in Keys :
        /\ entries[k] /= None => Sighted(Source[k], entries[k].version)
        /\ progress[k] /= Untracked => entries[k] /= None

TrackerSighted ==
    \A s \in Sources :
        IF tracker[s] = Untracked THEN \A v \in Versions : firstSeen[s][v] = Untracked
                                  ELSE Sighted(s, tracker[s].sampleAt)

SightingsPast ==
    \A s \in Sources, v \in Versions : Sighted(s, v) => firstSeen[s][v] <= now

(* No age counts from longer before a sighting than a loader may be behind. *)
AgesNotEarly ==
    /\ \A s \in Sources, v \in Versions :
          Sighted(s, v) => firstSeen[s][v] <= tracker[s].advancedAt + LoadBound
    /\ \A p \in Calls :
          seen[p].advancedAt /= Untracked =>
              firstSeen[SourceOf(p)][load[p].version] <= seen[p].advancedAt + LoadBound
    /\ \A k \in Keys : progress[k] /= Untracked => EntrySeenAt(k) <= progress[k] + LoadBound

(* In a source that is in order the tracker has the newest sample, and no age *)
(* counts from after the first sighting.                                      *)
AgesNotLate ==
    \A s \in Sources \ disordered :
        /\ tracker[s] /= Untracked =>
              /\ \A v \in Versions : Sighted(s, v) => v <= tracker[s].sampleAt
              /\ tracker[s].advancedAt <= firstSeen[s][tracker[s].sampleAt]
        /\ \A p \in Calls :
              seen[p].advancedAt /= Untracked /\ SourceOf(p) = s =>
                  seen[p].advancedAt <= firstSeen[s][load[p].version]
        /\ \A k \in Keys :
              progress[k] /= Untracked /\ Source[k] = s => progress[k] <= EntrySeenAt(k)

IInv ==
    /\ ServiceTypeOK
    /\ LoadsPlaced
    /\ LoadsTimely
    /\ EntriesSighted
    /\ TrackerSighted
    /\ SightingsPast
    /\ AgesNotEarly
    /\ AgesNotLate

-----------------------------------------------------------------------------
(* Types *)

LEMMA ConstantFacts ==
    /\ \A k \in Keys : Source[k] \in Sources
    /\ Untracked \notin Nat /\ Untracked \notin Progress
    /\ Versions \subseteq Nat
    /\ None \notin Entry /\ None \notin Keys /\ None \notin Calls
    /\ Interval \in Nat
BY LoadSlotAssumption, FreshnessAssumption DEF Progress, Versions

(* What a loader tells the tracker: a version of a source, and a time that has been. *)
LEMMA ObservedWhat ==
    ASSUME ServiceTypeOK, LoadsPlaced, LoadsTimely, NEW p \in Calls,
           NEW pc, InLoader(p, pc)
    PROVE  /\ SourceOf(p) \in Sources
           /\ load[p].version \in Versions
           /\ seen[p].clock \in Nat
           /\ seen[p].clock <= now
           /\ now <= seen[p].clock + LoadBound
<1>1. /\ load[p].key \in Keys /\ load[p].version \in Versions
      /\ seen[p].clock <= now /\ now - seen[p].clock <= LoadBound
    BY DEF LoadsPlaced, LoadsTimely, InLoader
<1>2. seen[p].clock \in Nat /\ now \in Nat /\ LoadBound \in Nat
    BY ServiceAssumption DEF ServiceTypeOK, Seen
<1> QED
    BY <1>1, <1>2, ConstantFacts DEF SourceOf

LEMMA TypeStep ==
    ASSUME ServiceTypeOK, LoadsPlaced, LoadsTimely, TrackerSighted, ServiceNext
    PROVE  ServiceTypeOK'
<1>1. ASSUME NEW k \in Keys, NEW p \in Calls, Start(k, p) PROVE ServiceTypeOK'
  <2>1. [FreeLoad EXCEPT !.phase = "loading", !.key = k] \in Load
      BY DEF FreeLoad, Load
  <2>2. PICK t \in 0 .. now : seen' = [seen EXCEPT ![p] = [NotSeen EXCEPT !.clock = t]]
      BY <1>1 DEF Start
  <2>3. [NotSeen EXCEPT !.clock = t] \in Seen
      BY DEF NotSeen, Seen, ServiceTypeOK
  <2> QED
      BY <1>1, <2>1, <2>2, <2>3 DEF Start, StartLoad, ServiceTypeOK
<1>2. ASSUME NEW k \in Keys, Depart(k) PROVE ServiceTypeOK'
    BY <1>2 DEF Depart, Abandon, serviceVars, ServiceTypeOK
<1>3. ASSUME NEW p \in Calls, ProviderAnswers(p) PROVE ServiceTypeOK'
  <2>1. upstream[Source[load[p].key]] \in Nat
      BY <1>3, ConstantFacts DEF ProviderAnswers, FetchOK, LoadsPlaced, ServiceTypeOK
  <2>2. load[p] \in Load
      BY DEF ServiceTypeOK
  <2>3. load' = [load EXCEPT ![p] =
                    [load[p] EXCEPT !.phase = "fetched", !.version = upstream[Source[load[p].key]]]]
      BY <1>3 DEF ProviderAnswers, FetchOK, ServiceTypeOK, Load
  <2>4. [load[p] EXCEPT !.phase = "fetched", !.version = upstream[Source[load[p].key]]] \in Load
      BY <2>1, <2>2 DEF Load
  <2> QED
      BY <1>3, <2>3, <2>4 DEF ProviderAnswers, FetchOK, serviceVars, ServiceTypeOK
<1>4. ASSUME NEW p \in Calls, ProviderFails(p) PROVE ServiceTypeOK'
  <2>1. load' = [load EXCEPT ![p] = [load[p] EXCEPT !.phase = "fetched", !.ok = FALSE]]
      BY <1>4 DEF ProviderFails, FetchFail, ServiceTypeOK, Load
  <2>2. [load[p] EXCEPT !.phase = "fetched", !.ok = FALSE] \in Load
      BY DEF Load, ServiceTypeOK
  <2> QED
      BY <1>4, <2>1, <2>2 DEF ProviderFails, FetchFail, serviceVars, ServiceTypeOK
<1>5. ASSUME NEW p \in Calls, Observe(p) PROVE ServiceTypeOK'
  <2> DEFINE s == SourceOf(p)
             v == load[p].version
             t == seen[p].clock
  <2>0. PICK pc : InLoader(p, pc)
      BY <1>5 DEF Observe
  <2>1. s \in Sources /\ v \in Versions /\ t \in Nat /\ now \in Nat
      BY <2>0, ObservedWhat DEF ServiceTypeOK
  <2>2. tracker' \in [Sources -> Progress \cup {Untracked}]
    <3>1. v \in Nat
        BY <2>1, ConstantFacts
    <3>2. Observed(tracker[s], v, t) \in Progress \cup {Untracked}
        BY <2>1, <3>1 DEF Observed, Progress, ServiceTypeOK
    <3>3. tracker' = [tracker EXCEPT ![s] = Observed(tracker[s], v, t)]
        BY <1>5 DEF Observe
    <3> QED
        BY <3>2, <3>3 DEF ServiceTypeOK
  <2>3. firstSeen' \in [Sources -> [Versions -> Nat \cup {Untracked}]]
    <3>1. firstSeen' = [firstSeen EXCEPT ![s][v] = IF @ = Untracked THEN now ELSE @]
        BY <1>5 DEF Observe, Record
    <3> QED
        BY <2>1, <3>1 DEF ServiceTypeOK
  <2>4. disordered' \subseteq Sources
      BY <1>5, <2>1 DEF Observe, Record, ServiceTypeOK
  <2>5. seen' \in [Calls -> Seen]
    <3>1. seen' = [seen EXCEPT ![p] = [seen[p] EXCEPT !.pc = "observed"]]
        BY <1>5 DEF Observe, ServiceTypeOK, Seen
    <3>2. [seen[p] EXCEPT !.pc = "observed"] \in Seen
        BY DEF Seen, ServiceTypeOK
    <3> QED
        BY <3>1, <3>2 DEF ServiceTypeOK
  <2> QED
      BY <1>5, <2>2, <2>3, <2>4, <2>5 DEF Observe, slotVars, ServiceTypeOK
<1>6. ASSUME NEW p \in Calls, Capture(p) PROVE ServiceTypeOK'
  <2> DEFINE e == tracker[SourceOf(p)]
             a == IF e.sampleAt = load[p].version THEN e.advancedAt ELSE Untracked
  <2>1. a \in Nat \cup {Untracked}
    <3>1. SourceOf(p) \in Sources
        BY <1>6, ConstantFacts DEF Capture, InLoader, LoadsPlaced, SourceOf
    <3>2. Sighted(SourceOf(p), load[p].version)
        BY <1>6 DEF Capture, InLoader, LoadsPlaced, Reported
    <3>3. e /= Untracked
        BY <3>1, <3>2 DEF TrackerSighted, Sighted
    <3>4. e \in Progress
        BY <3>1, <3>3 DEF ServiceTypeOK
    <3> QED
      <4>1. e.advancedAt \in Nat
          BY <3>4 DEF Progress
      <4> HIDE DEF e
      <4> QED
          BY <4>1
  <2>2. seen' = [seen EXCEPT ![p] = [seen[p] EXCEPT !.pc = "captured", !.advancedAt = a]]
      BY <1>6 DEF Capture, ServiceTypeOK, Seen
  <2> HIDE DEF a
  <2>3. [seen[p] EXCEPT !.pc = "captured", !.advancedAt = a] \in Seen
      BY <2>1 DEF Seen, ServiceTypeOK
  <2> QED
      BY <1>6, <2>2, <2>3 DEF Capture, slotVars, ServiceTypeOK
<1>7. ASSUME NEW p \in Calls, Return(p) PROVE ServiceTypeOK'
  <2>1. load' = [load EXCEPT ![p] = [load[p] EXCEPT !.phase = "stamped", !.loadedAt = now]]
      BY <1>7 DEF Return, Stamp, ServiceTypeOK, Load
  <2>2. [load[p] EXCEPT !.phase = "stamped", !.loadedAt = now] \in Load
      BY DEF Load, ServiceTypeOK
  <2> QED
      BY <1>7, <2>1, <2>2 DEF Return, Stamp, serviceVars, ServiceTypeOK
<1>8. ASSUME NEW p \in Calls, Store(p) PROVE ServiceTypeOK'
  <2>1. FreeLoad \in Load /\ NotSeen \in Seen
      BY DEF FreeLoad, Load, NotSeen, Seen
  <2>2. load[p] \in Load /\ seen[p] \in Seen
      BY DEF ServiceTypeOK
  <2>3. [version |-> load[p].version, storedAt |-> load[p].loadedAt] \in Entry
      BY <2>2 DEF Load, Entry
  <2>4. seen[p].advancedAt \in Nat \cup {Untracked}
      BY <2>2 DEF Seen
  <2>5. entries' \in [Keys -> Entry \cup {None}] /\ inFlight' \in [Keys -> Calls \cup {None}]
      BY <1>8, <2>3 DEF Store, Commit, ServiceTypeOK
  <2>6. progress' \in [Keys -> Nat \cup {Untracked}]
      BY <1>8, <2>4 DEF Store, ServiceTypeOK
  <2>7. load' \in [Calls -> Load] /\ seen' \in [Calls -> Seen]
      BY <1>8, <2>1 DEF Store, Commit, ServiceTypeOK
  <2> QED
      BY <1>8, <2>5, <2>6, <2>7 DEF Store, Commit, ServiceTypeOK
<1>9. CASE Pass
    BY <1>9 DEF Pass, Tick, serviceVars, ServiceTypeOK
<1>10. ASSUME NEW s \in Sources, UpstreamAdvance(s) /\ UNCHANGED serviceVars PROVE ServiceTypeOK'
  <2>1. upstream[s] + 1 \in Versions
      BY <1>10, LoadSlotAssumption DEF UpstreamAdvance, Versions, ServiceTypeOK
  <2> QED
      BY <1>10, <2>1 DEF UpstreamAdvance, serviceVars, ServiceTypeOK
<1>11. ASSUME NEW k \in Keys, Serve(k) PROVE ServiceTypeOK'
    BY <1>11 DEF Serve, allVars, ServiceTypeOK
<1>12. ASSUME NEW p \in Calls, ReadClock(p) PROVE ServiceTypeOK'
  <2>1. seen' = [seen EXCEPT ![p] = [seen[p] EXCEPT !.pc = "clocked", !.clock = now]]
      BY <1>12 DEF ReadClock, ServiceTypeOK, Seen
  <2>2. [seen[p] EXCEPT !.pc = "clocked", !.clock = now] \in Seen
      BY DEF Seen, ServiceTypeOK
  <2> QED
      BY <1>12, <2>1, <2>2 DEF ReadClock, slotVars, ServiceTypeOK
<1> QED
    BY <1>1, <1>2, <1>3, <1>4, <1>5, <1>6, <1>7, <1>8, <1>9, <1>10, <1>11, <1>12 DEF ServiceNext

-----------------------------------------------------------------------------
(* Readings of the clock *)

(* A step that only adds loads to the free ones, or readings to the others, leaves *)
(* the loaders as far behind as they were.                                         *)
LEMMA TimelyUnmoved ==
    ASSUME LoadsTimely, now' = now,
           \A p \in Calls : seen'[p].clock = seen[p].clock
                            /\ (load'[p].phase /= "free" => load[p].phase /= "free")
    PROVE  LoadsTimely'
BY DEF LoadsTimely

LEMMA TimelyStep ==
    ASSUME ServiceTypeOK, LoadsTimely, ServiceNext
    PROVE  LoadsTimely'
<1>0. /\ now \in Nat /\ LoadBound \in Nat
      /\ load \in [Calls -> Load] /\ seen \in [Calls -> Seen]
    BY ServiceAssumption DEF ServiceTypeOK
<1>1. ASSUME NEW k \in Keys, NEW p \in Calls, Start(k, p) PROVE LoadsTimely'
  <2>1. PICK t \in 0 .. now : /\ IF kind = "java" THEN now - t <= LoadBound ELSE t = now
                              /\ seen' = [seen EXCEPT ![p] = [NotSeen EXCEPT !.clock = t]]
      BY <1>1 DEF Start
  <2>2. seen'[p].clock <= now /\ now - seen'[p].clock <= LoadBound
      BY <1>0, <2>1 DEF NotSeen
  <2>3. now' = now /\ \A q \in Calls \ {p} : seen'[q] = seen[q] /\ load'[q] = load[q]
      BY <1>0, <1>1, <2>1 DEF Start, StartLoad
  <2> QED
      BY <2>2, <2>3 DEF LoadsTimely
<1>2. ASSUME NEW p \in Calls, ReadClock(p) PROVE LoadsTimely'
  <2>1. seen'[p].clock = now /\ \A q \in Calls \ {p} : seen'[q] = seen[q]
      BY <1>0, <1>2 DEF ReadClock, Seen
  <2>2. now' = now /\ load' = load
      BY <1>2 DEF ReadClock, slotVars
  <2> QED
      BY <1>0, <2>1, <2>2 DEF LoadsTimely
<1>3. ASSUME NEW p \in Calls, Store(p) PROVE LoadsTimely'
  <2>1. seen'[p].clock = 0 /\ load'[p].phase = "free"
      BY <1>0, <1>3 DEF Store, Commit, NotSeen, FreeLoad
  <2>2. now' = now /\ \A q \in Calls \ {p} : seen'[q] = seen[q] /\ load'[q] = load[q]
      BY <1>0, <1>3 DEF Store, Commit
  <2> QED
      BY <1>0, <2>1, <2>2 DEF LoadsTimely
<1>4. CASE Pass
  <2>1. /\ now' = now + 1 /\ UNCHANGED <<load, seen>>
        /\ \A p \in Calls : load[p].phase /= "free" => now - seen[p].clock < LoadBound
      BY <1>4 DEF Pass, Tick, serviceVars
  <2>2. \A p \in Calls : seen[p].clock \in Nat
      BY <1>0 DEF Seen
  <2> QED
      BY <1>0, <2>1, <2>2 DEF LoadsTimely
<1>5. ASSUME NEW p \in Calls, ProviderAnswers(p) \/ ProviderFails(p) \/ Return(p) PROVE LoadsTimely'
  <2>1. load[p].phase /= "free" /\ now' = now /\ seen' = seen
        /\ \A q \in Calls \ {p} : load'[q] = load[q]
      BY <1>0, <1>5 DEF ProviderAnswers, ProviderFails, Return, FetchOK, FetchFail, Stamp, serviceVars
  <2> QED
      BY <2>1, TimelyUnmoved
<1>6. ASSUME NEW p \in Calls, Observe(p) \/ Capture(p) PROVE LoadsTimely'
  <2>1. now' = now /\ load' = load /\ \A q \in Calls : seen'[q].clock = seen[q].clock
      BY <1>0, <1>6 DEF Observe, Capture, slotVars, Seen
  <2> QED
      BY <2>1, TimelyUnmoved
<1>7. ASSUME UNCHANGED <<now, load, seen>> PROVE LoadsTimely'
    BY <1>7, TimelyUnmoved
<1>8. ASSUME NEW k \in Keys, Serve(k) \/ Depart(k) PROVE UNCHANGED <<now, load, seen>>
    BY <1>8 DEF Serve, Depart, Abandon, allVars, serviceVars
<1>9. ASSUME NEW s \in Sources, UpstreamAdvance(s) /\ UNCHANGED serviceVars
      PROVE  UNCHANGED <<now, load, seen>>
    BY <1>9 DEF UpstreamAdvance, serviceVars
<1> QED
    BY <1>1, <1>2, <1>3, <1>4, <1>5, <1>6, <1>7, <1>8, <1>9 DEF ServiceNext

-----------------------------------------------------------------------------
(* Sightings *)

(* A load that shows nothing to the tracker leaves all that was sighted and every *)
(* age as it is, whether it begins, gets its answer or returns.                   *)
LEMMA QuietStep ==
    ASSUME IInv, NEW p \in Calls,
           UNCHANGED <<now, entries, kind, tracker, progress, firstSeen, disordered>>,
           \A q \in Calls \ {p} : load'[q] = load[q] /\ seen'[q] = seen[q],
           seen'[p].advancedAt /= Untracked =>
               /\ seen[p].advancedAt = seen'[p].advancedAt
               /\ load'[p].key = load[p].key /\ load'[p].version = load[p].version
    PROVE  EntriesSighted' /\ TrackerSighted' /\ SightingsPast' /\ AgesNotEarly' /\ AgesNotLate'
<1>1. EntriesSighted' /\ TrackerSighted' /\ SightingsPast'
    BY DEF IInv, EntriesSighted, TrackerSighted, SightingsPast, Sighted
<1>2. ASSUME NEW q \in Calls, seen'[q].advancedAt /= Untracked
      PROVE  /\ seen[q].advancedAt = seen'[q].advancedAt
             /\ SourceOf(q)' = SourceOf(q) /\ load'[q].version = load[q].version
    BY <1>2 DEF SourceOf
<1>3. AgesNotEarly'
    BY <1>2 DEF IInv, AgesNotEarly, Sighted, EntrySeenAt
<1>4. AgesNotLate'
    BY <1>2 DEF IInv, AgesNotLate, Sighted, EntrySeenAt
<1> QED
    BY <1>1, <1>3, <1>4

(* Time passes, the upstream changes, or a load is given up. *)
LEMMA EnvironmentStep ==
    ASSUME IInv, now' \in Nat, now <= now',
           UNCHANGED <<entries, load, kind, tracker, seen, progress, firstSeen, disordered>>
    PROVE  /\ LoadsPlaced' /\ EntriesSighted' /\ TrackerSighted'
           /\ SightingsPast' /\ AgesNotEarly' /\ AgesNotLate'
<1>0. now \in Nat /\ seen \in [Calls -> Seen]
    BY DEF IInv, ServiceTypeOK
<1>1. LoadsPlaced'
    BY <1>0 DEF IInv, LoadsPlaced, Reported, Sighted, SourceOf, Seen
<1>2. EntriesSighted' /\ TrackerSighted'
    BY DEF IInv, EntriesSighted, TrackerSighted, Sighted
<1>3. SightingsPast'
  <2>1. \A s \in Sources, v \in Versions : Sighted(s, v) => firstSeen[s][v] \in Nat
      BY DEF IInv, ServiceTypeOK, Sighted
  <2> QED
      BY <1>0, <2>1 DEF IInv, SightingsPast, Sighted
<1>4. AgesNotEarly' /\ AgesNotLate'
    BY DEF IInv, AgesNotEarly, AgesNotLate, Sighted, EntrySeenAt, SourceOf
<1> QED
    BY <1>1, <1>2, <1>3, <1>4

LEMMA StartStep ==
    ASSUME IInv, NEW k \in Keys, NEW p \in Calls, Start(k, p)
    PROVE  /\ LoadsPlaced' /\ EntriesSighted' /\ TrackerSighted'
           /\ SightingsPast' /\ AgesNotEarly' /\ AgesNotLate'
<1>0. load \in [Calls -> Load] /\ seen \in [Calls -> Seen] /\ now \in Nat
    BY DEF IInv, ServiceTypeOK
<1>1. /\ load'[p].phase = "loading" /\ load'[p].key = k
      /\ seen'[p].pc = "none" /\ seen'[p].advancedAt = Untracked
      /\ \A q \in Calls \ {p} : load'[q] = load[q] /\ seen'[q] = seen[q]
    BY <1>0 DEF Start, StartLoad, FreeLoad, NotSeen
<1>2. UNCHANGED <<now, entries, kind, tracker, progress, firstSeen, disordered>>
    BY DEF Start, StartLoad
<1>3. LoadsPlaced'
    BY <1>0, <1>1, <1>2 DEF IInv, LoadsPlaced, Reported, Sighted, SourceOf
<1> QED
    BY <1>1, <1>2, <1>3, QuietStep

LEMMA AnswerStep ==
    ASSUME IInv, NEW p \in Calls, ProviderAnswers(p) \/ ProviderFails(p)
    PROVE  /\ LoadsPlaced' /\ EntriesSighted' /\ TrackerSighted'
           /\ SightingsPast' /\ AgesNotEarly' /\ AgesNotLate'
<1>0. load \in [Calls -> Load] /\ upstream \in [Sources -> Versions]
    BY DEF IInv, ServiceTypeOK
<1>1. load[p].phase = "loading" /\ load[p].key \in Keys /\ seen[p].pc = "none" /\ seen[p].advancedAt = Untracked
    BY DEF ProviderAnswers, ProviderFails, FetchOK, FetchFail, IInv, LoadsPlaced
<1>2. /\ UNCHANGED <<now, entries, kind, tracker, progress, firstSeen, disordered, seen>>
      /\ \A q \in Calls \ {p} : load'[q] = load[q]
    BY <1>0 DEF ProviderAnswers, ProviderFails, FetchOK, FetchFail, serviceVars
<1>3. load'[p].phase = "fetched" /\ load'[p].key = load[p].key
    BY <1>0 DEF ProviderAnswers, ProviderFails, FetchOK, FetchFail, Load
<1>4. load'[p].ok => load'[p].version \in Versions
  <2>1. CASE ProviderAnswers(p)
    <3>1. load'[p].version = upstream[Source[load[p].key]]
        BY <1>0, <2>1 DEF ProviderAnswers, FetchOK, Load
    <3> QED
        BY <1>0, <1>1, <3>1, ConstantFacts
  <2>2. CASE ProviderFails(p)
    <3>1. ~load'[p].ok
        BY <1>0, <2>2 DEF ProviderFails, FetchFail, Load
    <3> QED
        BY <3>1
  <2> QED
      BY <2>1, <2>2
<1>5. LoadsPlaced'
    BY <1>1, <1>2, <1>3, <1>4 DEF IInv, LoadsPlaced, Reported, Sighted, SourceOf
<1> QED
    BY <1>1, <1>2, <1>5, QuietStep

LEMMA ReadClockStep ==
    ASSUME IInv, NEW p \in Calls, ReadClock(p)
    PROVE  /\ LoadsPlaced' /\ EntriesSighted' /\ TrackerSighted'
           /\ SightingsPast' /\ AgesNotEarly' /\ AgesNotLate'
<1>0. seen \in [Calls -> Seen]
    BY DEF IInv, ServiceTypeOK
<1>1. load[p].phase = "fetched" /\ load[p].ok /\ seen[p].pc = "none" /\ seen[p].advancedAt = Untracked
    BY DEF ReadClock, InLoader, IInv, LoadsPlaced
<1>2. /\ seen'[p].pc = "clocked" /\ seen'[p].advancedAt = Untracked
      /\ \A q \in Calls \ {p} : seen'[q] = seen[q]
    BY <1>0, <1>1 DEF ReadClock, Seen
<1>3. UNCHANGED <<now, entries, load, kind, tracker, progress, firstSeen, disordered>>
    BY DEF ReadClock, slotVars
<1>4. LoadsPlaced'
    BY <1>1, <1>2, <1>3 DEF IInv, LoadsPlaced, Reported, Sighted, SourceOf
<1> QED
    BY <1>2, <1>3, <1>4, QuietStep

LEMMA ReturnStep ==
    ASSUME IInv, NEW p \in Calls, Return(p)
    PROVE  /\ LoadsPlaced' /\ EntriesSighted' /\ TrackerSighted'
           /\ SightingsPast' /\ AgesNotEarly' /\ AgesNotLate'
<1>0. load \in [Calls -> Load]
    BY DEF IInv, ServiceTypeOK
<1>1. /\ load[p].phase = "fetched" /\ load'[p].phase = "stamped" /\ load'[p].ok = load[p].ok
      /\ load'[p].key = load[p].key /\ load'[p].version = load[p].version
    BY <1>0 DEF Return, Stamp, Load
<1>2. load[p].ok => Reported(p)
    BY DEF Return, Reported
<1>3. /\ UNCHANGED <<now, entries, kind, tracker, progress, firstSeen, disordered, seen>>
      /\ \A q \in Calls \ {p} : load'[q] = load[q]
    BY <1>0 DEF Return, Stamp, serviceVars
<1>4. LoadsPlaced'
    BY <1>1, <1>2, <1>3 DEF IInv, LoadsPlaced, Reported, Sighted, SourceOf
<1> QED
    BY <1>1, <1>3, <1>4, QuietStep

LEMMA CaptureStep ==
    ASSUME IInv, NEW p \in Calls, Capture(p)
    PROVE  /\ LoadsPlaced' /\ EntriesSighted' /\ TrackerSighted'
           /\ SightingsPast' /\ AgesNotEarly' /\ AgesNotLate'
<1> DEFINE s == SourceOf(p)
           v == load[p].version
<1>0. seen \in [Calls -> Seen]
    BY DEF IInv, ServiceTypeOK
<1>1. Sighted(s, v) /\ s \in Sources /\ seen[p].pc = "observed" /\ load[p].phase = "fetched"
    BY ConstantFacts DEF Capture, InLoader, IInv, LoadsPlaced, Reported, SourceOf
<1>2. tracker[s] /= Untracked
    BY <1>1 DEF IInv, TrackerSighted, Sighted
<1>3. /\ seen'[p].pc = "captured" /\ seen'[p].clock = seen[p].clock
      /\ seen'[p].advancedAt = IF tracker[s].sampleAt = v THEN tracker[s].advancedAt ELSE Untracked
      /\ \A q \in Calls \ {p} : seen'[q] = seen[q]
    BY <1>0 DEF Capture, Seen
<1>4. UNCHANGED <<now, entries, load, kind, tracker, progress, firstSeen, disordered>>
    BY DEF Capture, slotVars
<1> HIDE DEF s, v
<1>5. \A q \in Calls : SourceOf(q)' = SourceOf(q) /\ load'[q].version = load[q].version
    BY <1>4 DEF SourceOf
<1>6. LoadsPlaced'
    BY <1>1, <1>3, <1>4, <1>5 DEF IInv, LoadsPlaced, Reported, Sighted
<1>7. EntriesSighted' /\ TrackerSighted' /\ SightingsPast'
    BY <1>4 DEF IInv, EntriesSighted, TrackerSighted, SightingsPast, Sighted
<1>8. AgesNotEarly'
  <2>1. seen'[p].advancedAt /= Untracked => firstSeen[s][v] <= seen'[p].advancedAt + LoadBound
    <3>1. firstSeen[s][v] <= tracker[s].advancedAt + LoadBound
        BY <1>1 DEF IInv, AgesNotEarly, Sighted
    <3> QED
        BY <3>1, <1>3
  <2> QED
      BY <1>3, <1>4, <1>5, <2>1 DEF IInv, AgesNotEarly, Sighted, EntrySeenAt, s, v
<1>9. AgesNotLate'
  <2>1. s \notin disordered /\ seen'[p].advancedAt /= Untracked => seen'[p].advancedAt <= firstSeen[s][v]
    <3>1. s \notin disordered => tracker[s].advancedAt <= firstSeen[s][tracker[s].sampleAt]
        BY <1>1, <1>2 DEF IInv, AgesNotLate
    <3> QED
        BY <3>1, <1>3
  <2>2. seen'[p].advancedAt /= Untracked /\ SourceOf(p)' \notin disordered =>
            seen'[p].advancedAt <= firstSeen[SourceOf(p)'][load'[p].version]
      BY <2>1, <1>5 DEF s, v
  <2> QED
      BY <1>3, <1>4, <1>5, <2>2 DEF IInv, AgesNotLate, Sighted, EntrySeenAt
<1> QED
    BY <1>6, <1>7, <1>8, <1>9

LEMMA StoreStep ==
    ASSUME IInv, NEW p \in Calls, Store(p)
    PROVE  /\ LoadsPlaced' /\ EntriesSighted' /\ TrackerSighted'
           /\ SightingsPast' /\ AgesNotEarly' /\ AgesNotLate'
<1> DEFINE k == load[p].key
           v == load[p].version
           stored == Counts(p) /\ load[p].ok
<1>0. /\ load \in [Calls -> Load] /\ seen \in [Calls -> Seen] /\ now \in Nat
      /\ entries \in [Keys -> Entry \cup {None}] /\ progress \in [Keys -> Nat \cup {Untracked}]
    BY DEF IInv, ServiceTypeOK
<1>1. k \in Keys /\ load[p].phase = "stamped"
    BY DEF Store, Commit, IInv, LoadsPlaced
<1>2. stored => Sighted(Source[k], v)
    BY <1>1 DEF IInv, LoadsPlaced, SourceOf
<1>3. /\ load'[p] = FreeLoad /\ seen'[p] = NotSeen
      /\ \A q \in Calls \ {p} : load'[q] = load[q] /\ seen'[q] = seen[q]
    BY <1>0 DEF Store, Commit
<1>4. /\ entries'[k] = IF stored THEN [version |-> v, storedAt |-> load[p].loadedAt] ELSE entries[k]
      /\ progress'[k] = IF stored THEN seen[p].advancedAt ELSE progress[k]
      /\ \A j \in Keys \ {k} : entries'[j] = entries[j] /\ progress'[j] = progress[j]
    BY <1>0, <1>1 DEF Store, Commit
<1>5. UNCHANGED <<now, kind, tracker, firstSeen, disordered>>
    BY DEF Store, Commit
<1>6. stored => entries'[k] /= None /\ entries'[k].version = v
  <2>1. [version |-> v, storedAt |-> load[p].loadedAt] \in Entry
      BY <1>0 DEF Load, Entry
  <2> QED
      BY <2>1, <1>4, ConstantFacts
<1>7. stored /\ seen[p].advancedAt /= Untracked =>
          /\ firstSeen[Source[k]][v] <= seen[p].advancedAt + LoadBound
          /\ Source[k] \notin disordered => seen[p].advancedAt <= firstSeen[Source[k]][v]
  <2>1. SourceOf(p) = Source[k] /\ Source[k] \in Sources
      BY <1>1, ConstantFacts DEF SourceOf
  <2> QED
      BY <2>1 DEF IInv, AgesNotEarly, AgesNotLate
<1>8. \A q \in Calls \ {p} : SourceOf(q)' = SourceOf(q)
    BY <1>3 DEF SourceOf
<1> HIDE DEF k, v, stored
<1>9. LoadsPlaced'
  <2>1. load'[p].phase = "free" /\ seen'[p].pc = "none" /\ seen'[p].advancedAt = Untracked
      BY <1>3 DEF FreeLoad, NotSeen
  <2> QED
      BY <1>0, <1>3, <1>5, <1>8, <2>1 DEF IInv, LoadsPlaced, Reported, Sighted
<1>10. EntriesSighted'
  <2>1. ASSUME NEW j \in Keys
        PROVE  /\ entries'[j] /= None => Sighted(Source[j], entries'[j].version)
               /\ progress'[j] /= Untracked => entries'[j] /= None
    <3>1. CASE j = k /\ stored
        BY <1>2, <1>4, <1>6, <3>1
    <3>2. CASE ~(j = k /\ stored)
        BY <1>4, <3>2 DEF IInv, EntriesSighted
    <3> QED
        BY <3>1, <3>2
  <2> QED
      BY <1>5, <2>1 DEF EntriesSighted, Sighted
<1>11. TrackerSighted' /\ SightingsPast'
    BY <1>5 DEF IInv, TrackerSighted, SightingsPast, Sighted
<1>12. ASSUME NEW j \in Keys, progress'[j] /= Untracked
       PROVE  /\ firstSeen[Source[j]][entries'[j].version] <= progress'[j] + LoadBound
              /\ Source[j] \notin disordered => progress'[j] <= firstSeen[Source[j]][entries'[j].version]
  <2>1. CASE j = k /\ stored
      BY <1>4, <1>6, <1>7, <1>12, <2>1
  <2>2. CASE ~(j = k /\ stored)
      BY <1>4, <1>12, <2>2, ConstantFacts DEF IInv, AgesNotEarly, AgesNotLate, EntrySeenAt
  <2> QED
      BY <2>1, <2>2
<1>13. seen'[p].advancedAt = Untracked
    BY <1>3 DEF NotSeen
<1>14. AgesNotEarly'
    BY <1>3, <1>5, <1>8, <1>12, <1>13 DEF IInv, AgesNotEarly, Sighted, EntrySeenAt
<1>15. AgesNotLate'
    BY <1>3, <1>5, <1>8, <1>12, <1>13 DEF IInv, AgesNotLate, Sighted, EntrySeenAt
<1> QED
    BY <1>9, <1>10, <1>11, <1>14, <1>15

(* What a step in which a loader tells the tracker a sample does. *)
LEMMA ObserveEffect ==
    ASSUME IInv, NEW p \in Calls, Observe(p),
           NEW s, s = SourceOf(p), NEW v, v = load[p].version, NEW t, t = seen[p].clock
    PROVE  /\ s \in Sources /\ v \in Versions /\ t \in Nat /\ t <= now /\ now <= t + LoadBound
           /\ tracker'[s] = Observed(tracker[s], v, t)
           /\ \A r \in Sources \ {s} : tracker'[r] = tracker[r]
           /\ \A r \in Sources, w \in Versions :
                 firstSeen'[r][w] = IF r = s /\ w = v /\ ~Sighted(s, v) THEN now ELSE firstSeen[r][w]
           /\ disordered' = IF \E w \in Versions : w > v /\ Sighted(s, w)
                            THEN disordered \cup {s} ELSE disordered
           /\ seen'[p].pc = "observed" /\ seen'[p].clock = seen[p].clock
           /\ seen[p].advancedAt = Untracked /\ seen'[p].advancedAt = Untracked
           /\ \A q \in Calls \ {p} : seen'[q] = seen[q]
           /\ UNCHANGED <<now, entries, load, kind, progress>>
<1>0. /\ seen \in [Calls -> Seen] /\ tracker \in [Sources -> Progress \cup {Untracked}]
      /\ firstSeen \in [Sources -> [Versions -> Nat \cup {Untracked}]]
    BY DEF IInv, ServiceTypeOK
<1>1. s \in Sources /\ v \in Versions /\ t \in Nat /\ t <= now /\ now <= t + LoadBound
    BY ObservedWhat DEF Observe, IInv
<1>2. tracker'[s] = Observed(tracker[s], v, t) /\ \A r \in Sources \ {s} : tracker'[r] = tracker[r]
    BY <1>0, <1>1 DEF Observe
<1>3. firstSeen' = [firstSeen EXCEPT ![s][v] = IF @ = Untracked THEN now ELSE @]
    BY DEF Observe, Record
<1>4. \A r \in Sources, w \in Versions :
          firstSeen'[r][w] = IF r = s /\ w = v /\ ~Sighted(s, v) THEN now ELSE firstSeen[r][w]
    BY <1>0, <1>1, <1>3 DEF Sighted
<1>5. disordered' = IF \E w \in Versions : w > v /\ Sighted(s, w)
                    THEN disordered \cup {s} ELSE disordered
    BY DEF Observe, Record, Sighted
<1>6. seen[p].advancedAt = Untracked
    BY DEF Observe, InLoader, IInv, LoadsPlaced
<1>7. /\ seen'[p].pc = "observed" /\ seen'[p].clock = seen[p].clock
      /\ seen'[p].advancedAt = seen[p].advancedAt
      /\ \A q \in Calls \ {p} : seen'[q] = seen[q]
    BY <1>0 DEF Observe, Seen
<1>8. UNCHANGED <<now, entries, load, kind, progress>>
    BY DEF Observe, slotVars
<1> QED
    BY <1>1, <1>2, <1>4, <1>5, <1>6, <1>7, <1>8

LEMMA ObserveStep ==
    ASSUME IInv, NEW p \in Calls, Observe(p)
    PROVE  /\ LoadsPlaced' /\ EntriesSighted' /\ TrackerSighted'
           /\ SightingsPast' /\ AgesNotEarly' /\ AgesNotLate'
<1> DEFINE s == SourceOf(p)
           v == load[p].version
           t == seen[p].clock
           kept == tracker[s] /= Untracked /\ tracker[s].sampleAt = v
<1>1. /\ s \in Sources /\ v \in Versions /\ t \in Nat /\ t <= now /\ now <= t + LoadBound
      /\ tracker'[s] = Observed(tracker[s], v, t)
      /\ \A r \in Sources \ {s} : tracker'[r] = tracker[r]
      /\ \A r \in Sources, w \in Versions :
            firstSeen'[r][w] = IF r = s /\ w = v /\ ~Sighted(s, v) THEN now ELSE firstSeen[r][w]
      /\ disordered' = IF \E w \in Versions : w > v /\ Sighted(s, w)
                       THEN disordered \cup {s} ELSE disordered
      /\ seen'[p].pc = "observed" /\ seen'[p].clock = seen[p].clock
      /\ seen[p].advancedAt = Untracked /\ seen'[p].advancedAt = Untracked
      /\ \A q \in Calls \ {p} : seen'[q] = seen[q]
      /\ UNCHANGED <<now, entries, load, kind, progress>>
    BY ObserveEffect
<1>2. load[p].phase = "fetched" /\ load[p].ok
    BY DEF Observe, InLoader
<1>3. \A q \in Calls : SourceOf(q)' = SourceOf(q)
    BY <1>1 DEF SourceOf
<1>0. now \in Nat /\ LoadBound \in Nat
    BY ServiceAssumption DEF IInv, ServiceTypeOK
<1> HIDE DEF t
<1>4. /\ kept => tracker'[s] = tracker[s]
      /\ ~kept => tracker'[s] = [sampleAt |-> v, advancedAt |-> t] /\ tracker'[s] /= Untracked
  <2>1. v \in Nat
      BY <1>1, ConstantFacts
  <2>2. [sampleAt |-> v, advancedAt |-> t] \in Progress
      BY <1>1, <2>1 DEF Progress
  <2> QED
      BY <1>1, <2>2, ConstantFacts DEF Observed
<1> HIDE DEF s, v, kept
<1>5. kept => Sighted(s, v)
    BY <1>1 DEF IInv, TrackerSighted, kept
<1>6. \A r \in Sources, w \in Versions : Sighted(r, w)' <=> Sighted(r, w) \/ (r = s /\ w = v)
    BY <1>1, <1>0, ConstantFacts DEF Sighted
<1>7. \A r \in Sources, w \in Versions : Sighted(r, w) => firstSeen'[r][w] = firstSeen[r][w]
    BY <1>1 DEF Sighted
<1>8. ASSUME NEW q \in Calls, Reported(q)
      PROVE  /\ SourceOf(q) \in Sources /\ Sighted(SourceOf(q), load[q].version)
             /\ load[q].version \in Versions
    BY <1>8, ConstantFacts DEF IInv, LoadsPlaced, Reported, SourceOf, Sighted
<1>9. ASSUME NEW k \in Keys, entries[k] /= None
      PROVE  /\ Source[k] \in Sources /\ Sighted(Source[k], entries[k].version)
             /\ entries[k].version \in Versions
    BY <1>9, ConstantFacts DEF IInv, EntriesSighted, Sighted
<1>10. LoadsPlaced'
  <2>1. \A q \in Calls : Reported(q)' => Sighted(SourceOf(q), load[q].version)'
    <3>1. ASSUME NEW q \in Calls, Reported(q)', q /= p
          PROVE  Sighted(SourceOf(q), load[q].version)'
      <4>1. Sighted(SourceOf(q), load[q].version) /\ SourceOf(q) \in Sources
            /\ load[q].version \in Versions
          BY <1>1, <1>8, <3>1 DEF Reported
      <4>2. firstSeen'[SourceOf(q)][load[q].version] = firstSeen[SourceOf(q)][load[q].version]
          BY <1>7, <4>1
      <4> QED
          BY <1>1, <1>3, <4>1, <4>2 DEF Sighted
    <3>2. Sighted(SourceOf(p), load[p].version)'
      <4>1. firstSeen'[s][v] /= Untracked
          BY <1>1, <1>6 DEF Sighted
      <4> QED
          BY <1>1, <1>3, <4>1 DEF Sighted, s, v
    <3> QED
        BY <3>1, <3>2
  <2> QED
      BY <1>1, <1>2, <2>1 DEF IInv, LoadsPlaced, Reported
<1>11. EntriesSighted'
    BY <1>1, <1>7, <1>9 DEF IInv, EntriesSighted, Sighted
<1>12. TrackerSighted'
  <2>1. ASSUME NEW r \in Sources, r /= s
        PROVE  IF tracker'[r] = Untracked THEN \A w \in Versions : firstSeen'[r][w] = Untracked
                                          ELSE Sighted(r, tracker[r].sampleAt)'
      BY <1>1, <2>1 DEF IInv, TrackerSighted, Sighted
  <2>2. tracker'[s] /= Untracked /\ tracker'[s].sampleAt = v
      BY <1>4 DEF kept
  <2>3. firstSeen'[s][v] /= Untracked
      BY <1>1, <1>6 DEF Sighted
  <2> QED
      BY <1>1, <2>1, <2>2, <2>3 DEF TrackerSighted, Sighted
<1>13. SightingsPast'
    BY <1>1, <1>0, <1>6 DEF IInv, SightingsPast
<1>14. AgesNotEarly'
  <2>1. ASSUME NEW r \in Sources, NEW w \in Versions, Sighted(r, w)'
        PROVE  firstSeen'[r][w] <= tracker'[r].advancedAt + LoadBound
    <3>1. CASE r = s /\ ~kept
      <4>1. tracker'[r].advancedAt = t
          BY <1>4, <3>1
      <4>2. firstSeen'[r][w] \in Nat /\ firstSeen'[r][w] <= now
        <5>1. firstSeen'[r][w] <= now
            BY <1>1, <1>13, <2>1 DEF SightingsPast
        <5>2. firstSeen[r][w] \in Nat \cup {Untracked}
            BY DEF IInv, ServiceTypeOK
        <5>3. firstSeen'[r][w] \in Nat
            BY <1>1, <1>0, <5>2, <2>1 DEF Sighted
        <5> QED
            BY <5>1, <5>3
      <4> QED
          BY <1>1, <1>0, <4>1, <4>2
    <3>2. CASE ~(r = s /\ ~kept)
      <4>1. Sighted(r, w) /\ tracker'[r] = tracker[r]
          BY <1>1, <1>4, <1>5, <1>6, <2>1, <3>2
      <4> QED
          BY <1>7, <4>1 DEF IInv, AgesNotEarly
    <3> QED
        BY <3>1, <3>2
  <2>2. ASSUME NEW q \in Calls, seen'[q].advancedAt /= Untracked
        PROVE  firstSeen'[SourceOf(q)][load[q].version] <= seen'[q].advancedAt + LoadBound
    <3>1. q /= p /\ seen'[q] = seen[q]
        BY <1>1, <2>2
    <3>2. Reported(q)
        BY <2>2, <3>1 DEF IInv, LoadsPlaced, Reported
    <3> QED
        BY <1>7, <1>8, <2>2, <3>1, <3>2 DEF IInv, AgesNotEarly
  <2>3. ASSUME NEW k \in Keys, progress[k] /= Untracked
        PROVE  firstSeen'[Source[k]][entries[k].version] <= progress[k] + LoadBound
    <3>1. entries[k] /= None
        BY <2>3 DEF IInv, EntriesSighted
    <3> QED
        BY <1>7, <1>9, <2>3, <3>1 DEF IInv, AgesNotEarly, EntrySeenAt
  <2> QED
      BY <1>1, <1>3, <2>1, <2>2, <2>3 DEF AgesNotEarly, EntrySeenAt
<1>15. ASSUME NEW r \in Sources \ disordered', tracker'[r] /= Untracked
       PROVE  /\ \A w \in Versions : Sighted(r, w)' => w <= tracker'[r].sampleAt
              /\ tracker'[r].advancedAt <= firstSeen'[r][tracker'[r].sampleAt]
  <2>1. r \in Sources \ disordered
      BY <1>1, <1>15
  <2>2. CASE r = s /\ ~kept
    <3>1. \A w \in Versions : Sighted(s, w) => ~(w > v)
        BY <1>1, <1>15, <2>2
    <3>2. ~Sighted(s, v)
      <4> SUFFICES ASSUME Sighted(s, v) PROVE FALSE
          OBVIOUS
      <4>1. tracker[s] /= Untracked /\ tracker[s].sampleAt /= v /\ Sighted(s, tracker[s].sampleAt)
          BY <1>1, <2>2 DEF IInv, TrackerSighted, Sighted, kept
      <4>2. v <= tracker[s].sampleAt /\ tracker[s].sampleAt \in Versions
          BY <1>1, <2>1, <2>2, <4>1 DEF IInv, AgesNotLate, Sighted
      <4>3. v \in Nat /\ tracker[s].sampleAt \in Nat
          BY <1>1, <4>2, ConstantFacts
      <4> QED
          BY <3>1, <4>1, <4>2, <4>3
    <3>3. firstSeen'[s][v] = now /\ tracker'[s].sampleAt = v /\ tracker'[s].advancedAt = t /\ t <= now
        BY <1>1, <1>4, <2>2, <3>2
    <3>4. \A w \in Versions : Sighted(r, w)' => w <= v
      <4>1. \A w \in Versions : w \in Nat /\ v \in Nat
          BY <1>1, ConstantFacts
      <4>2. \A w \in Versions : Sighted(r, w)' => ~(w > v)
          BY <1>6, <2>2, <3>1, <4>1
      <4> QED
          BY <4>1, <4>2
    <3> QED
        BY <2>2, <3>3, <3>4
  <2>3. CASE ~(r = s /\ ~kept)
    <3>1. tracker'[r] = tracker[r] /\ \A w \in Versions : Sighted(r, w)' <=> Sighted(r, w)
        BY <1>1, <1>4, <1>5, <1>6, <2>3
    <3>2. Sighted(r, tracker[r].sampleAt) /\ tracker[r].sampleAt \in Versions
        BY <1>15, <3>1 DEF IInv, TrackerSighted, Sighted
    <3>3. firstSeen'[r][tracker[r].sampleAt] = firstSeen[r][tracker[r].sampleAt]
        BY <1>7, <3>2
    <3> QED
        BY <1>15, <2>1, <3>1, <3>3 DEF IInv, AgesNotLate
  <2> QED
      BY <2>2, <2>3
<1>16. ASSUME NEW r \in Sources \ disordered', NEW q \in Calls,
              seen'[q].advancedAt /= Untracked, SourceOf(q) = r
       PROVE  seen'[q].advancedAt <= firstSeen'[r][load[q].version]
  <2>1. q /= p /\ seen'[q] = seen[q] /\ r \notin disordered
      BY <1>1, <1>16
  <2>2. Reported(q)
      BY <1>16, <2>1 DEF IInv, LoadsPlaced, Reported
  <2> QED
      BY <1>7, <1>8, <1>16, <2>1, <2>2 DEF IInv, AgesNotLate
<1>17. ASSUME NEW r \in Sources \ disordered', NEW k \in Keys, progress[k] /= Untracked, Source[k] = r
       PROVE  progress[k] <= firstSeen'[r][entries[k].version]
  <2>1. entries[k] /= None /\ r \notin disordered
      BY <1>1, <1>17 DEF IInv, EntriesSighted
  <2> QED
      BY <1>7, <1>9, <1>17, <2>1 DEF IInv, AgesNotLate, EntrySeenAt
<1>18. AgesNotLate'
    BY <1>1, <1>3, <1>15, <1>16, <1>17 DEF AgesNotLate, EntrySeenAt
<1> QED
    BY <1>10, <1>11, <1>12, <1>13, <1>14, <1>18

-----------------------------------------------------------------------------
(* The invariant *)

LEMMA InvInit == ServiceInit => IInv
<1> SUFFICES ASSUME ServiceInit PROVE IInv
    OBVIOUS
<1>1. /\ now = 0 /\ disordered = {}
      /\ \A p \in Calls : load[p] = FreeLoad /\ seen[p] = NotSeen
      /\ \A k \in Keys : entries[k] = None /\ progress[k] = Untracked
      /\ \A s \in Sources : tracker[s] = Untracked
      /\ \A s \in Sources, v \in Versions : firstSeen[s][v] = Untracked
    BY DEF ServiceInit, Init
<1>2. ServiceTypeOK
  <2>1. FreeLoad \in Load /\ NotSeen \in Seen
      BY DEF FreeLoad, Load, NotSeen, Seen
  <2>2. 0 \in Versions
      BY LoadSlotAssumption DEF Versions
  <2> QED
      BY <2>1, <2>2 DEF ServiceInit, Init, ServiceTypeOK
<1>3. LoadsPlaced
    BY <1>1 DEF LoadsPlaced, Reported, FreeLoad, NotSeen
<1>6. LoadsTimely
    BY <1>1 DEF LoadsTimely, FreeLoad, NotSeen
<1>4. EntriesSighted /\ TrackerSighted /\ SightingsPast
    BY <1>1 DEF EntriesSighted, TrackerSighted, SightingsPast, Sighted
<1>5. AgesNotEarly /\ AgesNotLate
    BY <1>1 DEF AgesNotEarly, AgesNotLate, Sighted, NotSeen
<1> QED
    BY <1>2, <1>3, <1>4, <1>5, <1>6 DEF IInv

LEMMA InvStep == IInv /\ [ServiceNext]_allVars => IInv'
<1> SUFFICES ASSUME IInv, [ServiceNext]_allVars PROVE IInv'
    OBVIOUS
<1> DEFINE Rest == /\ LoadsPlaced /\ EntriesSighted /\ TrackerSighted
                   /\ SightingsPast /\ AgesNotEarly /\ AgesNotLate
<1>0. now \in Nat
    BY DEF IInv, ServiceTypeOK
<1>1. CASE UNCHANGED allVars
  <2>1. ServiceTypeOK'
      BY <1>1 DEF IInv, allVars, ServiceTypeOK
  <2>2. Rest'
      BY <1>0, <1>1, EnvironmentStep DEF allVars
  <2>3. LoadsTimely'
      BY <1>1, TimelyUnmoved DEF IInv, allVars
  <2> QED
      BY <2>1, <2>2, <2>3 DEF IInv
<1>2. CASE ServiceNext
  <2>1. ServiceTypeOK'
      BY <1>2, TypeStep DEF IInv
  <2>2. ASSUME NEW k \in Keys, Serve(k) \/ Depart(k) PROVE Rest'
      BY <1>0, <2>2, EnvironmentStep DEF Serve, Depart, Abandon, allVars, serviceVars
  <2>3. ASSUME NEW k \in Keys, NEW p \in Calls, Start(k, p) PROVE Rest'
      BY <2>3, StartStep
  <2>4. ASSUME NEW p \in Calls, ProviderAnswers(p) \/ ProviderFails(p) PROVE Rest'
      BY <2>4, AnswerStep
  <2>5. ASSUME NEW p \in Calls, ReadClock(p) \/ Observe(p) PROVE Rest'
      BY <2>5, ReadClockStep, ObserveStep
  <2>6. ASSUME NEW p \in Calls, Capture(p) PROVE Rest'
      BY <2>6, CaptureStep
  <2>7. ASSUME NEW p \in Calls, Return(p) PROVE Rest'
      BY <2>7, ReturnStep
  <2>8. ASSUME NEW p \in Calls, Store(p) PROVE Rest'
      BY <2>8, StoreStep
  <2>9. ASSUME Pass PROVE Rest'
    <3>1. now' \in Nat /\ now <= now'
        BY <1>0, <2>9 DEF Pass, Tick
    <3>2. UNCHANGED <<entries, load, kind, tracker, seen, progress, firstSeen, disordered>>
        BY <2>9 DEF Pass, Tick, serviceVars
    <3> QED
        BY <3>1, <3>2, EnvironmentStep
  <2>10. ASSUME NEW s \in Sources, UpstreamAdvance(s) /\ UNCHANGED serviceVars PROVE Rest'
      BY <1>0, <2>10, EnvironmentStep DEF UpstreamAdvance, serviceVars
  <2>11. Rest'
    <3> HIDE DEF Rest
    <3>1. CASE \E k \in Keys : Serve(k) \/ Depart(k) \/ \E p \in Calls : Start(k, p)
        BY <2>2, <2>3, <3>1
    <3>2. CASE \E p \in Calls : ProviderAnswers(p) \/ ProviderFails(p) \/ ReadClock(p) \/ Observe(p)
        BY <2>4, <2>5, <3>2
    <3>3. CASE \E p \in Calls : Capture(p) \/ Return(p) \/ Store(p)
        BY <2>6, <2>7, <2>8, <3>3
    <3>4. CASE \E s \in Sources : UpstreamAdvance(s) /\ UNCHANGED serviceVars
        BY <2>10, <3>4
    <3> QED
        BY <1>2, <2>9, <3>1, <3>2, <3>3, <3>4 DEF ServiceNext
  <2>12. LoadsTimely'
      BY <1>2, TimelyStep DEF IInv
  <2> QED
      BY <2>1, <2>11, <2>12 DEF IInv
<1> QED
    BY <1>1, <1>2

LEMMA Invariant == ServiceSpec => []IInv
BY InvInit, InvStep, PTL DEF ServiceSpec

-----------------------------------------------------------------------------
(***************************************************************************)
(* Types: every load, entry, tracker entry and age is what it should be.    *)
(***************************************************************************)
THEOREM ServiceTypeCorrect == ServiceSpec => []ServiceTypeOK
<1>1. IInv => ServiceTypeOK
    BY DEF IInv
<1> QED
    BY <1>1, Invariant, PTL

(* What is cached has been sighted, and for the live services the tracker has an *)
(* entry for it.                                                                 *)
LEMMA CachedSighted ==
    ASSUME IInv, NEW k \in Keys, entries[k] /= None
    PROVE  /\ Source[k] \in Sources /\ entries[k].version \in Versions
           /\ EntrySeenAt(k) \in Nat /\ EntrySeenAt(k) <= now
           /\ Sighted(Source[k], entries[k].version)
           /\ tracker[Source[k]] /= Untracked /\ tracker[Source[k]].advancedAt \in Nat
<1>1. Source[k] \in Sources /\ Sighted(Source[k], entries[k].version)
    BY ConstantFacts DEF IInv, EntriesSighted
<1>2. EntrySeenAt(k) \in Nat /\ entries[k].version \in Versions
    BY <1>1 DEF Sighted, EntrySeenAt, IInv, ServiceTypeOK
<1>3. EntrySeenAt(k) <= now
    BY <1>1, <1>2 DEF EntrySeenAt, IInv, SightingsPast
<1>4. tracker[Source[k]] /= Untracked
    BY <1>1 DEF IInv, TrackerSighted, Sighted
<1>5. tracker[Source[k]] \in Progress
    BY <1>1, <1>4 DEF IInv, ServiceTypeOK
<1>6. tracker[Source[k]].advancedAt \in Nat
    BY <1>5 DEF Progress
<1> QED
    BY <1>1, <1>2, <1>3, <1>4, <1>6

(***************************************************************************)
(* What has an age is not shown as delayed, or gone, before two or five     *)
(* intervals have passed since each sighting it is measured by, less the    *)
(* time a loader may be behind its reading of the clock: in whatever order  *)
(* loads show their samples to the tracker, and whatever comes between a    *)
(* reading and its sample (Observe, ObserveAt, captureElasticsearchProgress, *)
(* snapshotStateAt of the Java service).                                    *)
(***************************************************************************)
THEOREM NeverEarly == ServiceSpec => []NoEarlyStall
<1>1. ASSUME IInv, NEW k \in Keys, entries[k] /= None, Live \/ progress[k] /= Untracked,
             NEW t \in SeenTimes(k)
      PROVE  /\ CollectionLevel(k) = "warning"  => now - t >= 2 * Interval - LoadBound
             /\ CollectionLevel(k) = "critical" => now - t >= 5 * Interval - LoadBound
  <2>0. /\ Interval \in Nat /\ LoadBound \in Nat /\ now \in Nat
        /\ EntrySeenAt(k) \in Nat /\ Source[k] \in Sources
        /\ tracker[Source[k]] /= Untracked /\ tracker[Source[k]].advancedAt \in Nat
      BY <1>1, CachedSighted, ConstantFacts, ServiceAssumption DEF IInv, ServiceTypeOK
  <2>1. PICK a \in Nat : CollectionLevel(k) = LevelAt(now, a) /\ t \in Nat /\ t <= a + LoadBound
    <3>1. CASE Live
      <4>1. CollectionLevel(k) = LevelAt(now, tracker[Source[k]].advancedAt)
          BY <2>0, <3>1 DEF CollectionLevel, TrackedLevel
      <4>2. PICK v \in Versions : firstSeen[Source[k]][v] /= Untracked /\ t = firstSeen[Source[k]][v]
          BY <1>1, <3>1 DEF SeenTimes
      <4>3. t \in Nat
          BY <1>1, <2>0, <4>2 DEF IInv, ServiceTypeOK
      <4>4. t <= tracker[Source[k]].advancedAt + LoadBound
          BY <1>1, <2>0, <4>2 DEF IInv, AgesNotEarly, Sighted
      <4> QED
          BY <2>0, <4>1, <4>3, <4>4
    <3>2. CASE ~Live
      <4>1. CollectionLevel(k) = LevelAt(now, progress[k]) /\ t = EntrySeenAt(k)
          BY <1>1, <3>2 DEF CollectionLevel, SeenTimes
      <4>2. EntrySeenAt(k) <= progress[k] + LoadBound /\ progress[k] \in Nat
          BY <1>1, <3>2 DEF IInv, AgesNotEarly, ServiceTypeOK
      <4> QED
          BY <2>0, <4>1, <4>2
    <3> QED
        BY <3>1, <3>2
  <2>2. CollectionLevel(k) = "warning" => now - a >= 2 * Interval
      BY <2>0, <2>1 DEF LevelAt
  <2>3. CollectionLevel(k) = "critical" => now - a >= 5 * Interval
      BY <2>0, <2>1 DEF LevelAt
  <2> QED
      BY <2>0, <2>1, <2>2, <2>3
<1>2. IInv => NoEarlyStall
    BY <1>1 DEF NoEarlyStall
<1> QED
    BY <1>2, Invariant, PTL

(***************************************************************************)
(* While the loads of a source show its samples in order, the age on every  *)
(* page counts from the first sighting or a reading of the clock shortly    *)
(* before, through cache hits, stale answers, abandoned loads and loads of  *)
(* other keys.                                                              *)
(***************************************************************************)
THEOREM AgesTrue == ServiceSpec => []BaselineTrue
<1>1. ASSUME IInv, NEW k \in Keys, entries[k] /= None, Source[k] \notin disordered
      PROVE  IF Live
             THEN CountsFrom(tracker[Source[k]].advancedAt, firstSeen[Source[k]][NewestSeen(Source[k])])
             ELSE progress[k] /= Untracked => CountsFrom(progress[k], EntrySeenAt(k))
  <2> DEFINE s == Source[k]
             m == tracker[s].sampleAt
  <2>0. s \in Sources \ disordered /\ tracker[s] /= Untracked /\ LoadBound \in Nat
      BY <1>1, CachedSighted, ServiceAssumption
  <2>1. /\ Sighted(s, m) /\ \A v \in Versions : Sighted(s, v) => v <= m
        /\ tracker[s].advancedAt <= firstSeen[s][m]
      BY <1>1, <2>0 DEF IInv, TrackerSighted, AgesNotLate
  <2>2. NewestSeen(s) = m
    <3> DEFINE Newest(v) == /\ firstSeen[s][v] /= Untracked
                            /\ \A w \in Versions : firstSeen[s][w] /= Untracked => w <= v
    <3> HIDE DEF m, s
    <3>1. m \in Versions /\ Newest(m)
        BY <2>1 DEF Sighted
    <3>2. \A v \in Versions : Newest(v) => v = m
      <4> SUFFICES ASSUME NEW v \in Versions, Newest(v) PROVE v = m
          OBVIOUS
      <4>1. v <= m /\ m <= v
          BY <3>1
      <4>2. v \in Nat /\ m \in Nat
          BY <3>1, ConstantFacts
      <4> QED
          BY <4>1, <4>2
    <3>3. NewestSeen(s) = CHOOSE v \in Versions : Newest(v)
        BY DEF NewestSeen
    <3> HIDE DEF Newest
    <3> QED
        BY <3>1, <3>2, <3>3
  <2>3. CASE Live
    <3>1. tracker[s].advancedAt \in Nat /\ firstSeen[s][m] \in Nat
      <4>1. m \in Versions /\ firstSeen[s][m] /= Untracked
          BY <2>1 DEF Sighted
      <4> HIDE DEF m
      <4>2. firstSeen[s][m] \in Nat
          BY <1>1, <2>0, <4>1 DEF IInv, ServiceTypeOK
      <4> QED
          BY <1>1, <4>2, CachedSighted
    <3>2. firstSeen[s][m] <= tracker[s].advancedAt + LoadBound
      <4>1. m \in Versions
          BY <2>1 DEF Sighted
      <4> HIDE DEF m
      <4> QED
          BY <1>1, <2>0, <2>1, <4>1 DEF IInv, AgesNotEarly
    <3>3. CountsFrom(tracker[s].advancedAt, firstSeen[s][m])
        BY <2>0, <2>1, <3>1, <3>2 DEF CountsFrom
    <3> QED
        BY <2>2, <2>3, <3>3
  <2>4. CASE ~Live
    <3>1. ASSUME progress[k] /= Untracked PROVE CountsFrom(progress[k], EntrySeenAt(k))
      <4>1. EntrySeenAt(k) <= progress[k] + LoadBound /\ progress[k] <= EntrySeenAt(k)
          BY <1>1, <2>0, <3>1 DEF IInv, AgesNotEarly, AgesNotLate
      <4>2. EntrySeenAt(k) \in Nat /\ progress[k] \in Nat
          BY <1>1, <3>1, CachedSighted DEF IInv, ServiceTypeOK
      <4> QED
          BY <2>0, <4>1, <4>2 DEF CountsFrom
    <3> QED
        BY <2>4, <3>1
  <2> QED
      BY <2>3, <2>4
<1>2. IInv => BaselineTrue
    BY <1>1 DEF BaselineTrue
<1> QED
    BY <1>2, Invariant, PTL

-----------------------------------------------------------------------------
(* A step of a service is one of its loads, or leaves the loads as they are. *)
LEMMA ServiceStepsLoad == [ServiceNext]_allVars => [Next]_slotVars
<1> SUFFICES ASSUME [ServiceNext]_allVars PROVE [Next]_slotVars
    OBVIOUS
<1>1. ASSUME NEW k \in Keys, NEW p \in Calls, Start(k, p) PROVE Next
    BY <1>1 DEF Start, Next
<1>2. ASSUME NEW k \in Keys, Depart(k) PROVE Next
    BY <1>2 DEF Depart, Next
<1>3. ASSUME NEW p \in Calls, ProviderAnswers(p) \/ ProviderFails(p) \/ Return(p) \/ Store(p) PROVE Next
    BY <1>3 DEF ProviderAnswers, ProviderFails, Return, Store, Next
<1>4. ASSUME NEW p \in Calls, ReadClock(p) \/ Observe(p) \/ Capture(p) PROVE UNCHANGED slotVars
    BY <1>4 DEF ReadClock, Observe, Capture
<1>5. ASSUME Pass PROVE Next
    BY <1>5 DEF Pass, Next
<1>6. ASSUME NEW s \in Sources, UpstreamAdvance(s) PROVE Next
    BY <1>6 DEF Next
<1>7. ASSUME \/ \E k \in Keys : Serve(k)
             \/ UNCHANGED allVars
      PROVE  UNCHANGED slotVars
    BY <1>7 DEF Serve, allVars, slotVars
<1> QED
    BY <1>1, <1>2, <1>3, <1>4, <1>5, <1>6, <1>7 DEF ServiceNext

(***************************************************************************)
(* The services load as cache.Store lets them (GetOrLoadWithStale): whatever *)
(* the tracker is shown, nothing beyond the steps of LoadSlot happens to     *)
(* the loads and the entries, so StoreLoadsOneAtATime of CacheStoreProofs    *)
(* is about the very loads of this module.                                   *)
(***************************************************************************)
THEOREM ServiceLoadsThroughSlot == ServiceSpec => Spec
<1>1. ServiceInit => Init
    BY DEF ServiceInit
<1> QED
    BY <1>1, ServiceStepsLoad, PTL DEF ServiceSpec, Spec

=============================================================================
