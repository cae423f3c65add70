--------------------------- MODULE SnapshotService ---------------------------
(***************************************************************************)
(* The services over the cache (internal/service): a loader takes a         *)
(* snapshot from the provider and, before it returns, tells the service's   *)
(* freshness tracker the time of every sample in it.  What a page shows as  *)
(* collection level comes from the tracker.                                 *)
(*                                                                         *)
(* The services differ in when they read the tracker:                       *)
(*   host, live              - host; MySQL, disk and Redis: at a request;   *)
(*   elasticsearch, rabbitmq - in the loader, after Observe, into the       *)
(*                             cached state;                                *)
(*   java                    - likewise, and it observes with the time at   *)
(*                             which the request behind the load began.     *)
(* The others read the clock before they take the tracker's lock: another   *)
(* loader may come between the reading and the sample reported with it.     *)
(*                                                                         *)
(* The loads are those of LoadSlot.  Several keys may read the same source: *)
(* the host service caches the host list and each host's detail under keys  *)
(* of their own, with one tracker for all; the others have a single key.    *)
(* The tracker outlives a load that is abandoned: its loader runs on and    *)
(* still calls Observe.                                                     *)
(***************************************************************************)
EXTENDS LoadSlot, Freshness

CONSTANTS
    Kinds,       \* the kinds of service considered
    KeysOf,      \* KeysOf[i]: the keys a service of kind i caches under
    Horizon,     \* Horizon[i]: bound on the clock of a service of kind i
    LoadBound    \* the ticks a loader may be behind a reading of the clock of its own

ASSUME ServiceAssumption ==
    /\ Kinds \subseteq {"host", "live", "elasticsearch", "rabbitmq", "java"}
    /\ KeysOf \in [Kinds -> SUBSET Keys]
    /\ Horizon \in [Kinds -> Nat]
    /\ LoadBound \in Nat

VARIABLES
    kind,        \* the kind of the service
    tracker,     \* tracker[s]: the tracker's entry for source s
    seen,        \* seen[p]: how far load p's loader is past its provider call, and
                 \* the latest time it has read from the clock
    progress,    \* progress[k]: advancedAt in the cached state of k
    firstSeen,   \* history: when each version of a source first got to the tracker
    disordered   \* history: the sources of which an old version followed a newer one

serviceVars == <<kind, tracker, seen, progress, firstSeen, disordered>>
allVars == <<now, upstream, entries, inFlight, load,
             kind, tracker, seen, progress, firstSeen, disordered>>

Versions == 0 .. MaxVersion

Seen == [pc : {"none", "clocked", "observed", "captured"}, clock : Nat, advancedAt : Nat \cup {Untracked}]

(* Whether the level is worked out from the tracker when a request is served. *)
Live == kind \in {"host", "live"}

NotSeen == [pc |-> "none", clock |-> 0, advancedAt |-> Untracked]

ServiceInit ==
    /\ Init
    /\ kind \in Kinds
    /\ tracker = [s \in Sources |-> Untracked]
    /\ seen = [p \in Calls |-> NotSeen]
    /\ progress = [k \in Keys |-> Untracked]
    /\ firstSeen = [s \in Sources |-> [v \in Versions |-> Untracked]]
    /\ disordered = {}

-----------------------------------------------------------------------------
(* A load starts.  In the Java service the request behind it has read the clock *)
(* before; the reading of the others is of no use to the tracker.               *)
Start(k, p) ==
    /\ k \in KeysOf[kind]
    /\ StartLoad(k, p)
    /\ \E t \in 0 .. now :
          /\ IF kind = "java" THEN now - t <= LoadBound ELSE t = now
          /\ seen' = [seen EXCEPT ![p] = [NotSeen EXCEPT !.clock = t]]
    /\ UNCHANGED <<kind, tracker, progress, firstSeen, disordered>>

Depart(k) == Abandon(k) /\ UNCHANGED serviceVars

ProviderAnswers(p) == FetchOK(p) /\ UNCHANGED serviceVars

ProviderFails(p) == FetchFail(p) /\ UNCHANGED serviceVars

SourceOf(p) == Source[load[p].key]

(* The provider returned a snapshot and the loader has not gone beyond step pc. *)
InLoader(p, pc) == load[p].phase = "fetched" /\ load[p].ok /\ seen[p].pc = pc

(* Mutant: the age counts from one interval before the sighting. *)
ReadClockIntervalAgo(p) ==
    /\ kind /= "java"
    /\ InLoader(p, "none")
    /\ seen' = [seen EXCEPT ![p].pc = "clocked", ![p].clock = now - Interval]
    /\ UNCHANGED <<slotVars, kind, tracker, progress, firstSeen, disordered>>

(* Observe reads the clock, before ObserveAt takes the tracker's lock. *)
ReadClock(p) ==
    /\ kind /= "java"
    /\ InLoader(p, "none")
    /\ seen' = [seen EXCEPT ![p].pc = "clocked", ![p].clock = now]
    /\ UNCHANGED <<slotVars, kind, tracker, progress, firstSeen, disordered>>

(* The histories: the moment at which a version first gets to the tracker, *)
(* whatever time is given with it, and whether it comes too late.          *)
Record(s, v) ==
    /\ firstSeen' = [firstSeen EXCEPT ![s][v] = IF @ = Untracked THEN now ELSE @]
    /\ disordered' = IF \E w \in Versions : w > v /\ firstSeen[s][w] /= Untracked
                     THEN disordered \cup {s}
                     ELSE disordered

(* ObserveAt, under the tracker's lock, with the time read before. *)
Observe(p) ==
    LET s == SourceOf(p)
        v == load[p].version
    IN  /\ InLoader(p, IF kind = "java" THEN "none" ELSE "clocked")
        /\ tracker' = [tracker EXCEPT ![s] = Observed(@, v, seen[p].clock)]
        /\ Record(s, v)
        /\ seen' = [seen EXCEPT ![p].pc = "observed"]
        /\ UNCHANGED <<slotVars, kind, progress>>

(* captureProgress, under the lock again: nothing is captured for a source whose *)
(* entry another loader has moved to another sample in the meantime.             *)
Capture(p) ==
    LET e == tracker[SourceOf(p)]
    IN  /\ ~Live
        /\ InLoader(p, "observed")
        /\ seen' = [seen EXCEPT ![p].pc = "captured",
                                ![p].advancedAt = IF e.sampleAt = load[p].version
                                                  THEN e.advancedAt ELSE Untracked]
        /\ UNCHANGED <<slotVars, kind, tracker, progress, firstSeen, disordered>>

(* The loader has returned. *)
Return(p) ==
    /\ ~load[p].ok \/ seen[p].pc = (IF Live THEN "observed" ELSE "captured")
    /\ Stamp(p)
    /\ UNCHANGED serviceVars

(* The cached state and the captured progress are one value. *)
Store(p) ==
    /\ Commit(p)
    /\ progress' = IF Counts(p) /\ load[p].ok
                   THEN [progress EXCEPT ![load[p].key] = seen[p].advancedAt]
                   ELSE progress
    /\ seen' = [seen EXCEPT ![p] = NotSeen]
    /\ UNCHANGED <<kind, tracker, firstSeen, disordered>>

(* Time passes, but leaves no loader more than LoadBound behind a reading of its *)
(* own: the provider call has a timeout (cmd/infraview/main.go), and all that    *)
(* follows waits for nothing but locks held for a moment.                        *)
Pass ==
    /\ now < Horizon[kind]
    /\ \A p \in Calls : load[p].phase /= "free" => now - seen[p].clock < LoadBound
    /\ Tick
    /\ UNCHANGED serviceVars

(* A request is served the fresh entry of k, and works out its level; nothing changes. *)
Serve(k) ==
    /\ k \in KeysOf[kind]
    /\ ~Expired(k)
    /\ UNCHANGED allVars

ServiceNext ==
    \/ \E k \in Keys : Serve(k)
    \/ \E k \in Keys, p \in Calls : Start(k, p)
    \/ \E k \in Keys : Depart(k)
    \/ \E p \in Calls : \/ ProviderAnswers(p)
                        \/ ProviderFails(p)
                        \/ ReadClock(p)
                        \/ Observe(p)
                        \/ Capture(p)
                        \/ Return(p)
                        \/ Store(p)
    \/ Pass
    \/ \E s \in Sources : UpstreamAdvance(s) /\ UNCHANGED serviceVars

ServiceSpec == ServiceInit /\ [][ServiceNext]_allVars

-----------------------------------------------------------------------------
(* What a request that is served the entry of k shows as its collection level: *)
(* it is worked out when it is served, from the tracker or from the progress.  *)
CollectionLevel(k) ==
    IF Live THEN TrackedLevel(tracker[Source[k]], now)
    ELSE IF progress[k] /= Untracked THEN LevelAt(now, progress[k])
    ELSE IF kind = "elasticsearch" THEN "critical" ELSE "unknown"

(* When the version that key k has cached was first seen. *)
EntrySeenAt(k) == firstSeen[Source[k]][entries[k].version]

(* The newest version of source s the tracker has been shown. *)
NewestSeen(s) ==
    CHOOSE v \in Versions : /\ firstSeen[s][v] /= Untracked
                            /\ \A w \in Versions : firstSeen[s][w] /= Untracked => w <= v

(* The sightings the age of k is to be measured by. *)
SeenTimes(k) ==
    IF Live THEN {firstSeen[Source[k]][v] : v \in {w \in Versions : firstSeen[Source[k]][w] /= Untracked}}
    ELSE {EntrySeenAt(k)}

(* An age counts from a sighting, or from a reading of the clock shortly before. *)
CountsFrom(advancedAt, seenAt) == seenAt - LoadBound <= advancedAt /\ advancedAt <= seenAt

-----------------------------------------------------------------------------
(* Properties *)

(* Every variable of the service keeps its type. *)
ServiceTypeOK ==
    /\ now \in Nat
    /\ upstream \in [Sources -> Versions]
    /\ entries \in [Keys -> Entry \cup {None}]
    /\ inFlight \in [Keys -> Calls \cup {None}]
    /\ load \in [Calls -> Load]
    /\ kind \in Kinds
    /\ tracker \in [Sources -> Progress \cup {Untracked}]
    /\ seen \in [Calls -> Seen]
    /\ progress \in [Keys -> Nat \cup {Untracked}]
    /\ firstSeen \in [Sources -> [Versions -> Nat \cup {Untracked}]]
    /\ disordered \subseteq Sources

(***************************************************************************)
(* As long as the loads of a source show its samples in order, the age a    *)
(* page shows counts from the very first sighting: of the newest sample in  *)
(* a live service, of the cached one in the others.  It may count from a    *)
(* little before, as the time is read before the sample gets to the         *)
(* tracker, and never from after: no cache hit, stale answer, second loader *)
(* or abandoned load makes a stalled source young.                          *)
(***************************************************************************)
BaselineTrue ==
    \A k \in Keys : entries[k] /= None /\ Source[k] \notin disordered =>
        IF Live
        THEN CountsFrom(tracker[Source[k]].advancedAt, firstSeen[Source[k]][NewestSeen(Source[k])])
        ELSE progress[k] /= Untracked => CountsFrom(progress[k], EntrySeenAt(k))

(***************************************************************************)
(* In whatever order loads show their samples, and whichever loader comes   *)
(* between another's reading of the clock and its sample, data that have an *)
(* age are shown as delayed no sooner than two intervals, and as gone no    *)
(* sooner than five, after the program saw them, but for the time a loader  *)
(* may be behind its reading of the clock.  In a live service that is so    *)
(* for every sample of the source the program has seen, not only the one it *)
(* has cached.  What has lost its age is GoneMeansStalled's.                *)
(***************************************************************************)
NoEarlyStall ==
    \A k \in Keys : entries[k] /= None /\ (Live \/ progress[k] /= Untracked) =>
        \A t \in SeenTimes(k) :
            /\ CollectionLevel(k) = "warning"  => now - t >= 2 * Interval - LoadBound
            /\ CollectionLevel(k) = "critical" => now - t >= 5 * Interval - LoadBound

(***************************************************************************)
(* README.md: a source that has not advanced for two intervals is shown as  *)
(* delayed.  What is shown as normal has advanced within two intervals, and *)
(* the time a load may take.  The samples of the source never go back.      *)
(***************************************************************************)
StallShown ==
    \A k \in Keys : entries[k] /= None /\ CollectionLevel(k) = "normal" =>
        now - firstSeen[Source[k]][NewestSeen(Source[k])] < 2 * Interval + LoadBound

(***************************************************************************)
(* README.md: collection is shown as gone after five intervals without an   *)
(* advance.  What is shown as gone was first seen that long ago.            *)
(***************************************************************************)
GoneMeansStalled ==
    \A k \in Keys : entries[k] /= None /\ CollectionLevel(k) = "critical" =>
        now - EntrySeenAt(k) >= 5 * Interval
=============================================================================
