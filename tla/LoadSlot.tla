------------------------------- MODULE LoadSlot -------------------------------
(***************************************************************************)
(* What the services may assume of cache.Store about loads: per key at most *)
(* one load counts at a time, it starts only when the entry has outlived    *)
(* its ttl, it may be abandoned at any moment, and only a load that still   *)
(* counts may replace the entry.  An abandoned load runs on to its end.     *)
(*                                                                         *)
(* Requests are left out: who started, joined or left a load is             *)
(* CacheStore's business, and CacheStoreRefines shows that CacheStore       *)
(* implements this module.                                                  *)
(***************************************************************************)
EXTENDS Integers

CONSTANTS
    Keys,        \* cache keys
    Sources,     \* what the loaders read from the upstream
    Source,      \* Source[k]: what the loader of k reads
    Calls,       \* identities of loads
    None,        \* the absent entry, load, or key
    TTL,         \* ttl of the keys
    MaxTime,     \* bound on the clock
    MaxVersion   \* bound on the changes of the upstream

Entry == [version : Nat, storedAt : Nat]

ASSUME LoadSlotAssumption ==
    /\ None \notin Calls \cup Keys \cup Entry
    /\ Source \in [Keys -> Sources]
    /\ TTL \in Nat
    /\ MaxTime \in Nat
    /\ MaxVersion \in Nat

VARIABLES
    now,         \* the clock
    upstream,    \* upstream[s]: the version of source s
    entries,     \* the cached value of each key
    inFlight,    \* the load of each key that counts
    load         \* load[p]: how far load p has come, and what it got

slotVars == <<now, upstream, entries, inFlight, load>>

Load == [phase : {"free", "loading", "fetched", "stamped"}, key : Keys \cup {None},
         ok : BOOLEAN, version : Nat, loadedAt : Nat]

FreeLoad == [phase |-> "free", key |-> None, ok |-> TRUE, version |-> 0, loadedAt |-> 0]

Init ==
    /\ now = 0
    /\ upstream = [s \in Sources |-> 0]
    /\ entries = [k \in Keys |-> None]
    /\ inFlight = [k \in Keys |-> None]
    /\ load = [p \in Calls |-> FreeLoad]

Expired(k) == entries[k] /= None => now - entries[k].storedAt >= TTL

StartLoad(k, p) ==
    /\ Expired(k)
    /\ inFlight[k] = None
    /\ load[p].phase = "free"
    /\ load' = [load EXCEPT ![p] = [FreeLoad EXCEPT !.phase = "loading", !.key = k]]
    /\ inFlight' = [inFlight EXCEPT ![k] = p]
    /\ UNCHANGED <<now, upstream, entries>>

(* Everybody who wanted the load has gone. *)
Abandon(k) ==
    /\ inFlight[k] /= None
    /\ inFlight' = [inFlight EXCEPT ![k] = None]
    /\ UNCHANGED <<now, upstream, entries, load>>

FetchOK(p) ==
    /\ load[p].phase = "loading"
    /\ load' = [load EXCEPT ![p].phase = "fetched",
                            ![p].version = upstream[Source[load[p].key]]]
    /\ UNCHANGED <<now, upstream, entries, inFlight>>

FetchFail(p) ==
    /\ load[p].phase = "loading"
    /\ load' = [load EXCEPT ![p].phase = "fetched", ![p].ok = FALSE]
    /\ UNCHANGED <<now, upstream, entries, inFlight>>

Stamp(p) ==
    /\ load[p].phase = "fetched"
    /\ load' = [load EXCEPT ![p].phase = "stamped", ![p].loadedAt = now]
    /\ UNCHANGED <<now, upstream, entries, inFlight>>

Counts(p) == load[p].phase /= "free" /\ inFlight[load[p].key] = p

Commit(p) ==
    LET k == load[p].key
    IN  /\ load[p].phase = "stamped"
        /\ entries' = IF Counts(p) /\ load[p].ok
                      THEN [entries EXCEPT ![k] = [version  |-> load[p].version,
                                                   storedAt |-> load[p].loadedAt]]
                      ELSE entries
        /\ inFlight' = IF Counts(p) THEN [inFlight EXCEPT ![k] = None] ELSE inFlight
        /\ load' = [load EXCEPT ![p] = FreeLoad]
        /\ UNCHANGED <<now, upstream>>

Tick ==
    /\ now < MaxTime
    /\ now' = now + 1
    /\ UNCHANGED <<upstream, entries, inFlight, load>>

UpstreamAdvance(s) ==
    /\ upstream[s] < MaxVersion
    /\ upstream' = [upstream EXCEPT ![s] = @ + 1]
    /\ UNCHANGED <<now, entries, inFlight, load>>

Next ==
    \/ \E k \in Keys, p \in Calls : StartLoad(k, p)
    \/ \E k \in Keys : Abandon(k)
    \/ \E p \in Calls : FetchOK(p) \/ FetchFail(p) \/ Stamp(p) \/ Commit(p)
    \/ Tick
    \/ \E s \in Sources : UpstreamAdvance(s)

Spec == Init /\ [][Next]_slotVars
=============================================================================
