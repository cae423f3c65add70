-------------------------- MODULE CacheStoreRefines --------------------------
(***************************************************************************)
(* CacheStore implements what it promises its callers (CacheContract) and   *)
(* what the services assume of its loads (LoadSlot).                        *)
(***************************************************************************)
EXTENDS CacheStore

(* A request, with where it stands inside GetOrLoad forgotten. *)
AskOf(c) ==
    LET r == req[c]
    IN  [pc      |-> CASE r.pc = "idle"     -> "idle"
                       [] r.pc = "answered" -> "answered"
                       [] OTHER             -> "pending",
         key     |-> r.key,
         floor   |-> r.floor,
         ctxDone |-> r.ctxDone,
         outcome |-> IF r.result.state \in {"fresh", "stale"} THEN "value"
                     ELSE r.result.state,
         version |-> r.result.version]

Contract == INSTANCE CacheContract WITH ask <- [c \in Callers |-> AskOf(c)]

(* A load, with its waiters forgotten; one that is closed is over. *)
LoadOf(p) ==
    [phase    |-> IF call[p].phase = "closed" THEN "free" ELSE call[p].phase,
     key      |-> IF call[p].phase = "closed" THEN None ELSE call[p].key,
     ok       |-> call[p].phase = "closed" \/ call[p].err = "none",
     version  |-> IF call[p].phase = "closed" THEN 0 ELSE call[p].version,
     loadedAt |-> IF call[p].phase = "closed" THEN 0 ELSE call[p].loadedAt]

Slot == INSTANCE LoadSlot WITH Sources <- Keys, Source <- [k \in Keys |-> k],
                               load <- [p \in Calls |-> LoadOf(p)]

(***************************************************************************)
(* GetOrLoad keeps its promise to every caller: no value out of order with  *)
(* one already answered, no value the upstream never had, no context error  *)
(* but the caller's own.                                                    *)
(***************************************************************************)
KeepsContract == Contract!Spec

(***************************************************************************)
(* Seen without its requests, the store starts a load only when the entry   *)
(* has outlived the ttl and none is in flight, and only the load in flight  *)
(* replaces the entry.                                                      *)
(***************************************************************************)
LoadsOneAtATime == Slot!Spec
=============================================================================
