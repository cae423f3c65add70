------------------------------ MODULE CacheStore ------------------------------
(***************************************************************************)
(* internal/cache/store.go: the in-process cache behind every page.        *)
(*                                                                         *)
(* GetOrLoad answers from a fresh entry, joins the load in flight for its  *)
(* key, or starts one.  The load runs in a goroutine whose context ignores *)
(* the caller's cancellation (context.WithoutCancel) and is canceled only  *)
(* when the last waiter has gone.  Each step below is what one goroutine   *)
(* does between two points where another may run: a clock read, a critical *)
(* section of s.mu, the loader's call of the upstream, or a select.        *)
(*                                                                         *)
(* The upstream is a counter per key: the value of a load is the version   *)
(* the upstream had when it answered, so a value served out of order shows *)
(* as a smaller version.                                                   *)
(***************************************************************************)
EXTENDS Integers, FiniteSets

CONSTANTS
    Keys,        \* cache keys
    Callers,     \* goroutines that call GetOrLoad, one request at a time each
    Calls,       \* call structures; bounds the loads that exist at once
    None,        \* the absent entry, call, or key
    TTL,         \* the ttl of the keys, in ticks
    MaxStales,   \* the values of maxStale a request may pass
    MaxTime,     \* bound on the clock
    MaxVersion   \* bound on the changes of the upstream

Entry == [version : Nat, storedAt : Nat]

ASSUME ConstantsAssumption ==
    /\ None \notin Calls \cup Keys \cup Entry
    /\ IsFiniteSet(Callers)
    /\ TTL \in Nat
    /\ MaxStales \subseteq Nat
    /\ MaxTime \in Nat
    /\ MaxVersion \in Nat

VARIABLES
    now,         \* the clock
    upstream,    \* upstream[k]: the version the loader of k would return now
    entries,     \* Store.entries
    inFlight,    \* Store.inFlight
    call,        \* call[p]: the fields of a call and how far its load has come
    req,         \* req[c]: the local state of a call of GetOrLoad
    served       \* history: the newest version answered for each key

vars == <<now, upstream, entries, inFlight, call, req, served>>

-----------------------------------------------------------------------------
(***************************************************************************)
(* A load: "loading" until the upstream answers, "fetched" until load has  *)
(* read the clock, "stamped" until it has the lock, "closed" once done is  *)
(* closed.  A call nobody refers to any more is "free".                    *)
(***************************************************************************)
Active == {"loading", "fetched", "stamped"}

Call == [phase : Active \cup {"free", "closed"}, key : Keys \cup {None},
         waiters : Nat, abandoned : BOOLEAN, canceled : BOOLEAN,
         err : {"none", "upstream", "canceled"}, version : Nat,
         loadedAt : Nat, stale : Entry \cup {None}]

FreeCall == [phase |-> "free", key |-> None, waiters |-> 0, abandoned |-> FALSE,
             canceled |-> FALSE, err |-> "none", version |-> 0, loadedAt |-> 0,
             stale |-> None]

(***************************************************************************)
(* What GetOrLoad returned: a fresh or a stale value, the load's error     *)
(* ("upstream", or "canceled" when it is the cancellation of the load's    *)
(* own context), or the request's own ctx.Err() ("ctx").                   *)
(***************************************************************************)
Result == [state : {"none", "fresh", "stale", "upstream", "canceled", "ctx"},
           version : Nat, storedAt : Nat]

NoResult == [state |-> "none", version |-> 0, storedAt |-> 0]

Req == [pc : {"idle", "lookup", "wait", "leave", "answered"}, key : Keys \cup {None},
        start : Nat, maxStale : Nat, on : Calls \cup {None}, ctxDone : BOOLEAN,
        floor : Nat, result : Result]

IdleReq == [pc |-> "idle", key |-> None, start |-> 0, maxStale |-> 0, on |-> None,
            ctxDone |-> FALSE, floor |-> 0, result |-> NoResult]

Referrers(p) == {c \in Callers : req[c].on = p}

Failure(state) == [NoResult EXCEPT !.state = state]

-----------------------------------------------------------------------------
Init ==
    /\ now = 0
    /\ upstream = [k \in Keys |-> 0]
    /\ entries = [k \in Keys |-> None]
    /\ inFlight = [k \in Keys |-> None]
    /\ call = [p \in Calls |-> FreeCall]
    /\ req = [c \in Callers |-> IdleReq]
    /\ served = [k \in Keys |-> 0]

(* Request c returns r: of its local state, what the properties compare with *)
(* the value it got is kept. A value answered is remembered in served.       *)
AnswerWith(c, r) ==
    /\ req' = [req EXCEPT ![c] =
                 IF r.state \in {"fresh", "stale"}
                 THEN [@ EXCEPT !.pc = "answered", !.on = None, !.maxStale = 0,
                                !.ctxDone = FALSE, !.result = r]
                 ELSE [IdleReq EXCEPT !.pc = "answered", !.result = r]]
    /\ served' = IF r.state \in {"fresh", "stale"} /\ r.version > served[req[c].key]
                 THEN [served EXCEPT ![req[c].key] = r.version]
                 ELSE served

(* A closed call is garbage once the last request that waited on it returns. *)
DropReference(c, calls) ==
    LET p == req[c].on
    IN  IF calls[p].phase = "closed" /\ Referrers(p) = {c}
        THEN [calls EXCEPT ![p] = FreeCall]
        ELSE calls

-----------------------------------------------------------------------------
(* Requests *)

(* GetOrLoad is entered and reads the clock, before it takes the lock. *)
Begin(c, k, m) ==
    /\ req[c].pc \in {"idle", "answered"}
    /\ req' = [req EXCEPT ![c] = [IdleReq EXCEPT !.pc = "lookup", !.key = k,
                                    !.start = now, !.maxStale = m, !.floor = served[k]]]
    /\ UNCHANGED <<now, upstream, entries, inFlight, call, served>>

(* The request's context ends: the browser went away, or its deadline passed. *)
CancelCtx(c) ==
    /\ req[c].pc \in {"lookup", "wait"}
    /\ ~req[c].ctxDone
    /\ req' = [req EXCEPT ![c].ctxDone = TRUE]
    /\ UNCHANGED <<now, upstream, entries, inFlight, call, served>>

(* now.Sub(storedAt) < ttl, with the clock as the request read it. *)
FreshFor(c) ==
    LET e == entries[req[c].key]
    IN  e /= None /\ req[c].start - e.storedAt < TTL

Hit(c) ==
    /\ req[c].pc = "lookup"
    /\ FreshFor(c)
    /\ LET e == entries[req[c].key]
       IN  AnswerWith(c, [state |-> "fresh", version |-> e.version, storedAt |-> e.storedAt])
    /\ UNCHANGED <<now, upstream, entries, inFlight, call>>

(* Mutant: a request that joins is not counted. *)
JoinUncounted(c) ==
    LET p == inFlight[req[c].key]
    IN  /\ req[c].pc = "lookup"
        /\ ~FreshFor(c)
        /\ p /= None
        /\ req' = [req EXCEPT ![c] = [@ EXCEPT !.pc = "wait", !.on = p]]
        /\ UNCHANGED <<now, upstream, entries, inFlight, call, served>>

(* Mutant: a load to join is looked for before the entry is looked at. *)
JoinFirst(c) ==
    LET p == inFlight[req[c].key]
    IN  /\ req[c].pc = "lookup"
        /\ p /= None
        /\ call' = [call EXCEPT ![p].waiters = @ + 1]
        /\ req' = [req EXCEPT ![c] = [@ EXCEPT !.pc = "wait", !.on = p]]
        /\ UNCHANGED <<now, upstream, entries, inFlight, served>>

Join(c) ==
    LET p == inFlight[req[c].key]
    IN  /\ req[c].pc = "lookup"
        /\ ~FreshFor(c)
        /\ p /= None
        /\ call' = [call EXCEPT ![p].waiters = @ + 1]
        /\ req' = [req EXCEPT ![c] = [@ EXCEPT !.pc = "wait", !.on = p]]
        /\ UNCHANGED <<now, upstream, entries, inFlight, served>>

(* Mutant: a load starts whether or not one is in flight. *)
StartAnother(c, p) ==
    LET k == req[c].key
    IN  /\ req[c].pc = "lookup"
        /\ ~FreshFor(c)
        /\ call[p].phase = "free"
        /\ call' = [call EXCEPT ![p] = [FreeCall EXCEPT !.phase = "loading", !.key = k,
                                                        !.waiters = 1]]
        /\ inFlight' = [inFlight EXCEPT ![k] = p]
        /\ req' = [req EXCEPT ![c] = [@ EXCEPT !.pc = "wait", !.on = p]]
        /\ UNCHANGED <<now, upstream, entries, served>>

(* Mutant: the request that starts the load does not count as a waiter. *)
StartUncounted(c, p) ==
    LET k == req[c].key
    IN  /\ req[c].pc = "lookup"
        /\ ~FreshFor(c)
        /\ inFlight[k] = None
        /\ call[p].phase = "free"
        /\ call' = [call EXCEPT ![p] = [FreeCall EXCEPT !.phase = "loading", !.key = k]]
        /\ inFlight' = [inFlight EXCEPT ![k] = p]
        /\ req' = [req EXCEPT ![c] = [@ EXCEPT !.pc = "wait", !.on = p]]
        /\ UNCHANGED <<now, upstream, entries, served>>

StartLoad(c, p) ==
    LET k == req[c].key
    IN  /\ req[c].pc = "lookup"
        /\ ~FreshFor(c)
        /\ inFlight[k] = None
        /\ call[p].phase = "free"
        /\ call' = [call EXCEPT ![p] = [FreeCall EXCEPT !.phase = "loading", !.key = k,
                                                        !.waiters = 1]]
        /\ inFlight' = [inFlight EXCEPT ![k] = p]
        /\ req' = [req EXCEPT ![c] = [@ EXCEPT !.pc = "wait", !.on = p]]
        /\ UNCHANGED <<now, upstream, entries, served>>

(* Mutant: every failed load is reported as the end of the request's own context. *)
OutcomeAsCtx(c) ==
    LET p == call[req[c].on]
    IN  IF p.err = "none"
        THEN [state |-> "fresh", version |-> p.version, storedAt |-> p.loadedAt]
        ELSE Failure("ctx")

(* What a waiter makes of a finished load: its value, the entry it kept as *)
(* stale when that is young enough for this request, or its error.         *)
Outcome(c) ==
    LET p == call[req[c].on]
    IN  IF p.err = "none"
        THEN [state |-> "fresh", version |-> p.version, storedAt |-> p.loadedAt]
        ELSE IF p.stale /= None /\ p.loadedAt - p.stale.storedAt <= req[c].maxStale
        THEN [state |-> "stale", version |-> p.stale.version, storedAt |-> p.stale.storedAt]
        ELSE Failure(p.err)

(* The select of wait takes <-pending.done. *)
WaitDone(c) ==
    /\ req[c].pc = "wait"
    /\ call[req[c].on].phase = "closed"
    /\ AnswerWith(c, Outcome(c))
    /\ call' = DropReference(c, call)
    /\ UNCHANGED <<now, upstream, entries, inFlight>>

(* Mutant: wait does not watch the request's context. *)
WaitOnly(c) == FALSE /\ UNCHANGED vars

(* The select takes <-ctx.Done(); when both are ready it may take either. *)
WaitCtx(c) ==
    /\ req[c].pc = "wait"
    /\ req[c].ctxDone
    /\ req' = [req EXCEPT ![c].pc = "leave"]
    /\ UNCHANGED <<now, upstream, entries, inFlight, call, served>>

(* Mutant: whoever leaves cancels the load. *)
LeaveCancels(c) ==
    LET p    == req[c].on
        k    == req[c].key
        mine == inFlight[k] = p
    IN  /\ req[c].pc = "leave"
        /\ call' = IF mine
                   THEN [call EXCEPT ![p] = [@ EXCEPT !.waiters = @ - 1, !.canceled = TRUE]]
                   ELSE DropReference(c, call)
        /\ AnswerWith(c, Failure("ctx"))
        /\ UNCHANGED <<now, upstream, entries, inFlight>>

(* Mutant: the last waiter removes whatever load is in flight for its key. *)
LeaveAny(c) ==
    LET p    == req[c].on
        k    == req[c].key
        last == call[p].waiters = 1
        left == [call EXCEPT ![p].waiters = @ - 1]
    IN  /\ req[c].pc = "leave"
        /\ call' = IF last /\ inFlight[k] = p
                   THEN [left EXCEPT ![p] = [@ EXCEPT !.abandoned = TRUE,
                                                      !.canceled = TRUE]]
                   ELSE DropReference(c, left)
        /\ inFlight' = IF last THEN [inFlight EXCEPT ![k] = None] ELSE inFlight
        /\ AnswerWith(c, Failure("ctx"))
        /\ UNCHANGED <<now, upstream, entries>>

(* The critical section after ctx.Done(). By now the load may have finished, *)
(* and another load may be in flight for the key.                            *)
Leave(c) ==
    LET p    == req[c].on
        k    == req[c].key
        mine == inFlight[k] = p
        last == mine /\ call[p].waiters = 1
        left == IF mine THEN [call EXCEPT ![p].waiters = @ - 1] ELSE call
    IN  /\ req[c].pc = "leave"
        /\ call' = IF last
                   THEN [left EXCEPT ![p] = [@ EXCEPT !.abandoned = TRUE,
                                                      !.canceled = TRUE]]
                   ELSE DropReference(c, left)
        /\ inFlight' = IF last THEN [inFlight EXCEPT ![k] = None] ELSE inFlight
        /\ AnswerWith(c, Failure("ctx"))
        /\ UNCHANGED <<now, upstream, entries>>

-----------------------------------------------------------------------------
(* Loads *)

(* The upstream answers the loader with the version it has at this moment. *)
FetchOK(p) ==
    /\ call[p].phase = "loading"
    /\ call' = [call EXCEPT ![p] = [@ EXCEPT !.phase = "fetched",
                                             !.version = upstream[call[p].key]]]
    /\ UNCHANGED <<now, upstream, entries, inFlight, req, served>>

(* The loader fails: the upstream is down, or the provider's timeout passed. *)
FetchFail(p) ==
    /\ call[p].phase = "loading"
    /\ call' = [call EXCEPT ![p] = [@ EXCEPT !.phase = "fetched", !.err = "upstream"]]
    /\ UNCHANGED <<now, upstream, entries, inFlight, req, served>>

(* The loader notices that its context was canceled. *)
FetchCanceled(p) ==
    /\ call[p].phase = "loading"
    /\ call[p].canceled
    /\ call' = [call EXCEPT ![p] = [@ EXCEPT !.phase = "fetched", !.err = "canceled"]]
    /\ UNCHANGED <<now, upstream, entries, inFlight, req, served>>

(* load reads the clock after the loader has returned and before it locks. *)
Stamp(p) ==
    /\ call[p].phase = "fetched"
    /\ call' = [call EXCEPT ![p] = [@ EXCEPT !.phase = "stamped", !.loadedAt = now]]
    /\ UNCHANGED <<now, upstream, entries, inFlight, req, served>>

(* Mutant: no load is ever too late. *)
NeverSuperseded(p) == FALSE

(* Mutant: only asks whether some load of the key is in flight. *)
NoneInFlight(p) == inFlight[call[p].key] = None

(* The load was abandoned, or its place in inFlight is not its own any more. *)
Superseded(p) == call[p].abandoned \/ inFlight[call[p].key] /= p

(* Mutant: a failed load drops the entry it should keep for a stale answer. *)
CommitDropsEntry(p) ==
    LET k == call[p].key
    IN  /\ call[p].phase = "stamped"
        /\ IF Superseded(p)
           THEN /\ call' = [call EXCEPT ![p] = IF Referrers(p) = {} THEN FreeCall
                                               ELSE [@ EXCEPT !.phase = "closed"]]
                /\ UNCHANGED <<entries, inFlight>>
           ELSE /\ entries' = [entries EXCEPT ![k] =
                                 IF call[p].err = "none"
                                 THEN [version  |-> call[p].version,
                                       storedAt |-> call[p].loadedAt]
                                 ELSE None]
                /\ call' = [call EXCEPT ![p].phase = "closed"]
                /\ inFlight' = [inFlight EXCEPT ![k] = None]
        /\ UNCHANGED <<now, upstream, req, served>>

(* Mutant: done is not closed when the load failed. *)
CommitNoClose(p) ==
    LET k == call[p].key
    IN  /\ call[p].phase = "stamped"
        /\ ~Superseded(p)
        /\ entries' = IF call[p].err = "none"
                      THEN [entries EXCEPT ![k] = [version  |-> call[p].version,
                                                   storedAt |-> call[p].loadedAt]]
                      ELSE entries
        /\ call' = [call EXCEPT ![p] = IF call[p].err = "none"
                                       THEN [@ EXCEPT !.phase = "closed"] ELSE FreeCall]
        /\ inFlight' = [inFlight EXCEPT ![k] = None]
        /\ UNCHANGED <<now, upstream, req, served>>

(* The critical section of load. An abandoned or replaced load changes nothing; *)
(* nobody is left to wait for it.                                               *)
Commit(p) ==
    LET k == call[p].key
    IN  /\ call[p].phase = "stamped"
        /\ IF Superseded(p)
           THEN /\ call' = [call EXCEPT ![p] = IF Referrers(p) = {} THEN FreeCall
                                               ELSE [@ EXCEPT !.phase = "closed"]]
                /\ UNCHANGED <<entries, inFlight>>
           ELSE /\ entries' = IF call[p].err = "none"
                              THEN [entries EXCEPT ![k] = [version  |-> call[p].version,
                                                           storedAt |-> call[p].loadedAt]]
                              ELSE entries
                /\ call' = [call EXCEPT ![p] =
                              [@ EXCEPT !.phase = "closed",
                                        !.stale = IF call[p].err = "none" THEN None
                                                  ELSE entries[k]]]
                /\ inFlight' = [inFlight EXCEPT ![k] = None]
        /\ UNCHANGED <<now, upstream, req, served>>

-----------------------------------------------------------------------------
(* The environment *)

Tick ==
    /\ now < MaxTime
    /\ now' = now + 1
    /\ UNCHANGED <<upstream, entries, inFlight, call, req, served>>

UpstreamAdvance(k) ==
    /\ upstream[k] < MaxVersion
    /\ upstream' = [upstream EXCEPT ![k] = @ + 1]
    /\ UNCHANGED <<now, entries, inFlight, call, req, served>>

Lookup(c) == Hit(c) \/ Join(c) \/ \E p \in Calls : StartLoad(c, p)

Fetch(p) == FetchOK(p) \/ FetchFail(p) \/ FetchCanceled(p)

CallerStep(c) ==
    \/ \E k \in Keys, m \in MaxStales : Begin(c, k, m)
    \/ CancelCtx(c)
    \/ Lookup(c)
    \/ WaitDone(c)
    \/ WaitCtx(c)
    \/ Leave(c)

LoadStep(p) == Fetch(p) \/ Stamp(p) \/ Commit(p)

Next ==
    \/ \E c \in Callers : CallerStep(c)
    \/ \E p \in Calls : LoadStep(p)
    \/ Tick
    \/ \E k \in Keys : UpstreamAdvance(k)

Spec == Init /\ [][Next]_vars

(***************************************************************************)
(* Fairness.  A goroutine that can run does.  Lookup needs the lock and,   *)
(* in the model only, a free element of Calls; both come and go, hence     *)
(* strong fairness (sync.Mutex hands the lock to a goroutine that has      *)
(* waited for a millisecond).                                              *)
(***************************************************************************)
CallerFairness ==
    \A c \in Callers : /\ SF_vars(Lookup(c))
                       /\ WF_vars(WaitDone(c) \/ WaitCtx(c))
                       /\ WF_vars(Leave(c))

(* Every provider call is bounded by the upstream timeout (cmd/infraview/main.go), *)
(* so the loader returns.                                                          *)
LoadFairness ==
    \A p \in Calls : WF_vars(Fetch(p)) /\ WF_vars(Stamp(p)) /\ WF_vars(Commit(p))

FairSpec == Spec /\ CallerFairness

-----------------------------------------------------------------------------
(* Properties *)

(* Every variable keeps its type. *)
TypeOK ==
    /\ now \in Nat
    /\ upstream \in [Keys -> Nat]
    /\ entries \in [Keys -> Entry \cup {None}]
    /\ inFlight \in [Keys -> Calls \cup {None}]
    /\ call \in [Calls -> Call]
    /\ req \in [Callers -> Req]
    /\ served \in [Keys -> Nat]

(***************************************************************************)
(* waiters is the number of requests that wait on the load in flight, those *)
(* on their way out of wait included, and is never 0: a load goes on only   *)
(* while somebody wants its result, and the last one to leave is the one    *)
(* who stops it.                                                            *)
(***************************************************************************)
WaitersCounted ==
    \A k \in Keys : inFlight[k] /= None =>
        /\ call[inFlight[k]].waiters = Cardinality(Referrers(inFlight[k]))
        /\ call[inFlight[k]].waiters > 0

(***************************************************************************)
(* At most one load per key is not abandoned, and it is the one in flight:  *)
(* requests that overlap never send the upstream the same query twice,      *)
(* unless the first was canceled.                                           *)
(***************************************************************************)
SingleFlight ==
    \A p \in Calls : call[p].phase \in Active =>
        call[p].abandoned \/ inFlight[call[p].key] = p

(***************************************************************************)
(* The cancellation of a shared load's context is seen by nobody: a load is *)
(* canceled only when every request that joined it has left, so no request  *)
(* returns another one's "context canceled".                                *)
(***************************************************************************)
NoCancelLeak ==
    /\ \A p \in Calls : call[p].canceled => Referrers(p) = {}
    /\ \A c \in Callers : req[c].result.state /= "canceled"

(***************************************************************************)
(* The strengthening of SingleFlight, WaitersCounted and NoCancelLeak that  *)
(* every step preserves; its parts say how requests, calls and the inFlight *)
(* map refer to one another.                                                *)
(***************************************************************************)
RequestsPlaced ==
    \A c \in Callers :
        /\ req[c].pc \in {"lookup", "wait", "leave"} => req[c].key \in Keys
        /\ IF req[c].pc \in {"wait", "leave"}
           THEN /\ req[c].on \in Calls
                /\ call[req[c].on].phase /= "free"
                /\ call[req[c].on].key = req[c].key
           ELSE req[c].on = None

LoadsPlaced ==
    \A p \in Calls :
        /\ call[p].phase /= "free" => call[p].key \in Keys
        /\ call[p].phase \in Active => call[p].abandoned \/ inFlight[call[p].key] = p

InFlightActive ==
    \A k \in Keys : inFlight[k] /= None =>
        /\ call[inFlight[k]].phase \in Active
        /\ call[inFlight[k]].key = k
        /\ ~call[inFlight[k]].abandoned

CancelMeansAbandoned ==
    \A p \in Calls :
        /\ call[p].canceled <=> call[p].abandoned
        /\ call[p].abandoned => call[p].phase \in Active /\ Referrers(p) = {}
        /\ call[p].err = "canceled" => call[p].canceled

NoCanceledAnswer == \A c \in Callers : req[c].result.state /= "canceled"

SharingInv ==
    /\ TypeOK
    /\ RequestsPlaced
    /\ LoadsPlaced
    /\ InFlightActive
    /\ WaitersCounted
    /\ CancelMeansAbandoned
    /\ NoCanceledAnswer

(***************************************************************************)
(* A request that began after some request had returned a value of the key *)
(* never gets an older one: not from the entry, not from the load it joins, *)
(* and not from a stale copy.                                               *)
(***************************************************************************)
MonotonicReads ==
    \A c \in Callers : req[c].result.state \in {"fresh", "stale"} =>
        req[c].result.version >= req[c].floor

(***************************************************************************)
(* A value marked stale really had outlived its ttl when the request that   *)
(* got it began; the mark is never put on data GetOrLoad would have called  *)
(* fresh.                                                                   *)
(***************************************************************************)
StaleMeansExpired ==
    \A c \in Callers : req[c].result.state = "stale" =>
        req[c].start - req[c].result.storedAt >= TTL

(***************************************************************************)
(* What is cached for a key only moves forward, in version and in time: a  *)
(* slow load that was abandoned never overwrites the value of the load that *)
(* replaced it.                                                             *)
(***************************************************************************)
EntryForward(k) ==
    entries[k] /= None => /\ entries'[k] /= None
                          /\ entries'[k].version >= entries[k].version
                          /\ entries'[k].storedAt >= entries[k].storedAt

EntriesMonotone == [][\A k \in Keys : EntryForward(k)]_vars

(* Every request returns, whatever the other callers do, when loaders return. *)
EveryRequestReturns ==
    LoadFairness =>
        \A c \in Callers : req[c].pc \in {"lookup", "wait", "leave"} ~> req[c].pc = "answered"

(***************************************************************************)
(* A request whose context ends while it waits returns even when the loader *)
(* never does.                                                              *)
(***************************************************************************)
CanceledRequestReturns ==
    \A c \in Callers :
        req[c].pc = "wait" /\ req[c].ctxDone ~> req[c].pc = "answered"

=============================================================================
