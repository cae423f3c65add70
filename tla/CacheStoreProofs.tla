--------------------------- MODULE CacheStoreProofs ---------------------------
(***************************************************************************)
(* Theorems about CacheStore, for every set of keys, callers and calls and  *)
(* every bound.                                                             *)
(*                                                                         *)
(* First, how requests, loads and the in-flight map refer to one another    *)
(* (SharingInv), and what that says of sharing and cancelling loads.        *)
(*                                                                         *)
(* Then, what the requests are answered with: values only move forward, and *)
(* what is marked as stale has expired.  The argument is that a load in     *)
(* flight, from the upstream's answer on, is at least as new as the entry   *)
(* it will replace, as no other load may replace it; and that a request     *)
(* waits only for a load that began when the entry had expired for it, and  *)
(* is there until that load ends.                                           *)
(*                                                                         *)
(* From the same invariants follow the two refinements: CacheStore          *)
(* implements LoadSlot, what the services assume of its loads, and          *)
(* CacheContract, what it promises its callers.                             *)
(***************************************************************************)
EXTENDS CacheStoreRefines, FiniteSetTheorems, TLAPS

USE DEF Active

-----------------------------------------------------------------------------
(* Types *)

(* The values the actions build are of their types. *)
LEMMA ConstantTypes ==
    /\ FreeCall \in Call
    /\ IdleReq \in Req
    /\ NoResult \in Result
    /\ \A s \in {"upstream", "canceled", "ctx"} : Failure(s) \in Result
BY DEF FreeCall, Call, IdleReq, Req, NoResult, Result, Failure

(* Answering a request keeps the types of req and served. *)
LEMMA AnswerTypes ==
    ASSUME TypeOK, NEW c \in Callers, NEW r \in Result, req[c].key \in Keys,
           AnswerWith(c, r)
    PROVE  req' \in [Callers -> Req] /\ served' \in [Keys -> Nat]
<1>1. req[c] \in Req
  BY DEF TypeOK
<1>2. [IdleReq EXCEPT !.pc = "answered", !.result = r] \in Req
  BY DEF IdleReq, Req, NoResult, Result
<1>3. [req[c] EXCEPT !.pc = "answered", !.on = None, !.maxStale = 0,
                     !.ctxDone = FALSE, !.result = r] \in Req
  BY <1>1 DEF Req
<1>4. req' \in [Callers -> Req]
  BY <1>2, <1>3 DEF AnswerWith, TypeOK
<1>5. r.version \in Nat
  BY DEF Result
<1>6. served' \in [Keys -> Nat]
  BY <1>5 DEF AnswerWith, TypeOK
<1> QED BY <1>4, <1>6

(* Dropping a reference keeps the type of call. *)
LEMMA DropTypes ==
    ASSUME NEW calls \in [Calls -> Call], NEW c \in Callers, req[c].on \in Calls
    PROVE  DropReference(c, calls) \in [Calls -> Call]
BY ConstantTypes DEF DropReference

(* The outcome of a finished load is a result. *)
LEMMA OutcomeType ==
    ASSUME TypeOK, NEW c \in Callers, req[c].on \in Calls
    PROVE  Outcome(c) \in Result
<1> DEFINE p == call[req[c].on]
<1>1. p \in Call
  BY DEF TypeOK
<1>2. p.stale /= None => p.stale \in Entry
  BY <1>1 DEF Call
<1> QED BY <1>1, <1>2, ConstantTypes DEF Outcome, Call, Entry, Result, Failure, NoResult

(* Every step keeps the types. *)
LEMMA TypeStep ==
    ASSUME SharingInv, [Next]_vars
    PROVE  TypeOK'
<1> USE ConstantsAssumption
<1>1. TypeOK /\ RequestsPlaced /\ LoadsPlaced
  BY DEF SharingInv
<1>0. /\ \A c \in Callers : req[c] \in Req
      /\ \A p \in Calls : call[p] \in Call
  BY <1>1 DEF TypeOK
<1>2. ASSUME NEW c \in Callers, NEW k \in Keys, NEW m \in MaxStales, Begin(c, k, m)
      PROVE  TypeOK'
  <2>1. [IdleReq EXCEPT !.pc = "lookup", !.key = k, !.start = now, !.maxStale = m,
                        !.floor = served[k]] \in Req
    BY <1>1 DEF IdleReq, Req, NoResult, Result, TypeOK
  <2> QED BY <1>1, <1>2, <2>1 DEF Begin, TypeOK
<1>3. ASSUME NEW c \in Callers, CancelCtx(c)
      PROVE  TypeOK'
  <2>1. [req[c] EXCEPT !.ctxDone = TRUE] \in Req
    BY <1>0 DEF Req
  <2>2. req' = [req EXCEPT ![c] = [req[c] EXCEPT !.ctxDone = TRUE]]
    BY <1>3 DEF CancelCtx
  <2> QED BY <1>1, <1>3, <2>1, <2>2 DEF CancelCtx, TypeOK
<1>4. ASSUME NEW c \in Callers, Hit(c)
      PROVE  TypeOK'
  <2> DEFINE e == entries[req[c].key]
  <2>1. req[c].key \in Keys /\ e \in Entry
    BY <1>1, <1>4 DEF Hit, FreshFor, RequestsPlaced, TypeOK
  <2>2. [state |-> "fresh", version |-> e.version, storedAt |-> e.storedAt] \in Result
    BY <2>1 DEF Entry, Result
  <2>3. req' \in [Callers -> Req] /\ served' \in [Keys -> Nat]
    BY <1>1, <1>4, <2>1, <2>2, AnswerTypes DEF Hit
  <2> QED BY <1>1, <1>4, <2>3 DEF Hit, TypeOK
<1>5. ASSUME NEW c \in Callers, Join(c)
      PROVE  TypeOK'
  <2> DEFINE p == inFlight[req[c].key]
  <2>1. p \in Calls
    BY <1>1, <1>5 DEF Join, RequestsPlaced, TypeOK
  <2>2. call' \in [Calls -> Call]
    BY <1>1, <1>5, <2>1 DEF Join, TypeOK, Call
  <2>3. req' \in [Callers -> Req]
    <3>1. [req[c] EXCEPT !.pc = "wait", !.on = p] \in Req
      BY <1>0, <2>1 DEF Req
    <3> QED BY <1>1, <1>5, <3>1 DEF Join, TypeOK
  <2> QED BY <1>1, <1>5, <2>2, <2>3 DEF Join, TypeOK
<1>6. ASSUME NEW c \in Callers, NEW p \in Calls, StartLoad(c, p)
      PROVE  TypeOK'
  <2>1. req[c].key \in Keys
    BY <1>1, <1>6 DEF StartLoad, RequestsPlaced
  <2>2. call' \in [Calls -> Call]
    <3> DEFINE fresh == [FreeCall EXCEPT !.phase = "loading", !.key = req[c].key]
    <3>1. [fresh EXCEPT !.waiters = 1] \in Call
      <4>1. \A q \in Call, k \in Keys : [q EXCEPT !.phase = "loading", !.key = k] \in Call
        BY DEF Call
      <4>2. fresh \in Call
        BY <2>1, <4>1, ConstantTypes
      <4> HIDE DEF fresh
      <4> QED BY <4>2 DEF Call
    <3> QED BY <1>1, <1>6, <2>1, <3>1 DEF StartLoad, TypeOK
  <2>3. req' \in [Callers -> Req]
    <3>1. [req[c] EXCEPT !.pc = "wait", !.on = p] \in Req
      BY <1>0 DEF Req
    <3> QED BY <1>1, <1>6, <3>1 DEF StartLoad, TypeOK
  <2> QED BY <1>1, <1>6, <2>1, <2>2, <2>3 DEF StartLoad, TypeOK
<1>7. ASSUME NEW c \in Callers, WaitDone(c)
      PROVE  TypeOK'
  <2>1. req[c].key \in Keys /\ req[c].on \in Calls
    BY <1>1, <1>7 DEF WaitDone, RequestsPlaced
  <2>2. Outcome(c) \in Result
    BY <1>1, <2>1, OutcomeType
  <2>3. req' \in [Callers -> Req] /\ served' \in [Keys -> Nat]
    BY <1>1, <1>7, <2>1, <2>2, AnswerTypes DEF WaitDone
  <2>4. call' \in [Calls -> Call]
    BY <1>1, <1>7, <2>1, DropTypes DEF WaitDone, TypeOK
  <2> QED BY <1>1, <1>7, <2>3, <2>4 DEF WaitDone, TypeOK
<1>8. ASSUME NEW c \in Callers, WaitCtx(c)
      PROVE  TypeOK'
  <2>1. [req[c] EXCEPT !.pc = "leave"] \in Req
    BY <1>0 DEF Req
  <2>2. req' = [req EXCEPT ![c] = [req[c] EXCEPT !.pc = "leave"]]
    BY <1>8 DEF WaitCtx
  <2> QED BY <1>1, <1>8, <2>1, <2>2 DEF WaitCtx, TypeOK
<1>9. ASSUME NEW c \in Callers, Leave(c)
      PROVE  TypeOK'
  <2> DEFINE p == req[c].on
             k == req[c].key
             mine == inFlight[k] = p
             left == IF mine THEN [call EXCEPT ![p].waiters = @ - 1] ELSE call
             gone == [left EXCEPT ![p] = [@ EXCEPT !.abandoned = TRUE, !.canceled = TRUE]]
  <2>1. k \in Keys /\ p \in Calls
    BY <1>1, <1>9 DEF Leave, RequestsPlaced
  <2>2. left \in [Calls -> Call]
    <3>1. CASE ~mine
      BY <1>1, <3>1 DEF TypeOK
    <3>2. CASE mine
      <4>1. call[p].waiters \in Nat /\ call[p].waiters > 0
        BY <1>0, <2>1, <3>2 DEF SharingInv, WaitersCounted, Call
      <4>2. call[p].waiters - 1 \in Nat
        BY <4>1
      <4>3. \A q \in Call, n \in Nat : [q EXCEPT !.waiters = n] \in Call
        BY DEF Call
      <4> QED BY <1>0, <1>1, <2>1, <3>2, <4>2, <4>3 DEF TypeOK
    <3> QED BY <3>1, <3>2
  <2>3. gone \in [Calls -> Call]
    <3> HIDE DEF left
    <3>1. [left[p] EXCEPT !.abandoned = TRUE, !.canceled = TRUE] \in Call
      <4>1. left[p] \in Call
        BY <2>1, <2>2
      <4> HIDE DEF p
      <4> QED BY <4>1 DEF Call
    <3> QED BY <2>1, <2>2, <3>1
  <2>4. DropReference(c, left) \in [Calls -> Call]
    BY <2>1, <2>2, DropTypes
  <2>5. call' \in [Calls -> Call]
    <3>1. call' = gone \/ call' = DropReference(c, left)
      BY <1>9 DEF Leave
    <3> QED BY <3>1, <2>3, <2>4
  <2>6. Failure("ctx") \in Result /\ AnswerWith(c, Failure("ctx"))
    BY <1>9, ConstantTypes DEF Leave
  <2>7. req' \in [Callers -> Req] /\ served' \in [Keys -> Nat]
    BY <1>1, <2>1, <2>6, AnswerTypes
  <2>8. inFlight' \in [Keys -> Calls \cup {None}]
    BY <1>1, <1>9 DEF Leave, TypeOK
  <2>9. UNCHANGED <<now, upstream, entries>>
    BY <1>9 DEF Leave
  <2> QED BY <1>1, <2>5, <2>7, <2>8, <2>9 DEF TypeOK
<1>10. ASSUME NEW p \in Calls, FetchOK(p)
       PROVE  TypeOK'
  <2>1. upstream[call[p].key] \in Nat
    BY <1>1, <1>10 DEF FetchOK, LoadsPlaced, TypeOK
  <2>2. [call[p] EXCEPT !.phase = "fetched", !.version = upstream[call[p].key]] \in Call
    BY <1>0, <2>1 DEF Call
  <2> QED BY <1>1, <1>10, <2>2 DEF FetchOK, TypeOK
<1>11. ASSUME NEW p \in Calls, FetchFail(p) \/ FetchCanceled(p) \/ Stamp(p)
       PROVE  TypeOK'
  <2>1. /\ [call[p] EXCEPT !.phase = "fetched", !.err = "upstream"] \in Call
        /\ [call[p] EXCEPT !.phase = "fetched", !.err = "canceled"] \in Call
        /\ now \in Nat => [call[p] EXCEPT !.phase = "stamped", !.loadedAt = now] \in Call
    BY <1>0 DEF Call
  <2> QED BY <1>1, <1>11, <2>1 DEF FetchFail, FetchCanceled, Stamp, TypeOK
<1>12. ASSUME NEW p \in Calls, Commit(p)
       PROVE  TypeOK'
  <2> DEFINE k == call[p].key
  <2>1. k \in Keys /\ call[p] \in Call /\ entries[k] \in Entry \cup {None}
    BY <1>1, <1>12 DEF Commit, LoadsPlaced, TypeOK
  <2>2. [version |-> call[p].version, storedAt |-> call[p].loadedAt] \in Entry
    BY <2>1 DEF Entry, Call
  <2>3. entries' \in [Keys -> Entry \cup {None}]
    BY <1>1, <1>12, <2>1, <2>2 DEF Commit, TypeOK
  <2>4. call' \in [Calls -> Call]
    <3> DEFINE kept == IF call[p].err = "none" THEN None ELSE entries[k]
    <3>1. kept \in Entry \cup {None}
      BY <2>1
    <3>2. /\ [call[p] EXCEPT !.phase = "closed"] \in Call
          /\ [call[p] EXCEPT !.phase = "closed", !.stale = kept] \in Call
      <4> HIDE DEF kept
      <4> QED BY <2>1, <3>1 DEF Call
    <3> QED BY <1>1, <1>12, <3>2, ConstantTypes DEF Commit, TypeOK
  <2>5. inFlight' \in [Keys -> Calls \cup {None}]
    BY <1>1, <1>12 DEF Commit, TypeOK
  <2> QED BY <1>1, <1>12, <2>3, <2>4, <2>5 DEF Commit, TypeOK
<1>13. ASSUME Tick
       PROVE  TypeOK'
  BY <1>1, <1>13 DEF Tick, TypeOK
<1>14. ASSUME NEW k \in Keys, UpstreamAdvance(k)
       PROVE  TypeOK'
  BY <1>1, <1>14 DEF UpstreamAdvance, TypeOK
<1>15. CASE UNCHANGED vars
  BY <1>1, <1>15 DEF vars, TypeOK
<1> QED
  BY <1>2, <1>3, <1>4, <1>5, <1>6, <1>7, <1>8, <1>9, <1>10, <1>11, <1>12, <1>13,
     <1>14, <1>15
     DEF Next, CallerStep, LoadStep, Lookup, Fetch
-----------------------------------------------------------------------------
(* How requests, calls and inFlight refer to one another *)

(* The requests that refer to a call, after one request has been replaced. *)
LEMMA ReferrersMove ==
    ASSUME req \in [Callers -> Req], NEW c \in Callers, NEW r,
           req' = [req EXCEPT ![c] = r], NEW p \in Calls
    PROVE  Referrers(p)' = (Referrers(p) \ {c}) \cup (IF r.on = p THEN {c} ELSE {})
BY DEF Referrers

(* There are finitely many of them. *)
LEMMA ReferrersFinite == \A p \in Calls : IsFiniteSet(Referrers(p))
<1>1. \A p \in Calls : Referrers(p) \in SUBSET Callers
  BY DEF Referrers
<1> QED BY <1>1, FS_Subset, ConstantsAssumption

(* What AnswerWith does to req. *)
LEMMA AnswerEffect ==
    ASSUME req \in [Callers -> Req], NEW c \in Callers, NEW r, AnswerWith(c, r)
    PROVE  \E q : /\ req' = [req EXCEPT ![c] = q]
                  /\ q.pc = "answered" /\ q.on = None /\ q.result = r
<1>1. req[c] \in Req
  OBVIOUS
<1> DEFINE q == IF r.state \in {"fresh", "stale"}
                THEN [req[c] EXCEPT !.pc = "answered", !.on = None, !.maxStale = 0,
                                    !.ctxDone = FALSE, !.result = r]
                ELSE [IdleReq EXCEPT !.pc = "answered", !.result = r]
<1>2. req' = [req EXCEPT ![c] = q]
  BY DEF AnswerWith
<1>3. q.pc = "answered" /\ q.on = None /\ q.result = r
  BY <1>1 DEF Req, IdleReq
<1> QED BY <1>2, <1>3

(***************************************************************************)
(* A step that changes one request, not what it refers to, keeps SharingInv *)
(* as long as the request is placed right.                                  *)
(***************************************************************************)
LEMMA RequestMoves ==
    ASSUME SharingInv, TypeOK', NEW c \in Callers, NEW r,
           req' = [req EXCEPT ![c] = r], UNCHANGED <<call, inFlight>>,
           r.on = req[c].on, r.result.state /= "canceled",
           r.pc \in {"wait", "leave"} => req[c].pc \in {"wait", "leave"},
           r.pc \in {"wait", "leave"} => r.key = req[c].key,
           r.pc \notin {"wait", "leave"} => r.on = None,
           r.pc = "lookup" => r.key \in Keys
    PROVE  SharingInv'
<1> USE DEF SharingInv
<1>0. req \in [Callers -> Req]
  BY DEF TypeOK
<1>1. \A p \in Calls : Referrers(p)' = Referrers(p)
  BY <1>0 DEF Referrers
<1>2. RequestsPlaced'
  <2>1. ASSUME NEW d \in Callers, d /= c
        PROVE  req'[d] = req[d]
    BY <2>1, <1>0
  <2>2. req'[c] = r
    BY <1>0
  <2> QED BY <2>1, <2>2 DEF RequestsPlaced
<1>3. LoadsPlaced' /\ InFlightActive'
  BY DEF LoadsPlaced, InFlightActive
<1>4. WaitersCounted'
  BY <1>1 DEF WaitersCounted, TypeOK
<1>5. CancelMeansAbandoned'
  BY <1>1 DEF CancelMeansAbandoned
<1>6. NoCanceledAnswer'
  BY <1>0 DEF NoCanceledAnswer
<1> QED BY <1>2, <1>3, <1>4, <1>5, <1>6

(***************************************************************************)
(* A step of a load before its critical section keeps SharingInv: it        *)
(* touches neither the waiters nor the marks that Leave makes.              *)
(***************************************************************************)
LEMMA LoadMoves ==
    ASSUME SharingInv, TypeOK', NEW p \in Calls, NEW q,
           call' = [call EXCEPT ![p] = q], UNCHANGED <<req, inFlight>>,
           call[p].phase \in Active, q.phase \in Active, q.key = call[p].key,
           q.waiters = call[p].waiters, q.abandoned = call[p].abandoned,
           q.canceled = call[p].canceled, q.err = "canceled" => q.canceled
    PROVE  SharingInv'
<1> USE DEF SharingInv
<1>0. call \in [Calls -> Call] /\ inFlight \in [Keys -> Calls \cup {None}]
  BY DEF TypeOK
<1>1. \A d \in Calls : Referrers(d)' = Referrers(d)
  BY DEF Referrers
<1>2. call'[p] = q /\ \A d \in Calls \ {p} : call'[d] = call[d]
  BY <1>0
<1>3. RequestsPlaced'
  BY <1>2 DEF RequestsPlaced
<1>4. LoadsPlaced'
  BY <1>2 DEF LoadsPlaced
<1>5. InFlightActive'
  BY <1>0, <1>2, ConstantsAssumption DEF InFlightActive
<1>6. WaitersCounted'
  BY <1>0, <1>1, <1>2 DEF WaitersCounted
<1>7. CancelMeansAbandoned'
  BY <1>1, <1>2 DEF CancelMeansAbandoned
<1>8. NoCanceledAnswer'
  BY DEF NoCanceledAnswer
<1> QED BY <1>3, <1>4, <1>5, <1>6, <1>7, <1>8
(* Joining the load in flight adds one waiter and one request that refers to it. *)
LEMMA JoinStep ==
    ASSUME SharingInv, TypeOK', NEW c \in Callers, Join(c)
    PROVE  SharingInv'
<1> USE DEF SharingInv
<1> DEFINE k == req[c].key
<1>1. /\ req \in [Callers -> Req] /\ call \in [Calls -> Call]
      /\ inFlight \in [Keys -> Calls \cup {None}]
      /\ req[c].pc = "lookup" /\ k \in Keys /\ req[c].on = None
  BY DEF Join, TypeOK, RequestsPlaced
<1>2. PICK p \in Calls : p = inFlight[k]
  BY <1>1 DEF Join
<1> DEFINE r == [req[c] EXCEPT !.pc = "wait", !.on = p]
           q == [call[p] EXCEPT !.waiters = @ + 1]
<1>3. req' = [req EXCEPT ![c] = r] /\ call' = [call EXCEPT ![p] = q] /\ UNCHANGED inFlight
  BY <1>2 DEF Join
<1>4. r.pc = "wait" /\ r.on = p /\ r.key = k /\ r.result = req[c].result
  BY <1>1 DEF Req
<1>5. /\ q.phase = call[p].phase /\ q.key = call[p].key /\ q.abandoned = call[p].abandoned
      /\ q.canceled = call[p].canceled /\ q.err = call[p].err
      /\ q.waiters = call[p].waiters + 1
  BY <1>1, <1>2 DEF Call
<1>6. call[p].phase \in Active /\ call[p].key = k /\ ~call[p].abandoned
  BY <1>1, <1>2, ConstantsAssumption DEF InFlightActive
<1> HIDE DEF q, r
<1>7. req'[c] = r /\ \A d \in Callers \ {c} : req'[d] = req[d]
  BY <1>1, <1>3
<1>8. call'[p] = q /\ \A d \in Calls \ {p} : call'[d] = call[d]
  BY <1>1, <1>2, <1>3
<1>9. /\ Referrers(p)' = Referrers(p) \cup {c}
      /\ c \notin Referrers(p)
      /\ \A d \in Calls \ {p} : Referrers(d)' = Referrers(d)
  <2>1. \A d \in Calls : c \notin Referrers(d)
    BY <1>1, ConstantsAssumption DEF Referrers
  <2>2. \A d \in Calls : Referrers(d)' = (Referrers(d) \ {c}) \cup (IF r.on = d THEN {c} ELSE {})
    BY <1>1, <1>3, ReferrersMove
  <2> QED BY <1>2, <1>4, <2>1, <2>2
<1>10. RequestsPlaced'
  <2>1. /\ req'[c].pc = "wait" /\ req'[c].on = p /\ req'[c].key = k
        /\ call'[p].phase /= "free" /\ call'[p].key = k
    BY <1>4, <1>5, <1>6, <1>7, <1>8
  <2>2. \A d \in Calls : call'[d].phase = call[d].phase /\ call'[d].key = call[d].key
    BY <1>5, <1>8
  <2> QED BY <1>1, <1>2, <1>7, <2>1, <2>2 DEF RequestsPlaced
<1>11. LoadsPlaced'
  BY <1>3, <1>5, <1>8 DEF LoadsPlaced
<1>12. InFlightActive'
  BY <1>1, <1>3, <1>5, <1>8 DEF InFlightActive
<1>13. WaitersCounted'
  <2> SUFFICES ASSUME NEW j \in Keys, NEW x \in Calls, inFlight[j] = x
               PROVE  call'[x].waiters = Cardinality(Referrers(x)') /\ call'[x].waiters > 0
    BY <1>1, <1>3 DEF WaitersCounted
  <2>0. x /= None
    BY ConstantsAssumption
  <2>1. CASE x = p
    <3>1. call[p].waiters = Cardinality(Referrers(p)) /\ call[p].waiters > 0
      BY <2>0, <2>1 DEF WaitersCounted
    <3>2. Cardinality(Referrers(p) \cup {c}) = Cardinality(Referrers(p)) + 1
      BY <1>2, <1>9, ReferrersFinite, FS_AddElement
    <3>3. call[p].waiters \in Int
      BY <1>1, <1>2 DEF Call
    <3> QED BY <1>5, <1>8, <1>9, <2>1, <3>1, <3>2, <3>3
  <2>2. CASE x /= p
    BY <1>8, <1>9, <2>0, <2>2 DEF WaitersCounted
  <2> QED BY <2>1, <2>2
<1>14. CancelMeansAbandoned'
  BY <1>5, <1>6, <1>8, <1>9 DEF CancelMeansAbandoned
<1>15. NoCanceledAnswer'
  BY <1>4, <1>7 DEF NoCanceledAnswer
<1> QED BY <1>10, <1>11, <1>12, <1>13, <1>14, <1>15

(* A new load begins with the request that starts it as its only waiter. *)
LEMMA StartStep ==
    ASSUME SharingInv, TypeOK', NEW c \in Callers, NEW p \in Calls, StartLoad(c, p)
    PROVE  SharingInv'
<1> USE DEF SharingInv
<1> DEFINE k == req[c].key
           r == [req[c] EXCEPT !.pc = "wait", !.on = p]
           q == [FreeCall EXCEPT !.phase = "loading", !.key = k, !.waiters = 1]
<1>1. /\ req \in [Callers -> Req] /\ call \in [Calls -> Call]
      /\ inFlight \in [Keys -> Calls \cup {None}]
      /\ req[c].pc = "lookup" /\ k \in Keys /\ req[c].on = None
      /\ inFlight[k] = None /\ call[p].phase = "free"
  BY DEF StartLoad, TypeOK, RequestsPlaced
<1>2. /\ req' = [req EXCEPT ![c] = r] /\ call' = [call EXCEPT ![p] = q]
      /\ inFlight' = [inFlight EXCEPT ![k] = p]
  BY DEF StartLoad
<1>3. r.pc = "wait" /\ r.on = p /\ r.key = k /\ r.result = req[c].result
  BY <1>1 DEF Req
<1>4. /\ q.phase = "loading" /\ q.key = k /\ q.waiters = 1 /\ ~q.abandoned
      /\ ~q.canceled /\ q.err = "none"
  BY DEF FreeCall
<1> HIDE DEF q, r
<1>5. req'[c] = r /\ \A d \in Callers \ {c} : req'[d] = req[d]
  BY <1>1, <1>2
<1>6. call'[p] = q /\ \A d \in Calls \ {p} : call'[d] = call[d]
  BY <1>1, <1>2
<1>7. inFlight'[k] = p /\ \A j \in Keys \ {k} : inFlight'[j] = inFlight[j]
  BY <1>1, <1>2
<1>8. /\ Referrers(p)' = {c}
      /\ \A d \in Calls \ {p} : Referrers(d)' = Referrers(d)
  <2>1. \A d \in Calls : c \notin Referrers(d)
    BY <1>1, ConstantsAssumption DEF Referrers
  <2>2. Referrers(p) = {}
    BY <1>1, ConstantsAssumption DEF Referrers, RequestsPlaced
  <2>3. \A d \in Calls : Referrers(d)' = (Referrers(d) \ {c}) \cup (IF r.on = d THEN {c} ELSE {})
    BY <1>1, <1>2, ReferrersMove
  <2> QED BY <1>3, <2>1, <2>2, <2>3
<1>9. \A j \in Keys : inFlight[j] /= p
  BY <1>1, ConstantsAssumption DEF InFlightActive
<1>10. RequestsPlaced'
  <2>1. \A d \in Callers : req[d].pc \in {"wait", "leave"} => req[d].on /= p
    BY <1>1 DEF RequestsPlaced
  <2> QED BY <1>1, <1>3, <1>4, <1>5, <1>6, <2>1 DEF RequestsPlaced
<1>11. LoadsPlaced'
  BY <1>1, <1>4, <1>6, <1>7, ConstantsAssumption DEF LoadsPlaced
<1>12. InFlightActive'
  BY <1>1, <1>4, <1>6, <1>7, <1>9 DEF InFlightActive
<1>13. WaitersCounted'
  <2>1. Cardinality({c}) = 1
    BY FS_Singleton
  <2>2. ASSUME NEW j \in Keys \ {k}, NEW x \in Calls, inFlight[j] = x
        PROVE  call'[x].waiters = Cardinality(Referrers(x)') /\ call'[x].waiters > 0
    <3>1. x /= None /\ x /= p
      BY <1>9, <2>2, ConstantsAssumption
    <3> QED BY <1>6, <1>8, <2>2, <3>1 DEF WaitersCounted
  <2>3. call'[p].waiters = Cardinality(Referrers(p)') /\ call'[p].waiters > 0
    BY <1>4, <1>6, <1>8, <2>1
  <2> QED BY <1>1, <1>7, <2>2, <2>3 DEF WaitersCounted
<1>14. CancelMeansAbandoned'
  BY <1>4, <1>6, <1>8 DEF CancelMeansAbandoned
<1>15. NoCanceledAnswer'
  BY <1>3, <1>5 DEF NoCanceledAnswer
<1> QED BY <1>10, <1>11, <1>12, <1>13, <1>14, <1>15
(***************************************************************************)
(* A request that returns and leaves the load in flight, if it was its own, *)
(* as it is: the closed call it may have held is freed with it.             *)
(***************************************************************************)
LEMMA ReturnStep ==
    ASSUME SharingInv, TypeOK', NEW c \in Callers, NEW r, NEW p \in Calls,
           req[c].pc \in {"wait", "leave"}, req[c].on = p,
           \A k \in Keys : inFlight[k] /= p,
           AnswerWith(c, r), r.state /= "canceled",
           call' = DropReference(c, call), UNCHANGED inFlight
    PROVE  SharingInv'
<1> USE DEF SharingInv
<1>1. /\ req \in [Callers -> Req] /\ call \in [Calls -> Call]
      /\ inFlight \in [Keys -> Calls \cup {None}]
  BY DEF TypeOK
<1>2. PICK q : /\ req' = [req EXCEPT ![c] = q]
               /\ q.pc = "answered" /\ q.on = None /\ q.result = r
  BY <1>1, AnswerEffect
<1>3. req'[c] = q /\ \A d \in Callers \ {c} : req'[d] = req[d]
  BY <1>1, <1>2
<1>4. \A d \in Calls : Referrers(d)' = Referrers(d) \ {c}
  <2>1. \A d \in Calls : Referrers(d)' = (Referrers(d) \ {c}) \cup (IF q.on = d THEN {c} ELSE {})
    BY <1>1, <1>2, ReferrersMove
  <2> QED BY <1>2, <2>1, ConstantsAssumption
<1>5. \A d \in Calls \ {p} : c \notin Referrers(d) /\ Referrers(d)' = Referrers(d)
  BY <1>4 DEF Referrers
<1>6. /\ \A d \in Calls \ {p} : call'[d] = call[d]
      /\ \/ call'[p] = call[p]
         \/ call[p].phase = "closed" /\ call'[p] = FreeCall /\ Referrers(p) = {c}
  BY <1>1 DEF DropReference
<1>7. /\ FreeCall.phase = "free" /\ ~FreeCall.abandoned /\ ~FreeCall.canceled
      /\ FreeCall.err = "none"
  BY DEF FreeCall
<1>8. RequestsPlaced'
  <2> SUFFICES ASSUME NEW d \in Callers, d /= c
               PROVE  /\ req[d].pc \in {"lookup", "wait", "leave"} => req[d].key \in Keys
                      /\ IF req[d].pc \in {"wait", "leave"}
                         THEN /\ req[d].on \in Calls
                              /\ call'[req[d].on].phase /= "free"
                              /\ call'[req[d].on].key = req[d].key
                         ELSE req[d].on = None
    BY <1>2, <1>3 DEF RequestsPlaced
  <2>1. req[d].on = p => Referrers(p) /= {c}
    BY DEF Referrers
  <2> QED BY <1>6, <2>1 DEF RequestsPlaced
<1>9. LoadsPlaced'
  BY <1>6, <1>7 DEF LoadsPlaced
<1>10. InFlightActive'
  BY <1>1, <1>6, ConstantsAssumption DEF InFlightActive
<1>11. WaitersCounted'
  BY <1>1, <1>5, <1>6, ConstantsAssumption DEF WaitersCounted
<1>12. CancelMeansAbandoned'
  BY <1>4, <1>6, <1>7 DEF CancelMeansAbandoned
<1>13. NoCanceledAnswer'
  BY <1>2, <1>3 DEF NoCanceledAnswer
<1> QED BY <1>8, <1>9, <1>10, <1>11, <1>12, <1>13

(* A closed load is not in flight, and what it gave its waiters was no cancellation. *)
LEMMA WaitDoneStep ==
    ASSUME SharingInv, TypeOK', NEW c \in Callers, WaitDone(c)
    PROVE  SharingInv'
<1> USE DEF SharingInv
<1>1. req[c].pc = "wait" /\ TypeOK /\ AnswerWith(c, Outcome(c)) /\ UNCHANGED inFlight
      /\ call' = DropReference(c, call) /\ call[req[c].on].phase = "closed"
  BY DEF WaitDone
<1>2. PICK p \in Calls : p = req[c].on
  BY <1>1 DEF RequestsPlaced
<1>3. \A k \in Keys : inFlight[k] /= p
  BY <1>1, <1>2, ConstantsAssumption DEF InFlightActive
<1>4. call[p].err /= "canceled"
  BY <1>1, <1>2 DEF CancelMeansAbandoned
<1>5. Outcome(c).state /= "canceled"
  BY <1>2, <1>4 DEF Outcome, Failure, NoResult
<1> QED BY <1>1, <1>2, <1>3, <1>5, ReturnStep

(* A request that leaves: not its load any more, not the last waiter, or the last. *)
LEMMA LeaveStep ==
    ASSUME SharingInv, TypeOK', NEW c \in Callers, Leave(c)
    PROVE  SharingInv'
<1> USE DEF SharingInv
<1> DEFINE k == req[c].key
           ctx == Failure("ctx")
<1>1. /\ req \in [Callers -> Req] /\ call \in [Calls -> Call] /\ k \in Keys
      /\ inFlight \in [Keys -> Calls \cup {None}]
      /\ req[c].pc = "leave" /\ AnswerWith(c, ctx)
  BY DEF Leave, TypeOK, RequestsPlaced
<1>2. PICK p \in Calls : p = req[c].on
  BY <1>1 DEF RequestsPlaced
<1>3. call[p].key = k /\ \A j \in Keys : inFlight[j] = p => j = k
  BY <1>1, <1>2, ConstantsAssumption DEF RequestsPlaced, InFlightActive
<1>4. ctx.state = "ctx"
  BY DEF Failure, NoResult
<1>5. CASE inFlight[k] /= p
  <2>1. call' = DropReference(c, call) /\ UNCHANGED inFlight
    BY <1>2, <1>5 DEF Leave
  <2> QED BY <1>1, <1>2, <1>3, <1>4, <1>5, <2>1, ReturnStep
<1>6. CASE inFlight[k] = p
  <2>1. PICK q : /\ req' = [req EXCEPT ![c] = q]
                 /\ q.pc = "answered" /\ q.on = None /\ q.result = ctx
    BY <1>1, AnswerEffect
  <2>2. req'[c] = q /\ \A d \in Callers \ {c} : req'[d] = req[d]
    BY <1>1, <2>1
  <2>3. /\ \A d \in Calls : Referrers(d)' = Referrers(d) \ {c}
        /\ \A d \in Calls \ {p} : Referrers(d)' = Referrers(d)
        /\ c \in Referrers(p)
    <3>1. \A d \in Calls : Referrers(d)' = (Referrers(d) \ {c}) \cup (IF q.on = d THEN {c} ELSE {})
      BY <1>1, <2>1, ReferrersMove
    <3>2. c \in Referrers(p) /\ \A d \in Calls \ {p} : c \notin Referrers(d)
      BY <1>2 DEF Referrers
    <3> QED BY <2>1, <3>1, <3>2, ConstantsAssumption
  <2>4. /\ call[p] \in Call /\ call[p].phase \in Active /\ ~call[p].abandoned
        /\ call[p].waiters = Cardinality(Referrers(p)) /\ call[p].waiters > 0
    BY <1>1, <1>3, <1>6, ConstantsAssumption DEF InFlightActive, WaitersCounted
  <2>5. /\ IsFiniteSet(Referrers(p)) /\ IsFiniteSet(Referrers(p) \ {c})
        /\ Cardinality(Referrers(p) \ {c}) = Cardinality(Referrers(p)) - 1
    BY <2>3, ReferrersFinite, FS_RemoveElement
  <2>6. NoCanceledAnswer'
    BY <1>4, <2>1, <2>2 DEF NoCanceledAnswer
  <2>7. CASE call[p].waiters = 1
    <3> DEFINE z == [call[p] EXCEPT !.waiters = @ - 1, !.abandoned = TRUE, !.canceled = TRUE]
    <3>1. /\ inFlight' = [inFlight EXCEPT ![k] = None]
          /\ \A d \in Calls \ {p} : call'[d] = call[d]
          /\ call'[p] = z
      BY <1>1, <1>2, <1>6, <2>7 DEF Leave
    <3>2. z.phase \in Active /\ z.key = k /\ z.abandoned /\ z.canceled
      BY <1>3, <2>4 DEF Call
    <3> HIDE DEF z
    <3>3. Referrers(p)' = {}
      BY <2>3, <2>4, <2>5, <2>7, FS_EmptySet
    <3>4. inFlight'[k] = None /\ \A j \in Keys \ {k} : inFlight'[j] = inFlight[j]
      BY <1>1, <3>1
    <3>5. RequestsPlaced'
      BY <1>1, <1>3, <2>1, <2>2, <3>1, <3>2 DEF RequestsPlaced
    <3>6. LoadsPlaced'
      BY <1>1, <1>2, <1>6, <3>1, <3>2, <3>4 DEF LoadsPlaced
    <3>7. InFlightActive'
      BY <1>1, <1>3, <3>1, <3>4 DEF InFlightActive
    <3>8. WaitersCounted'
      <4> SUFFICES ASSUME NEW j \in Keys \ {k}, NEW x \in Calls, inFlight[j] = x
                   PROVE  call'[x].waiters = Cardinality(Referrers(x)') /\ call'[x].waiters > 0
        BY <1>1, <3>4 DEF WaitersCounted
      <4>1. x /= p /\ x /= None
        BY <1>3, ConstantsAssumption
      <4> QED BY <2>3, <3>1, <4>1 DEF WaitersCounted
    <3>9. CancelMeansAbandoned'
      BY <2>3, <3>1, <3>2, <3>3 DEF CancelMeansAbandoned
    <3> QED BY <2>6, <3>5, <3>6, <3>7, <3>8, <3>9
  <2>8. CASE call[p].waiters /= 1
    <3> DEFINE z == [call[p] EXCEPT !.waiters = @ - 1]
    <3>1. /\ UNCHANGED inFlight
          /\ \A d \in Calls \ {p} : call'[d] = call[d]
          /\ call'[p] = z
      BY <1>1, <1>2, <1>6, <2>4, <2>8 DEF Leave, DropReference
    <3>2. /\ z.phase = call[p].phase /\ z.key = k /\ ~z.abandoned
          /\ z.canceled = call[p].canceled /\ z.err = call[p].err
          /\ z.waiters = call[p].waiters - 1
      BY <1>3, <2>4 DEF Call
    <3> HIDE DEF z
    <3>3. RequestsPlaced'
      BY <1>1, <1>3, <2>1, <2>2, <2>4, <3>1, <3>2 DEF RequestsPlaced
    <3>4. LoadsPlaced'
      BY <1>1, <1>6, <3>1, <3>2 DEF LoadsPlaced
    <3>5. InFlightActive'
      BY <1>1, <1>3, <2>4, <3>1, <3>2 DEF InFlightActive
    <3>6. WaitersCounted'
      <4> SUFFICES ASSUME NEW j \in Keys, NEW x \in Calls, inFlight[j] = x
                   PROVE  call'[x].waiters = Cardinality(Referrers(x)') /\ call'[x].waiters > 0
        BY <1>1, <3>1 DEF WaitersCounted
      <4>1. CASE x = p
        <5>1. Cardinality(Referrers(p)) > 1
          <6>1. call[p].waiters \in Int
            BY <2>4 DEF Call
          <6> QED BY <2>4, <2>8, <6>1
        <5>2. Cardinality(Referrers(p)') = Cardinality(Referrers(p)) - 1
          BY <2>3, <2>5
        <5>3. Cardinality(Referrers(p)) \in Nat
          BY <2>5, FS_CardinalityType
        <5> QED BY <2>4, <3>1, <3>2, <4>1, <5>1, <5>2, <5>3
      <4>2. CASE x /= p
        BY <2>3, <3>1, <4>2, ConstantsAssumption DEF WaitersCounted
      <4> QED BY <4>1, <4>2
    <3>7. CancelMeansAbandoned'
      BY <2>3, <2>4, <3>1, <3>2 DEF CancelMeansAbandoned
    <3> QED BY <2>6, <3>3, <3>4, <3>5, <3>6, <3>7
  <2> QED BY <2>7, <2>8
<1> QED BY <1>5, <1>6
(* A load that ends: abandoned, it disappears; in flight, it hands its result over. *)
LEMMA CommitStep ==
    ASSUME SharingInv, TypeOK', NEW p \in Calls, Commit(p)
    PROVE  SharingInv'
<1> USE DEF SharingInv
<1> DEFINE k == call[p].key
<1>1. /\ call \in [Calls -> Call] /\ inFlight \in [Keys -> Calls \cup {None}]
      /\ call[p].phase = "stamped" /\ k \in Keys /\ UNCHANGED req
  BY DEF Commit, TypeOK, LoadsPlaced
<1>2. \A d \in Calls : Referrers(d)' = Referrers(d)
  BY <1>1 DEF Referrers
<1>3. \A j \in Keys : inFlight[j] = p => j = k /\ ~call[p].abandoned
  BY <1>1, ConstantsAssumption DEF InFlightActive
<1>4. NoCanceledAnswer'
  BY <1>1 DEF NoCanceledAnswer
<1>5. CASE Superseded(p)
  <2>1. call[p].abandoned /\ Referrers(p) = {}
    BY <1>1, <1>5 DEF Superseded, LoadsPlaced, CancelMeansAbandoned
  <2>2. UNCHANGED inFlight /\ call' = [call EXCEPT ![p] = FreeCall]
    BY <1>5, <2>1 DEF Commit
  <2>3. call'[p] = FreeCall /\ \A d \in Calls \ {p} : call'[d] = call[d]
    BY <1>1, <2>2
  <2>4. /\ FreeCall.phase = "free" /\ ~FreeCall.abandoned /\ ~FreeCall.canceled
        /\ FreeCall.err = "none"
    BY DEF FreeCall
  <2>5. \A j \in Keys : inFlight[j] /= p
    BY <1>3, <2>1
  <2>6. RequestsPlaced'
    <3>1. \A c \in Callers : req[c].on /= p
      BY <2>1 DEF Referrers
    <3> QED BY <1>1, <2>3, <3>1 DEF RequestsPlaced
  <2>7. LoadsPlaced'
    BY <2>2, <2>3, <2>4 DEF LoadsPlaced
  <2>8. InFlightActive'
    BY <1>1, <2>2, <2>3, <2>5 DEF InFlightActive
  <2>9. WaitersCounted'
    BY <1>1, <1>2, <2>2, <2>3, <2>5 DEF WaitersCounted
  <2>10. CancelMeansAbandoned'
    BY <1>2, <2>3, <2>4 DEF CancelMeansAbandoned
  <2> QED BY <1>4, <2>6, <2>7, <2>8, <2>9, <2>10
<1>6. CASE ~Superseded(p)
  <2> DEFINE z == [call[p] EXCEPT !.phase = "closed",
                                  !.stale = IF call[p].err = "none" THEN None ELSE entries[k]]
  <2>1. /\ inFlight[k] = p /\ ~call[p].abandoned
        /\ inFlight' = [inFlight EXCEPT ![k] = None]
        /\ call' = [call EXCEPT ![p] = z]
    BY <1>6 DEF Commit, Superseded
  <2>2. /\ z.phase = "closed" /\ z.key = k /\ ~z.abandoned /\ z.err = call[p].err
        /\ z.canceled = call[p].canceled
    BY <1>1, <2>1 DEF Call
  <2> HIDE DEF z
  <2>3. call'[p] = z /\ \A d \in Calls \ {p} : call'[d] = call[d]
    BY <1>1, <2>1
  <2>4. inFlight'[k] = None /\ \A j \in Keys \ {k} : inFlight'[j] = inFlight[j]
    BY <1>1, <2>1
  <2>5. \A j \in Keys \ {k} : inFlight[j] /= p
    BY <1>3
  <2>6. RequestsPlaced'
    BY <1>1, <2>2, <2>3 DEF RequestsPlaced
  <2>7. LoadsPlaced'
    BY <1>1, <2>1, <2>2, <2>3, <2>4 DEF LoadsPlaced
  <2>8. InFlightActive'
    BY <1>1, <2>3, <2>4, <2>5 DEF InFlightActive
  <2>9. WaitersCounted'
    <3> SUFFICES ASSUME NEW j \in Keys \ {k}, NEW x \in Calls, inFlight[j] = x
                 PROVE  call'[x].waiters = Cardinality(Referrers(x)') /\ call'[x].waiters > 0
      BY <1>1, <2>4 DEF WaitersCounted
    <3> QED BY <1>2, <2>3, <2>5, ConstantsAssumption DEF WaitersCounted
  <2>10. CancelMeansAbandoned'
    BY <1>2, <2>1, <2>2, <2>3 DEF CancelMeansAbandoned
  <2> QED BY <1>4, <2>6, <2>7, <2>8, <2>9, <2>10
<1> QED BY <1>5, <1>6

(* Every step preserves the invariant. *)
LEMMA SharingStep ==
    ASSUME SharingInv, [Next]_vars
    PROVE  SharingInv'
<1>1. TypeOK'
  BY TypeStep
<1>2. TypeOK /\ RequestsPlaced /\ CancelMeansAbandoned /\ NoCanceledAnswer
  BY DEF SharingInv
<1>0. /\ \A c \in Callers : req[c] \in Req
      /\ \A p \in Calls : call[p] \in Call
  BY <1>2 DEF TypeOK
<1>3. ASSUME NEW c \in Callers, NEW k \in Keys, NEW m \in MaxStales, Begin(c, k, m)
      PROVE  SharingInv'
  <2> DEFINE r == [IdleReq EXCEPT !.pc = "lookup", !.key = k, !.start = now,
                                  !.maxStale = m, !.floor = served[k]]
  <2>1. req' = [req EXCEPT ![c] = r] /\ UNCHANGED <<call, inFlight>> /\ req[c].on = None
    BY <1>2, <1>3 DEF Begin, RequestsPlaced
  <2>2. r.pc = "lookup" /\ r.key = k /\ r.on = None /\ r.result.state = "none"
    BY DEF IdleReq, NoResult
  <2> HIDE DEF r
  <2> QED BY <1>1, <2>1, <2>2, RequestMoves
<1>4. ASSUME NEW c \in Callers, CancelCtx(c)
      PROVE  SharingInv'
  <2> DEFINE r == [req[c] EXCEPT !.ctxDone = TRUE]
  <2>1. req' = [req EXCEPT ![c] = r] /\ UNCHANGED <<call, inFlight>>
    BY <1>4 DEF CancelCtx
  <2>2. r.pc = req[c].pc /\ r.key = req[c].key /\ r.on = req[c].on /\ r.result = req[c].result
    BY <1>0 DEF Req
  <2> HIDE DEF r
  <2> QED BY <1>1, <1>2, <2>1, <2>2, RequestMoves DEF RequestsPlaced, NoCanceledAnswer
<1>5. ASSUME NEW c \in Callers, WaitCtx(c)
      PROVE  SharingInv'
  <2> DEFINE r == [req[c] EXCEPT !.pc = "leave"]
  <2>1. req' = [req EXCEPT ![c] = r] /\ UNCHANGED <<call, inFlight>> /\ req[c].pc = "wait"
    BY <1>5 DEF WaitCtx
  <2>2. r.pc = "leave" /\ r.key = req[c].key /\ r.on = req[c].on /\ r.result = req[c].result
    BY <1>0 DEF Req
  <2> HIDE DEF r
  <2> QED BY <1>1, <1>2, <2>1, <2>2, RequestMoves DEF NoCanceledAnswer
<1>6. ASSUME NEW c \in Callers, Hit(c)
      PROVE  SharingInv'
  <2> DEFINE e == entries[req[c].key]
             v == [state |-> "fresh", version |-> e.version, storedAt |-> e.storedAt]
  <2>1. AnswerWith(c, v) /\ UNCHANGED <<call, inFlight>> /\ req[c].on = None
    BY <1>2, <1>6 DEF Hit, RequestsPlaced
  <2>2. PICK r : /\ req' = [req EXCEPT ![c] = r]
                 /\ r.pc = "answered" /\ r.on = None /\ r.result = v
    BY <1>2, <2>1, AnswerEffect DEF TypeOK
  <2>3. v.state = "fresh"
    OBVIOUS
  <2> HIDE DEF v
  <2> QED BY <1>1, <2>1, <2>2, <2>3, RequestMoves
<1>7. ASSUME NEW p \in Calls, FetchOK(p)
      PROVE  SharingInv'
  <2> DEFINE q == [call[p] EXCEPT !.phase = "fetched", !.version = upstream[call[p].key]]
  <2>1. call' = [call EXCEPT ![p] = q] /\ UNCHANGED <<req, inFlight>> /\ call[p].phase = "loading"
    BY <1>7 DEF FetchOK
  <2>2. /\ q.phase = "fetched" /\ q.key = call[p].key /\ q.waiters = call[p].waiters
        /\ q.abandoned = call[p].abandoned /\ q.canceled = call[p].canceled
        /\ q.err = call[p].err
    BY <1>0 DEF Call
  <2> HIDE DEF q
  <2> QED BY <1>1, <1>2, <2>1, <2>2, LoadMoves DEF CancelMeansAbandoned
<1>8. ASSUME NEW p \in Calls, FetchFail(p)
      PROVE  SharingInv'
  <2> DEFINE q == [call[p] EXCEPT !.phase = "fetched", !.err = "upstream"]
  <2>1. call' = [call EXCEPT ![p] = q] /\ UNCHANGED <<req, inFlight>> /\ call[p].phase = "loading"
    BY <1>8 DEF FetchFail
  <2>2. /\ q.phase = "fetched" /\ q.key = call[p].key /\ q.waiters = call[p].waiters
        /\ q.abandoned = call[p].abandoned /\ q.canceled = call[p].canceled
        /\ q.err = "upstream"
    BY <1>0 DEF Call
  <2> HIDE DEF q
  <2> QED BY <1>1, <2>1, <2>2, LoadMoves
<1>9. ASSUME NEW p \in Calls, FetchCanceled(p)
      PROVE  SharingInv'
  <2> DEFINE q == [call[p] EXCEPT !.phase = "fetched", !.err = "canceled"]
  <2>1. /\ call' = [call EXCEPT ![p] = q] /\ UNCHANGED <<req, inFlight>>
        /\ call[p].phase = "loading" /\ call[p].canceled
    BY <1>9 DEF FetchCanceled
  <2>2. /\ q.phase = "fetched" /\ q.key = call[p].key /\ q.waiters = call[p].waiters
        /\ q.abandoned = call[p].abandoned /\ q.canceled = call[p].canceled
    BY <1>0 DEF Call
  <2> HIDE DEF q
  <2> QED BY <1>1, <2>1, <2>2, LoadMoves
<1>10. ASSUME NEW p \in Calls, Stamp(p)
       PROVE  SharingInv'
  <2> DEFINE q == [call[p] EXCEPT !.phase = "stamped", !.loadedAt = now]
  <2>1. call' = [call EXCEPT ![p] = q] /\ UNCHANGED <<req, inFlight>> /\ call[p].phase = "fetched"
    BY <1>10 DEF Stamp
  <2>2. /\ q.phase = "stamped" /\ q.key = call[p].key /\ q.waiters = call[p].waiters
        /\ q.abandoned = call[p].abandoned /\ q.canceled = call[p].canceled
        /\ q.err = call[p].err
    BY <1>0 DEF Call
  <2> HIDE DEF q
  <2> QED BY <1>1, <1>2, <2>1, <2>2, LoadMoves DEF CancelMeansAbandoned
<1>11. ASSUME Tick \/ (\E k \in Keys : UpstreamAdvance(k)) \/ UNCHANGED vars
       PROVE  SharingInv'
  <2>1. UNCHANGED <<inFlight, call, req>>
    BY <1>11 DEF Tick, UpstreamAdvance, vars
  <2>2. \A p \in Calls : Referrers(p)' = Referrers(p)
    BY <2>1 DEF Referrers
  <2>3. WaitersCounted'
    BY <1>2, <2>1, <2>2 DEF SharingInv, WaitersCounted, TypeOK
  <2> QED BY <1>1, <2>1, <2>2, <2>3 DEF SharingInv, RequestsPlaced, LoadsPlaced,
             InFlightActive, CancelMeansAbandoned, NoCanceledAnswer
<1> QED
  BY <1>1, <1>3, <1>4, <1>5, <1>6, <1>7, <1>8, <1>9, <1>10, <1>11,
     JoinStep, StartStep, WaitDoneStep, LeaveStep, CommitStep
     DEF Next, CallerStep, LoadStep, Lookup, Fetch

-----------------------------------------------------------------------------
(***************************************************************************)
(* The initial state satisfies the invariant: nothing refers to anything.   *)
(***************************************************************************)
LEMMA SharingInit == Init => SharingInv
<1> SUFFICES ASSUME Init PROVE SharingInv
  OBVIOUS
<1>1. TypeOK
  BY ConstantTypes, ConstantsAssumption DEF Init, TypeOK
<1>2. RequestsPlaced /\ NoCanceledAnswer
  BY DEF Init, RequestsPlaced, NoCanceledAnswer, IdleReq, NoResult
<1>3. LoadsPlaced /\ InFlightActive /\ WaitersCounted /\ CancelMeansAbandoned
  BY DEF Init, LoadsPlaced, InFlightActive, WaitersCounted, CancelMeansAbandoned, FreeCall
<1> QED BY <1>1, <1>2, <1>3 DEF SharingInv

(***************************************************************************)
(* SharingInv holds throughout, for every number of callers, loads and      *)
(* keys.                                                                    *)
(***************************************************************************)
THEOREM SharingInvariant == Spec => []SharingInv
BY SharingInit, SharingStep, PTL DEF Spec

(* Every variable of the store keeps its type. *)
THEOREM TypeCorrect == Spec => []TypeOK
<1>1. SharingInv => TypeOK
  BY DEF SharingInv
<1> QED BY <1>1, SharingInvariant, PTL

(* Of the loads of a key, at most the one in flight is not abandoned. *)
THEOREM OneLoadPerKey == Spec => []SingleFlight
<1>1. SharingInv => SingleFlight
  BY DEF SharingInv, LoadsPlaced, SingleFlight
<1> QED BY <1>1, SharingInvariant, PTL

(* The load in flight counts its waiters exactly, and has one. *)
THEOREM WaitersExact == Spec => []WaitersCounted
<1>1. SharingInv => WaitersCounted
  BY DEF SharingInv
<1> QED BY <1>1, SharingInvariant, PTL

(***************************************************************************)
(* However callers come, go and cancel, none of them sees the cancellation  *)
(* of a load it shared.                                                     *)
(***************************************************************************)
THEOREM CancellationStaysPrivate == Spec => []NoCancelLeak
<1>1. SharingInv => NoCancelLeak
  BY DEF SharingInv, CancelMeansAbandoned, NoCanceledAnswer, NoCancelLeak
<1> QED BY <1>1, SharingInvariant, PTL

-----------------------------------------------------------------------------
(* Answers *)


(* The version cached for a key. *)
Known(k) == IF entries[k] = None THEN 0 ELSE entries[k].version

EntriesPast ==
    \A k \in Keys : entries[k] /= None =>
        entries[k].version <= upstream[k] /\ entries[k].storedAt <= now

ServedKnown == \A k \in Keys : served[k] <= Known(k)

(* A load that counts is at least as new as the entry of its key. *)
LoadAhead(p) ==
    call[p].phase \in {"fetched", "stamped"} /\ ~call[p].abandoned =>
        /\ call[p].err = "none" => /\ Known(call[p].key) <= call[p].version
                                   /\ call[p].version <= upstream[call[p].key]
        /\ call[p].phase = "stamped" =>
              /\ call[p].loadedAt <= now
              /\ entries[call[p].key] /= None => entries[call[p].key].storedAt <= call[p].loadedAt

(* What a finished load hands over is not newer than the entry. *)
LoadKnown(p) ==
    call[p].phase = "closed" =>
        /\ call[p].err = "none" => call[p].version <= Known(call[p].key)
        /\ call[p].err /= "none" /\ call[p].stale /= None =>
              call[p].stale.version <= Known(call[p].key)

LoadsAhead == \A p \in Calls : LoadAhead(p) /\ LoadKnown(p)

Pending(c) == req[c].pc \in {"wait", "leave"}

(* Nothing a pending request may get is older than what was served before it. *)
RequestAhead(c) ==
    LET p == call[req[c].on]
        e == entries[req[c].key]
    IN  /\ req[c].pc \in {"lookup", "wait", "leave"} => req[c].floor <= served[req[c].key]
        /\ Pending(c) /\ p.phase \in Active /\ e /= None => req[c].start - e.storedAt >= TTL
        /\ Pending(c) /\ p.phase = "closed" =>
              /\ p.err = "none" => req[c].floor <= p.version
              /\ p.err /= "none" /\ p.stale /= None =>
                    req[c].floor <= p.stale.version /\ req[c].start - p.stale.storedAt >= TTL

(* MonotonicReads and StaleMeansExpired of one request. *)
AnswerRight(c) ==
    /\ req[c].result.state \in {"fresh", "stale"} => req[c].result.version >= req[c].floor
    /\ req[c].result.state = "stale" => req[c].start - req[c].result.storedAt >= TTL

ReadsInv ==
    /\ EntriesPast
    /\ ServedKnown
    /\ LoadsAhead
    /\ \A c \in Callers : RequestAhead(c) /\ AnswerRight(c)

-----------------------------------------------------------------------------
(* Frames *)

LEMMA Types ==
    ASSUME TypeOK
    PROVE  /\ now \in Nat /\ \A k \in Keys : upstream[k] \in Nat /\ served[k] \in Nat /\ Known(k) \in Nat
           /\ \A k \in Keys : entries[k] /= None =>
                 /\ Known(k) = entries[k].version
                 /\ entries[k].version \in Nat /\ entries[k].storedAt \in Nat
           /\ \A p \in Calls : /\ call[p].version \in Nat /\ call[p].loadedAt \in Nat
                               /\ call[p].stale /= None => /\ call[p].stale.version \in Nat
                                                           /\ call[p].stale.storedAt \in Nat
           /\ \A c \in Callers : /\ req[c].start \in Nat /\ req[c].floor \in Nat
                                 /\ req[c].result.version \in Nat /\ req[c].result.storedAt \in Nat
<1>1. \A k \in Keys : entries[k] /= None => entries[k] \in Entry
    BY DEF TypeOK
<1>2. \A k \in Keys : entries[k] /= None => /\ entries[k].version \in Nat /\ entries[k].storedAt \in Nat
    BY <1>1 DEF Entry
<1>3. \A p \in Calls : call[p] \in Call
    BY DEF TypeOK
<1>4. \A p \in Calls : call[p].version \in Nat /\ call[p].loadedAt \in Nat /\ call[p].stale \in Entry \cup {None}
    BY <1>3 DEF Call
<1>5. \A p \in Calls : call[p].stale /= None => call[p].stale.version \in Nat /\ call[p].stale.storedAt \in Nat
    BY <1>4 DEF Entry
<1>6. \A c \in Callers : req[c] \in Req
    BY DEF TypeOK
<1>7. \A c \in Callers : req[c].start \in Nat /\ req[c].floor \in Nat /\ req[c].result \in Result
    BY <1>6 DEF Req
<1>8. \A c \in Callers : req[c].result.version \in Nat /\ req[c].result.storedAt \in Nat
    BY <1>7 DEF Result
<1> QED
    BY <1>2, <1>4, <1>5, <1>7, <1>8 DEF TypeOK, Known

(* What a load has got so far; only its waiters, and whether it counts, may differ. *)
SameLoad(p) ==
    /\ call'[p].phase = call[p].phase /\ call'[p].key = call[p].key
    /\ call'[p].err = call[p].err /\ call'[p].version = call[p].version
    /\ call'[p].loadedAt = call[p].loadedAt /\ call'[p].stale = call[p].stale
    /\ call'[p].abandoned \in {call[p].abandoned, TRUE}

(* A step of requests: it begins loads, leaves them or frees what is finished. *)
LEMMA RequestsStep ==
    ASSUME SharingInv, SharingInv', ReadsInv,
           UNCHANGED <<now, upstream, entries>>,
           \A p \in Calls : \/ call'[p].phase = "free"
                            \/ call[p].phase = "free" /\ call'[p].phase = "loading"
                            \/ SameLoad(p),
           \A k \in Keys : served[k] <= served'[k] /\ served'[k] <= Known(k),
           \A c \in Callers : \/ req'[c] = req[c]
                              \/ RequestAhead(c)' /\ AnswerRight(c)'
    PROVE  ReadsInv'
<1>0. TypeOK /\ TypeOK'
    BY DEF SharingInv
<1>1. EntriesPast' /\ ServedKnown'
    BY DEF ReadsInv, EntriesPast, ServedKnown, Known
<1>2. LoadsAhead'
  <2>1. ASSUME NEW p \in Calls PROVE LoadAhead(p)' /\ LoadKnown(p)'
    <3>1. CASE call'[p].phase \in {"free", "loading"}
        BY <3>1 DEF LoadAhead, LoadKnown
    <3>2. CASE SameLoad(p)
      <4>1. LoadAhead(p) /\ LoadKnown(p)
          BY DEF ReadsInv, LoadsAhead
      <4>2. LoadAhead(p)'
          BY <3>2, <4>1 DEF SameLoad, LoadAhead, Known
      <4>3. LoadKnown(p)'
          BY <3>2, <4>1 DEF SameLoad, LoadKnown, Known
      <4> QED
          BY <4>2, <4>3
    <3> QED
        BY <3>1, <3>2
  <2> QED
      BY <2>1 DEF LoadsAhead
<1>3. ASSUME NEW c \in Callers, req'[c] = req[c] PROVE RequestAhead(c)' /\ AnswerRight(c)'
  <2>1. AnswerRight(c)'
      BY <1>3 DEF ReadsInv, AnswerRight
  <2>2. req[c].pc \in {"lookup", "wait", "leave"} => req[c].floor <= served'[req[c].key]
    <3>1. req[c].pc \in {"lookup", "wait", "leave"} =>
              req[c].floor <= served[req[c].key] /\ req[c].key \in Keys
        BY DEF ReadsInv, RequestAhead, SharingInv, RequestsPlaced
    <3> QED
        BY <1>0, <3>1, Types DEF TypeOK
  <2>3. Pending(c) => SameLoad(req[c].on)
    <3>1. Pending(c) => /\ req[c].on \in Calls /\ call[req[c].on].phase /= "free"
                        /\ call'[req[c].on].phase /= "free"
        BY <1>3 DEF Pending, SharingInv, RequestsPlaced
    <3> QED
        BY <3>1
  <2>4. RequestAhead(c)'
    <3>1. CASE Pending(c)
      <4>1. RequestAhead(c) /\ SameLoad(req[c].on)
          BY <2>3, <3>1 DEF ReadsInv
      <4> QED
          BY SMTT(20), <1>3, <2>2, <3>1, <4>1 DEF RequestAhead, Pending, SameLoad
    <3>2. CASE ~Pending(c)
        BY <1>3, <2>2, <3>2 DEF RequestAhead, Pending
    <3> QED
        BY <3>1, <3>2
  <2> QED
      BY <2>1, <2>4
<1> QED
    BY <1>1, <1>2, <1>3 DEF ReadsInv

(* A load in flight goes on. *)
LEMMA LoadStepReads ==
    ASSUME SharingInv, ReadsInv, NEW p \in Calls, NEW q,
           call' = [call EXCEPT ![p] = q],
           call[p].phase \in Active, q.phase \in Active,
           UNCHANGED <<now, upstream, entries, req, served>>,
           LoadAhead(p)'
    PROVE  ReadsInv'
<1>1. call'[p] = q /\ \A d \in Calls \ {p} : call'[d] = call[d]
    BY DEF SharingInv, TypeOK
<1>2. EntriesPast' /\ ServedKnown'
    BY DEF ReadsInv, EntriesPast, ServedKnown, Known
<1>3. LoadsAhead'
  <2>1. LoadKnown(p)'
      BY <1>1 DEF LoadKnown
  <2>2. ASSUME NEW d \in Calls \ {p} PROVE LoadAhead(d)' /\ LoadKnown(d)'
    <3>1. LoadAhead(d) /\ LoadKnown(d) /\ call'[d] = call[d]
        BY <1>1 DEF ReadsInv, LoadsAhead
    <3>2. LoadAhead(d)'
        BY <3>1 DEF LoadAhead, Known
    <3>3. LoadKnown(d)'
        BY <3>1 DEF LoadKnown, Known
    <3> QED
        BY <3>2, <3>3
  <2> QED
      BY <2>1, <2>2 DEF LoadsAhead
<1>4. \A c \in Callers : RequestAhead(c)' /\ AnswerRight(c)'
  <2> TAKE c \in Callers
  <2>1. Pending(c) => req[c].on \in Calls
      BY DEF Pending, SharingInv, RequestsPlaced
  <2>2. AnswerRight(c)'
      BY DEF ReadsInv, AnswerRight
  <2>3. RequestAhead(c)'
    <3>1. RequestAhead(c)
        BY DEF ReadsInv
    <3>2. CASE Pending(c) /\ req[c].on = p
        BY <1>1, <3>1, <3>2 DEF RequestAhead, Pending
    <3>3. CASE ~(Pending(c) /\ req[c].on = p)
      <4>1. Pending(c) => call'[req[c].on] = call[req[c].on]
          BY <1>1, <2>1, <3>3
      <4> QED
          BY <3>1, <4>1 DEF RequestAhead, Pending
    <3> QED
        BY <3>2, <3>3
  <2> QED
      BY <2>2, <2>3
<1> QED
    BY <1>2, <1>3, <1>4 DEF ReadsInv

(* Time passes, or the upstream changes. *)
LEMMA EnvironmentReads ==
    ASSUME SharingInv, ReadsInv, Tick \/ (\E k \in Keys : UpstreamAdvance(k)) \/ UNCHANGED vars
    PROVE  ReadsInv'
<1>0. TypeOK
    BY DEF SharingInv
<1>1. UNCHANGED <<entries, call, req, served>>
    BY DEF Tick, UpstreamAdvance, vars
<1>2. now \in Nat /\ now' \in Nat /\ now <= now'
    BY <1>0, Types DEF Tick, UpstreamAdvance, vars
<1>3. \A k \in Keys : upstream[k] \in Nat /\ upstream'[k] \in Nat /\ upstream[k] <= upstream'[k]
    BY <1>0, Types DEF Tick, UpstreamAdvance, vars, TypeOK
<1>4. EntriesPast'
    BY <1>0, <1>1, <1>2, <1>3, Types DEF ReadsInv, EntriesPast
<1>5. ServedKnown'
    BY <1>1 DEF ReadsInv, ServedKnown, Known
<1>6. LoadsAhead'
  <2>1. ASSUME NEW p \in Calls PROVE LoadAhead(p)' /\ LoadKnown(p)'
    <3>1. call[p].phase \in {"fetched", "stamped"} => call[p].key \in Keys
        BY DEF SharingInv, LoadsPlaced
    <3> QED
        BY <1>0, <1>1, <1>2, <1>3, <3>1, Types DEF ReadsInv, LoadsAhead, LoadAhead, LoadKnown, Known
  <2> QED
      BY <2>1 DEF LoadsAhead
<1>7. \A c \in Callers : RequestAhead(c)' /\ AnswerRight(c)'
    BY <1>1 DEF ReadsInv, RequestAhead, AnswerRight, Pending
<1> QED
    BY <1>4, <1>5, <1>6, <1>7 DEF ReadsInv

-----------------------------------------------------------------------------
(* Requests *)

(* A request that does not return: it begins, waits, or gives up waiting. *)
LEMMA WaitingReads ==
    ASSUME SharingInv, SharingInv', ReadsInv, NEW c \in Callers, NEW r,
           req' = [req EXCEPT ![c] = r],
           UNCHANGED <<now, upstream, entries, served>>,
           \A p \in Calls : \/ call'[p].phase = "free"
                            \/ call[p].phase = "free" /\ call'[p].phase = "loading"
                            \/ SameLoad(p),
           RequestAhead(c)', AnswerRight(c)'
    PROVE  ReadsInv'
<1>0. TypeOK
    BY DEF SharingInv
<1>1. \A d \in Callers \ {c} : req'[d] = req[d]
    BY <1>0 DEF TypeOK
<1>2. \A k \in Keys : served[k] <= served'[k] /\ served'[k] <= Known(k)
    BY <1>0, Types DEF ReadsInv, ServedKnown
<1> QED
    BY <1>1, <1>2, RequestsStep

LEMMA BeginReads ==
    ASSUME SharingInv, SharingInv', ReadsInv, NEW c \in Callers, NEW k \in Keys, NEW m \in MaxStales,
           Begin(c, k, m)
    PROVE  ReadsInv'
<1> DEFINE r == [IdleReq EXCEPT !.pc = "lookup", !.key = k, !.start = now,
                                !.maxStale = m, !.floor = served[k]]
<1>0. TypeOK
    BY DEF SharingInv
<1>1. req' = [req EXCEPT ![c] = r] /\ UNCHANGED <<now, upstream, entries, call, served>>
    BY DEF Begin
<1>2. r.pc = "lookup" /\ r.key = k /\ r.floor = served[k] /\ r.result.state = "none"
    BY DEF IdleReq, NoResult
<1> HIDE DEF r
<1>3. req'[c] = r
    BY <1>0, <1>1 DEF TypeOK
<1>4. RequestAhead(c)' /\ AnswerRight(c)'
    BY <1>0, <1>1, <1>2, <1>3, Types DEF RequestAhead, Pending, AnswerRight
<1>5. \A p \in Calls : SameLoad(p)
    BY <1>1 DEF SameLoad
<1> QED
    BY <1>1, <1>4, <1>5, WaitingReads

LEMMA PatienceReads ==
    ASSUME SharingInv, SharingInv', ReadsInv, NEW c \in Callers, CancelCtx(c) \/ WaitCtx(c)
    PROVE  ReadsInv'
<1>0. TypeOK
    BY DEF SharingInv
<1>1. PICK r : /\ req' = [req EXCEPT ![c] = r]
               /\ r.key = req[c].key /\ r.on = req[c].on /\ r.start = req[c].start
               /\ r.floor = req[c].floor /\ r.result = req[c].result
               /\ \/ r.pc = req[c].pc
                  \/ r.pc = "leave" /\ req[c].pc = "wait"
  <2>1. req[c] \in Req
      BY <1>0 DEF TypeOK
  <2>2. CASE CancelCtx(c)
    <3> DEFINE z == [req[c] EXCEPT !.ctxDone = TRUE]
    <3>1. req' = [req EXCEPT ![c] = z]
        BY <2>2 DEF CancelCtx
    <3>2. /\ z.key = req[c].key /\ z.on = req[c].on /\ z.start = req[c].start
          /\ z.floor = req[c].floor /\ z.result = req[c].result /\ z.pc = req[c].pc
        BY <2>1 DEF Req
    <3> HIDE DEF z
    <3> QED
        BY <3>1, <3>2
  <2>3. CASE WaitCtx(c)
    <3> DEFINE z == [req[c] EXCEPT !.pc = "leave"]
    <3>1. req' = [req EXCEPT ![c] = z] /\ req[c].pc = "wait"
        BY <2>3 DEF WaitCtx
    <3>2. /\ z.key = req[c].key /\ z.on = req[c].on /\ z.start = req[c].start
          /\ z.floor = req[c].floor /\ z.result = req[c].result /\ z.pc = "leave"
        BY <2>1 DEF Req
    <3> HIDE DEF z
    <3> QED
        BY <3>1, <3>2
  <2> QED
      BY <2>2, <2>3
<1>2. UNCHANGED <<now, upstream, entries, call, served>>
    BY DEF CancelCtx, WaitCtx
<1>3. req'[c] = r
    BY <1>0, <1>1 DEF TypeOK
<1>4. RequestAhead(c) /\ AnswerRight(c)
    BY DEF ReadsInv
<1>5. RequestAhead(c)' /\ AnswerRight(c)'
    BY <1>1, <1>2, <1>3, <1>4 DEF RequestAhead, Pending, AnswerRight
<1>6. \A p \in Calls : SameLoad(p)
    BY <1>2 DEF SameLoad
<1> QED
    BY <1>1, <1>2, <1>5, <1>6, WaitingReads

(* Who finds no fresh entry joins the load in flight or starts one. *)
LEMMA LookupReads ==
    ASSUME SharingInv, SharingInv', ReadsInv, NEW c \in Callers,
           Join(c) \/ \E p \in Calls : StartLoad(c, p)
    PROVE  ReadsInv'
<1> DEFINE e == entries[req[c].key]
<1>0. TypeOK /\ req[c] \in Req
    BY DEF SharingInv, TypeOK
<1>1. req[c].pc = "lookup" /\ ~FreshFor(c) /\ req[c].key \in Keys
    BY DEF Join, StartLoad, SharingInv, RequestsPlaced
<1>2. UNCHANGED <<now, upstream, entries, served>>
    BY DEF Join, StartLoad
<1>3. PICK p \in Calls : /\ req' = [req EXCEPT ![c] = [req[c] EXCEPT !.pc = "wait", !.on = p]]
                         /\ call'[p].phase \in Active
                         /\ \A d \in Calls : \/ call[d].phase = "free" /\ call'[d].phase = "loading"
                                             \/ SameLoad(d)
  <2>1. CASE Join(c)
    <3> DEFINE p == inFlight[req[c].key]
               z == [call[p] EXCEPT !.waiters = call[p].waiters + 1]
    <3>1. p \in Calls /\ call[p].phase \in Active
      <4>1. p \in Calls \cup {None} /\ p /= None
          BY <1>0, <1>1, <2>1 DEF Join, TypeOK
      <4>2. call[p].phase \in Active
          BY <1>1, <4>1 DEF SharingInv, InFlightActive
      <4> QED
          BY <4>1, <4>2
    <3>2. /\ req' = [req EXCEPT ![c] = [req[c] EXCEPT !.pc = "wait", !.on = p]]
          /\ call' = [call EXCEPT ![p] = z]
        BY <1>0, <2>1, <3>1 DEF Join, TypeOK, Call
    <3>3. /\ z.phase = call[p].phase /\ z.key = call[p].key /\ z.err = call[p].err
          /\ z.version = call[p].version /\ z.loadedAt = call[p].loadedAt
          /\ z.stale = call[p].stale /\ z.abandoned = call[p].abandoned
      <4>1. call[p] \in Call
          BY <1>0, <3>1 DEF TypeOK
      <4> HIDE DEF p
      <4> QED
          BY <4>1 DEF Call
    <3> HIDE DEF z, p
    <3>4. call'[p] = z /\ \A d \in Calls \ {p} : call'[d] = call[d]
        BY <1>0, <3>1, <3>2 DEF TypeOK
    <3>5. \A d \in Calls : SameLoad(d)
        BY <3>3, <3>4 DEF SameLoad
    <3> QED
        BY <3>1, <3>2, <3>3, <3>4, <3>5
  <2>2. ASSUME NEW p \in Calls, StartLoad(c, p)
        PROVE  /\ req' = [req EXCEPT ![c] = [req[c] EXCEPT !.pc = "wait", !.on = p]]
               /\ call'[p].phase \in Active
               /\ \A d \in Calls : \/ call[d].phase = "free" /\ call'[d].phase = "loading"
                                   \/ SameLoad(d)
    <3>1. call[p].phase = "free" /\ call'[p].phase = "loading" /\ \A d \in Calls \ {p} : call'[d] = call[d]
        BY <1>0, <2>2 DEF StartLoad, TypeOK, FreeCall
    <3>2. \A d \in Calls \ {p} : SameLoad(d)
        BY <3>1 DEF SameLoad
    <3>3. req' = [req EXCEPT ![c] = [req[c] EXCEPT !.pc = "wait", !.on = p]]
        BY <2>2 DEF StartLoad
    <3> QED
        BY <3>1, <3>2, <3>3
  <2> QED
      BY <2>1, <2>2
<1> DEFINE r == [req[c] EXCEPT !.pc = "wait", !.on = p]
<1>4. /\ r.key = req[c].key /\ r.on = p /\ r.start = req[c].start
      /\ r.floor = req[c].floor /\ r.result = req[c].result
    BY <1>0 DEF Req
<1>5. req' = [req EXCEPT ![c] = r]
    BY <1>3
<1> HIDE DEF r
<1>6. req'[c] = r
    BY <1>0, <1>5 DEF TypeOK
<1>7. e /= None => req[c].start - e.storedAt >= TTL
  <2>1. e /= None => req[c].start \in Nat /\ e.storedAt \in Nat /\ TTL \in Nat
      BY <1>0, <1>1, Types, ConstantsAssumption
  <2> QED
      BY <1>1, <2>1 DEF FreshFor
<1>8. RequestAhead(c) /\ AnswerRight(c)
    BY DEF ReadsInv
<1>9. RequestAhead(c)' /\ AnswerRight(c)'
    BY <1>1, <1>2, <1>3, <1>4, <1>6, <1>7, <1>8 DEF RequestAhead, Pending, AnswerRight
<1> QED
    BY <1>2, <1>3, <1>5, <1>9, WaitingReads

-----------------------------------------------------------------------------
(* Answers *)

(* A request returns: what it is given is between what had been served and the entry. *)
LEMMA AnswerReads ==
    ASSUME SharingInv, SharingInv', ReadsInv, NEW c \in Callers, NEW r \in Result,
           AnswerWith(c, r), req[c].key \in Keys,
           UNCHANGED <<now, upstream, entries>>,
           \A p \in Calls : call'[p].phase = "free" \/ SameLoad(p),
           r.state \in {"fresh", "stale"} =>
               req[c].floor <= r.version /\ r.version <= Known(req[c].key),
           r.state = "stale" => req[c].start - r.storedAt >= TTL
    PROVE  ReadsInv'
<1>0. TypeOK /\ req[c] \in Req
    BY DEF SharingInv, TypeOK
<1>1. r.version \in Nat
    BY DEF Result
<1>2. \A k \in Keys : served[k] <= served'[k] /\ served'[k] <= Known(k)
  <2> TAKE k \in Keys
  <2>1. served[k] \in Nat /\ Known(k) \in Nat /\ served[k] <= Known(k)
      BY <1>0, Types DEF ReadsInv, ServedKnown
  <2>2. \/ served'[k] = served[k]
        \/ k = req[c].key /\ r.state \in {"fresh", "stale"} /\ served'[k] = r.version
           /\ r.version > served[k]
      BY <1>0 DEF AnswerWith, TypeOK
  <2> QED
      BY <1>1, <2>1, <2>2
<1>3. \A d \in Callers \ {c} : req'[d] = req[d]
    BY <1>0 DEF AnswerWith, TypeOK
<1>4. RequestAhead(c)' /\ AnswerRight(c)'
  <2>1. CASE r.state \in {"fresh", "stale"}
    <3> DEFINE z == [req[c] EXCEPT !.pc = "answered", !.on = None, !.maxStale = 0,
                                   !.ctxDone = FALSE, !.result = r]
    <3>1. req'[c] = z
        BY <1>0, <2>1 DEF AnswerWith, TypeOK
    <3>2. z.pc = "answered" /\ z.floor = req[c].floor /\ z.start = req[c].start /\ z.result = r
        BY <1>0 DEF Req
    <3>3. req[c].floor \in Nat
        BY <1>0, Types
    <3> HIDE DEF z
    <3> QED
        BY <1>1, <2>1, <3>1, <3>2, <3>3 DEF RequestAhead, AnswerRight, Pending
  <2>2. CASE ~(r.state \in {"fresh", "stale"})
    <3> DEFINE z == [IdleReq EXCEPT !.pc = "answered", !.result = r]
    <3>1. req'[c] = z
        BY <1>0, <2>2 DEF AnswerWith, TypeOK
    <3>2. z.pc = "answered" /\ z.result = r
        BY DEF IdleReq
    <3> HIDE DEF z
    <3> QED
        BY <2>2, <3>1, <3>2 DEF RequestAhead, AnswerRight, Pending
  <2> QED
      BY <2>1, <2>2
<1> QED
    BY <1>2, <1>3, <1>4, RequestsStep

LEMMA HitReads ==
    ASSUME SharingInv, SharingInv', ReadsInv, NEW c \in Callers, Hit(c)
    PROVE  ReadsInv'
<1> DEFINE k == req[c].key
           e == entries[k]
           r == [state |-> "fresh", version |-> e.version, storedAt |-> e.storedAt]
<1>0. TypeOK
    BY DEF SharingInv
<1>1. k \in Keys /\ req[c].pc = "lookup" /\ e /= None /\ AnswerWith(c, r)
    BY DEF Hit, FreshFor, SharingInv, RequestsPlaced
<1>2. UNCHANGED <<now, upstream, entries, call>>
    BY DEF Hit
<1>3. r \in Result
    BY <1>0, <1>1, Types DEF Result
<1>4. req[c].floor <= served[k] /\ served[k] <= Known(k) /\ Known(k) = e.version
    BY <1>0, <1>1, Types DEF ReadsInv, RequestAhead, ServedKnown
<1>5. req[c].floor \in Nat /\ served[k] \in Nat /\ Known(k) \in Nat
    BY <1>0, <1>1, Types
<1>6. r.state = "fresh" /\ r.version = e.version
    OBVIOUS
<1>7. \A p \in Calls : SameLoad(p)
    BY <1>2 DEF SameLoad
<1> HIDE DEF r, e, k
<1>8. req[c].floor <= r.version /\ r.version <= Known(k)
    BY <1>4, <1>5, <1>6
<1> QED
    BY <1>1, <1>2, <1>3, <1>6, <1>7, <1>8, AnswerReads DEF k

(* What is dropped with the last reference to a finished load. *)
LEMMA DropReads ==
    ASSUME TypeOK, NEW c \in Callers, req[c].on \in Calls, call' = DropReference(c, call)
    PROVE  \A p \in Calls : call'[p].phase = "free" \/ SameLoad(p)
<1>1. \A p \in Calls : call'[p] = call[p] \/ call'[p] = FreeCall
    BY DEF DropReference, TypeOK
<1>2. \A p \in Calls : call'[p] = call[p] => SameLoad(p)
    BY DEF SameLoad
<1>3. FreeCall.phase = "free"
    BY DEF FreeCall
<1> QED
    BY <1>1, <1>2, <1>3

LEMMA WaitDoneReads ==
    ASSUME SharingInv, SharingInv', ReadsInv, NEW c \in Callers, WaitDone(c)
    PROVE  ReadsInv'
<1>0. TypeOK
    BY DEF SharingInv
<1>1. PICK p \in Calls : p = req[c].on
    BY DEF WaitDone, SharingInv, RequestsPlaced
<1>2. /\ req[c].key \in Keys /\ call[p].key = req[c].key /\ call[p].phase = "closed" /\ Pending(c)
      /\ AnswerWith(c, Outcome(c)) /\ call' = DropReference(c, call)
      /\ UNCHANGED <<now, upstream, entries>>
    BY <1>1 DEF WaitDone, SharingInv, RequestsPlaced, Pending
<1>3. Outcome(c) \in Result
    BY <1>0, <1>1, OutcomeType
<1>4. RequestAhead(c) /\ LoadKnown(p)
    BY DEF ReadsInv, LoadsAhead
<1>5. /\ Outcome(c).state \in {"fresh", "stale"} =>
            req[c].floor <= Outcome(c).version /\ Outcome(c).version <= Known(req[c].key)
      /\ Outcome(c).state = "stale" => req[c].start - Outcome(c).storedAt >= TTL
  <2>1. CASE call[p].err = "none"
      BY <1>1, <1>2, <1>4, <2>1 DEF Outcome, RequestAhead, LoadKnown
  <2>2. CASE call[p].err /= "none" /\ call[p].stale /= None
             /\ call[p].loadedAt - call[p].stale.storedAt <= req[c].maxStale
      BY <1>1, <1>2, <1>4, <2>2 DEF Outcome, RequestAhead, LoadKnown
  <2>3. CASE /\ call[p].err /= "none"
             /\ ~(call[p].stale /= None
                  /\ call[p].loadedAt - call[p].stale.storedAt <= req[c].maxStale)
    <3>1. Outcome(c) = Failure(call[p].err)
        BY <1>1, <2>3 DEF Outcome
    <3>2. call[p].err \in {"upstream", "canceled"}
      <4>1. call[p] \in Call
          BY <1>0 DEF TypeOK
      <4> QED
          BY <2>3, <4>1 DEF Call
    <3> QED
        BY <3>1, <3>2 DEF Failure, NoResult
  <2> QED
      BY <2>1, <2>2, <2>3
<1>6. \A q \in Calls : call'[q].phase = "free" \/ SameLoad(q)
    BY <1>0, <1>1, <1>2, DropReads
<1> QED
    BY <1>2, <1>3, <1>5, <1>6, AnswerReads

LEMMA LeaveReads ==
    ASSUME SharingInv, SharingInv', ReadsInv, NEW c \in Callers, Leave(c)
    PROVE  ReadsInv'
<1>0. TypeOK
    BY DEF SharingInv
<1>1. PICK p \in Calls : p = req[c].on
    BY DEF Leave, SharingInv, RequestsPlaced
<1>2. req[c].key \in Keys /\ AnswerWith(c, Failure("ctx")) /\ UNCHANGED <<now, upstream, entries>>
    BY DEF Leave, SharingInv, RequestsPlaced
<1>3. Failure("ctx") \in Result /\ Failure("ctx").state = "ctx"
    BY ConstantTypes DEF Failure, NoResult
<1>4. \A q \in Calls : call'[q].phase = "free" \/ SameLoad(q)
  <2> DEFINE left == IF inFlight[req[c].key] = p THEN [call EXCEPT ![p].waiters = call[p].waiters - 1]
                     ELSE call
  <2>1. /\ left \in [Calls -> {left[q] : q \in Calls}]
        /\ \A q \in Calls : /\ left[q].phase = call[q].phase /\ left[q].key = call[q].key
                            /\ left[q].err = call[q].err /\ left[q].version = call[q].version
                            /\ left[q].loadedAt = call[q].loadedAt /\ left[q].stale = call[q].stale
                            /\ left[q].abandoned = call[q].abandoned
    <3>1. call[p] \in Call
        BY <1>0 DEF TypeOK
    <3> DEFINE z == [call[p] EXCEPT !.waiters = call[p].waiters - 1]
    <3>2. /\ z.phase = call[p].phase /\ z.key = call[p].key /\ z.err = call[p].err
          /\ z.version = call[p].version /\ z.loadedAt = call[p].loadedAt
          /\ z.stale = call[p].stale /\ z.abandoned = call[p].abandoned
        BY <3>1 DEF Call
    <3>3. left = call \/ left = [call EXCEPT ![p] = z]
        OBVIOUS
    <3> HIDE DEF z, left
    <3> QED
        BY <1>0, <3>2, <3>3 DEF TypeOK
  <2>2. \/ call' = [left EXCEPT ![p] = [left[p] EXCEPT !.abandoned = TRUE, !.canceled = TRUE]]
        \/ call' = DropReference(c, left)
      BY <1>1 DEF Leave
  <2> HIDE DEF left
  <2>3. CASE call' = DropReference(c, left)
    <3>1. \A q \in Calls : call'[q] = left[q] \/ call'[q] = FreeCall
        BY <1>1, <2>1, <2>3 DEF DropReference
    <3> QED
      <4>1. \A q \in Calls : call'[q] = left[q] => SameLoad(q)
          BY ZenonT(60), <2>1 DEF SameLoad
      <4>2. FreeCall.phase = "free"
          BY DEF FreeCall
      <4> QED
          BY <3>1, <4>1, <4>2
  <2>4. CASE call' = [left EXCEPT ![p] = [left[p] EXCEPT !.abandoned = TRUE, !.canceled = TRUE]]
    <3> DEFINE z == [left[p] EXCEPT !.abandoned = TRUE, !.canceled = TRUE]
    <3>1. /\ z.phase = left[p].phase /\ z.key = left[p].key /\ z.err = left[p].err
          /\ z.version = left[p].version /\ z.loadedAt = left[p].loadedAt
          /\ z.stale = left[p].stale
        OBVIOUS
    <3>2. z.abandoned \in {left[p].abandoned, TRUE}
        OBVIOUS
    <3>3. call' = [left EXCEPT ![p] = z]
        BY <2>4
    <3> HIDE DEF z
    <3> QED
        BY ZenonT(60), <2>1, <3>1, <3>2, <3>3 DEF SameLoad
  <2> QED
      BY <2>2, <2>3, <2>4
<1> QED
    BY <1>2, <1>3, <1>4, AnswerReads

-----------------------------------------------------------------------------
(* Loads *)

(* The upstream answers, with a version no older than the entry, or the load fails. *)
LEMMA FetchReads ==
    ASSUME SharingInv, ReadsInv, NEW p \in Calls, Fetch(p)
    PROVE  ReadsInv'
<1>0. TypeOK /\ call[p] \in Call
    BY DEF SharingInv, TypeOK
<1>1. call[p].phase = "loading" /\ call[p].key \in Keys /\ UNCHANGED <<now, upstream, entries, req, served>>
    BY DEF Fetch, FetchOK, FetchFail, FetchCanceled, SharingInv, LoadsPlaced
<1>2. PICK q : /\ call' = [call EXCEPT ![p] = q] /\ q.phase = "fetched" /\ q.key = call[p].key
               /\ q.err = "none" => q.version = upstream[q.key]
  <2>1. CASE FetchOK(p)
    <3> DEFINE z == [call[p] EXCEPT !.phase = "fetched", !.version = upstream[call[p].key]]
    <3>1. call' = [call EXCEPT ![p] = z]
        BY <2>1 DEF FetchOK
    <3>2. z.phase = "fetched" /\ z.key = call[p].key /\ z.version = upstream[z.key]
        BY <1>0 DEF Call
    <3> HIDE DEF z
    <3> QED
        BY <3>1, <3>2
  <2>2. ASSUME NEW err \in {"upstream", "canceled"},
               call' = [call EXCEPT ![p] = [call[p] EXCEPT !.phase = "fetched", !.err = err]]
        PROVE  \E q : /\ call' = [call EXCEPT ![p] = q] /\ q.phase = "fetched" /\ q.key = call[p].key
                      /\ q.err = "none" => q.version = upstream[q.key]
    <3> DEFINE z == [call[p] EXCEPT !.phase = "fetched", !.err = err]
    <3>1. z.phase = "fetched" /\ z.key = call[p].key /\ z.err /= "none"
        BY <1>0 DEF Call
    <3>2. call' = [call EXCEPT ![p] = z]
        BY <2>2
    <3> HIDE DEF z
    <3> QED
        BY <3>1, <3>2
  <2>3. CASE FetchFail(p)
      BY <2>2, <2>3 DEF FetchFail
  <2>4. CASE FetchCanceled(p)
      BY <2>2, <2>4 DEF FetchCanceled
  <2> QED
      BY <2>1, <2>3, <2>4 DEF Fetch
<1>3. call'[p] = q
    BY <1>0, <1>2 DEF TypeOK
<1>4. Known(call[p].key) <= upstream[call[p].key]
    BY <1>0, <1>1, Types DEF ReadsInv, EntriesPast, Known
<1>5. upstream[call[p].key] \in Nat
    BY <1>0, <1>1, Types
<1>6. LoadAhead(p)'
    BY <1>1, <1>2, <1>3, <1>4, <1>5 DEF LoadAhead, Known
<1> QED
    BY <1>1, <1>2, <1>6, LoadStepReads

(* The time of a load is no earlier than that of the entry. *)
LEMMA StampReads ==
    ASSUME SharingInv, ReadsInv, NEW p \in Calls, Stamp(p)
    PROVE  ReadsInv'
<1> DEFINE q == [call[p] EXCEPT !.phase = "stamped", !.loadedAt = now]
<1>0. TypeOK /\ call[p] \in Call
    BY DEF SharingInv, TypeOK
<1>1. /\ call' = [call EXCEPT ![p] = q] /\ call[p].phase = "fetched" /\ call[p].key \in Keys
      /\ UNCHANGED <<now, upstream, entries, req, served>>
    BY DEF Stamp, SharingInv, LoadsPlaced
<1>2. /\ q.phase = "stamped" /\ q.loadedAt = now /\ q.key = call[p].key /\ q.err = call[p].err
      /\ q.version = call[p].version /\ q.abandoned = call[p].abandoned
    BY <1>0 DEF Call
<1> HIDE DEF q
<1>3. call'[p] = q
    BY <1>0, <1>1 DEF TypeOK
<1>4. LoadAhead(p) /\ (entries[call[p].key] /= None => entries[call[p].key].storedAt <= now) /\ now \in Nat
    BY <1>0, <1>1, Types DEF ReadsInv, LoadsAhead, EntriesPast
<1>5. LoadAhead(p)'
    BY <1>1, <1>2, <1>3, <1>4 DEF LoadAhead, Known
<1> QED
    BY <1>1, <1>2, <1>5, LoadStepReads

(* The load in flight ends; no other load of its key counts. *)
LEMMA CommitAlone ==
    ASSUME SharingInv, NEW p \in Calls, call[p].phase = "stamped", ~Superseded(p)
    PROVE  /\ call[p].key \in Keys /\ ~call[p].abandoned
           /\ \A q \in Calls \ {p} : /\ call[q].phase \in Active /\ ~call[q].abandoned =>
                                           call[q].key /= call[p].key
           /\ \A c \in Callers : Pending(c) /\ req[c].on /= p =>
                 /\ req[c].on \in Calls
                 /\ call[req[c].on].phase \in Active => req[c].key /= call[p].key
           /\ \A c \in Callers : Pending(c) /\ req[c].on = p => req[c].key = call[p].key
<1>1. call[p].key \in Keys /\ ~call[p].abandoned /\ inFlight[call[p].key] = p
    BY DEF Superseded, SharingInv, LoadsPlaced
<1>2. \A q \in Calls \ {p} : call[q].phase \in Active /\ ~call[q].abandoned => call[q].key /= call[p].key
    BY <1>1 DEF SharingInv, LoadsPlaced
<1>3. ASSUME NEW c \in Callers, Pending(c)
      PROVE  /\ req[c].on \in Calls /\ call[req[c].on].key = req[c].key
             /\ ~call[req[c].on].abandoned
  <2>1. req[c].on \in Calls /\ call[req[c].on].key = req[c].key
      BY <1>3 DEF Pending, SharingInv, RequestsPlaced
  <2>2. c \in Referrers(req[c].on)
      BY DEF Referrers
  <2> QED
      BY <2>1, <2>2 DEF SharingInv, CancelMeansAbandoned
<1> QED
    BY <1>1, <1>2, <1>3

(* A load that counts and that succeeded replaces the entry by a newer one. *)
LEMMA CommitForward ==
    ASSUME SharingInv, ReadsInv, NEW p \in Calls, Commit(p), NEW k \in Keys
    PROVE  EntryForward(k) /\ Known(k) <= Known(k)'
<1>0. TypeOK /\ call[p].phase = "stamped"
    BY DEF SharingInv, Commit
<1>1. CASE entries'[k] = entries[k]
  <2>1. Known(k) \in Nat
      BY <1>0, Types
  <2>2. entries[k] /= None => entries[k].version \in Nat /\ entries[k].storedAt \in Nat
      BY <1>0, Types
  <2> QED
      BY <1>1, <2>1, <2>2 DEF EntryForward, Known
<1>2. CASE entries'[k] /= entries[k]
  <2>1. /\ ~Superseded(p) /\ call[p].err = "none" /\ k = call[p].key
        /\ entries'[k] = [version |-> call[p].version, storedAt |-> call[p].loadedAt]
      BY <1>0, <1>2 DEF Commit, TypeOK
  <2>2. LoadAhead(p) /\ ~call[p].abandoned
      BY <2>1 DEF ReadsInv, LoadsAhead, Superseded
  <2>3. /\ Known(k) <= call[p].version
        /\ entries[k] /= None => entries[k].storedAt <= call[p].loadedAt
      BY <1>0, <2>1, <2>2 DEF LoadAhead
  <2>4. call[p].version \in Nat /\ call[p].loadedAt \in Nat /\ Known(k) \in Nat
        /\ (entries[k] /= None => entries[k].storedAt \in Nat /\ Known(k) = entries[k].version)
      BY <1>0, Types
  <2>5. entries'[k] \in Entry
      BY <2>1, <2>4 DEF Entry
  <2>6. entries'[k] /= None
      BY <2>5, ConstantsAssumption
  <2>7. Known(k)' = call[p].version /\ entries'[k].version = call[p].version
        /\ entries'[k].storedAt = call[p].loadedAt
      BY <2>1, <2>6 DEF Known
  <2> QED
      BY <2>3, <2>4, <2>6, <2>7 DEF EntryForward
<1> QED
    BY <1>1, <1>2

LEMMA CommitReads ==
    ASSUME SharingInv, SharingInv', ReadsInv, NEW p \in Calls, Commit(p)
    PROVE  ReadsInv'
<1>0. TypeOK /\ TypeOK' /\ call[p] \in Call
    BY DEF SharingInv, TypeOK
<1> PICK k \in Keys : k = call[p].key
    BY DEF Commit, SharingInv, LoadsPlaced
<1>1. call[p].phase = "stamped" /\ k = call[p].key /\ UNCHANGED <<now, upstream, req, served>>
    BY DEF Commit
<1>2. CASE Superseded(p)
  <2>1. UNCHANGED entries /\ \A q \in Calls : call'[q] = call[q] \/ call'[q].phase = "free"
    <3>1. Referrers(p) = {}
        BY <1>1, <1>2 DEF Superseded, SharingInv, LoadsPlaced, CancelMeansAbandoned
    <3>2. UNCHANGED entries /\ call' = [call EXCEPT ![p] = FreeCall]
        BY <1>2, <3>1 DEF Commit
    <3> QED
        BY <1>0, <3>2 DEF FreeCall, TypeOK
  <2>2. \A q \in Calls : call'[q].phase = "free" \/ SameLoad(q)
      BY <2>1 DEF SameLoad
  <2>3. \A j \in Keys : served[j] <= served'[j] /\ served'[j] <= Known(j)
      BY <1>0, <1>1, Types DEF ReadsInv, ServedKnown
  <2> QED
      BY <1>1, <2>1, <2>2, <2>3, RequestsStep
<1>3. CASE ~Superseded(p)
  <2> DEFINE z == [call[p] EXCEPT !.phase = "closed",
                                  !.stale = IF call[p].err = "none" THEN None ELSE entries[k]]
  <2>1. /\ call' = [call EXCEPT ![p] = z]
        /\ IF call[p].err = "none"
           THEN entries' = [entries EXCEPT ![k] = [version |-> call[p].version,
                                                   storedAt |-> call[p].loadedAt]]
           ELSE UNCHANGED entries
      BY <1>1, <1>3 DEF Commit
  <2>2. /\ z.phase = "closed" /\ z.key = k /\ z.err = call[p].err /\ z.version = call[p].version
        /\ z.stale = IF call[p].err = "none" THEN None ELSE entries[k]
      BY <1>0, <1>1 DEF Call
  <2> HIDE DEF z
  <2>3. call'[p] = z /\ \A q \in Calls \ {p} : call'[q] = call[q]
      BY <1>0, <2>1 DEF TypeOK
  <2>4. \A j \in Keys : /\ Known(j) <= Known(j)' /\ Known(j) \in Nat /\ Known(j)' \in Nat
                        /\ j /= k => entries'[j] = entries[j]
    <3> TAKE j \in Keys
    <3>1. Known(j) <= Known(j)'
        BY CommitForward
    <3>2. Known(j) \in Nat
        BY <1>0, Types
    <3>3. Known(j)' \in Nat
      <4>1. entries'[j] \in Entry \cup {None}
          BY <1>0 DEF TypeOK
      <4> QED
          BY <4>1 DEF Known, Entry
    <3>4. j /= k => entries'[j] = entries[j]
        BY <1>0, <2>1 DEF TypeOK
    <3> QED
        BY <3>1, <3>2, <3>3, <3>4
  <2>5. call[p].err = "none" => /\ entries'[k] /= None /\ entries'[k].version = call[p].version
                                /\ entries'[k].storedAt = call[p].loadedAt
    <3>1. call[p].err = "none" => entries'[k] = [version |-> call[p].version, storedAt |-> call[p].loadedAt]
        BY <1>0, <1>1, <2>1 DEF TypeOK
    <3>2. call[p].version \in Nat /\ call[p].loadedAt \in Nat
        BY <1>0, Types
    <3>3. [version |-> call[p].version, storedAt |-> call[p].loadedAt] \in Entry
        BY <3>2 DEF Entry
    <3> QED
        BY <3>1, <3>3, ConstantsAssumption
  <2>6. LoadAhead(p) /\ ~call[p].abandoned
      BY <1>3 DEF ReadsInv, LoadsAhead, Superseded
  <2>7. EntriesPast'
    <3>1. ASSUME NEW j \in Keys, entries'[j] /= None
          PROVE  entries'[j].version <= upstream[j] /\ entries'[j].storedAt <= now
      <4>1. CASE j = k /\ call[p].err = "none"
          BY <1>1, <2>5, <2>6, <4>1 DEF LoadAhead
      <4>2. CASE ~(j = k /\ call[p].err = "none")
          BY <2>1, <2>4, <3>1, <4>2 DEF ReadsInv, EntriesPast
      <4> QED
          BY <4>1, <4>2
    <3> QED
        BY <1>1, <3>1 DEF EntriesPast
  <2>8. ServedKnown'
    <3> SUFFICES ASSUME NEW j \in Keys PROVE served'[j] <= Known(j)'
        BY DEF ServedKnown
    <3>1. served[j] <= Known(j) /\ served'[j] = served[j] /\ served[j] \in Nat
        BY <1>0, <1>1, Types DEF ReadsInv, ServedKnown
    <3> QED
        BY <2>4, <3>1
  <2>9. LoadsAhead'
    <3>1. ASSUME NEW q \in Calls \ {p} PROVE LoadAhead(q)' /\ LoadKnown(q)'
      <4>1. LoadAhead(q) /\ LoadKnown(q) /\ call'[q] = call[q]
          BY <2>3 DEF ReadsInv, LoadsAhead
      <4>2. LoadAhead(q)'
        <5>1. CASE call[q].phase \in {"fetched", "stamped"} /\ ~call[q].abandoned
          <6>1. call[q].key \in Keys /\ call[q].key /= k
              BY <1>1, <1>3, <5>1, CommitAlone DEF SharingInv, LoadsPlaced
          <6>2. entries'[call[q].key] = entries[call[q].key]
              BY <2>4, <6>1
          <6> QED
              BY <1>1, <4>1, <6>2 DEF LoadAhead, Known
        <5>2. CASE ~(call[q].phase \in {"fetched", "stamped"} /\ ~call[q].abandoned)
            BY <4>1, <5>2 DEF LoadAhead
        <5> QED
            BY <5>1, <5>2
      <4>3. LoadKnown(q)'
        <5>1. CASE call[q].phase = "closed"
          <6>1. PICK j \in Keys : j = call[q].key
              BY <5>1 DEF SharingInv, LoadsPlaced
          <6>2. Known(j) <= Known(j)' /\ Known(j) \in Nat /\ Known(j)' \in Nat
              BY <2>4
          <6>3. call[q].version \in Nat /\ (call[q].stale /= None => call[q].stale.version \in Nat)
              BY <1>0, Types
          <6> QED
              BY <4>1, <6>1, <6>2, <6>3 DEF LoadKnown, Known
        <5>2. CASE call[q].phase /= "closed"
            BY <4>1, <5>2 DEF LoadKnown
        <5> QED
            BY <5>1, <5>2
      <4> QED
          BY <4>2, <4>3
    <3>2. LoadAhead(p)'
        BY <2>2, <2>3 DEF LoadAhead
    <3>3. LoadKnown(p)'
      <4>1. CASE call[p].err = "none"
        <5>1. Known(k)' = call[p].version /\ call[p].version \in Nat
            BY <1>0, <2>5, <4>1, Types DEF Known
        <5> QED
            BY <2>2, <2>3, <4>1, <5>1 DEF LoadKnown, Known
      <4>2. CASE call[p].err /= "none"
        <5>1. entries[k] /= None => entries[k].version = Known(k)
            BY DEF Known
        <5>2. Known(k)' = Known(k) /\ Known(k) \in Nat
            BY <1>1, <2>1, <2>4, <4>2 DEF Known
        <5>3. z.stale /= None => z.stale.version <= Known(k)'
            BY <2>2, <4>2, <5>1, <5>2
        <5> QED
            BY <2>2, <2>3, <4>2, <5>3 DEF LoadKnown, Known
      <4> QED
          BY <4>1, <4>2
    <3> QED
        BY <3>1, <3>2, <3>3 DEF LoadsAhead
  <2>10. ASSUME NEW c \in Callers PROVE RequestAhead(c)' /\ AnswerRight(c)'
    <3>1. RequestAhead(c) /\ AnswerRight(c) /\ req'[c] = req[c]
        BY <1>1 DEF ReadsInv
    <3>2. AnswerRight(c)'
        BY <3>1 DEF AnswerRight
    <3>3. RequestAhead(c)'
      <4>1. CASE ~Pending(c)
          BY <1>1, <3>1, <4>1 DEF RequestAhead, Pending
      <4>2. CASE Pending(c) /\ req[c].on /= p
        <5>1. /\ req[c].on \in Calls /\ req[c].key \in Keys
              /\ call[req[c].on].phase \in Active => req[c].key /= k
            BY <1>1, <1>3, <4>2, CommitAlone DEF Pending, SharingInv, RequestsPlaced
        <5>2. /\ call'[req[c].on] = call[req[c].on]
              /\ call[req[c].on].phase \in Active => entries'[req[c].key] = entries[req[c].key]
            BY <2>3, <2>4, <4>2, <5>1
        <5> QED
            BY <1>1, <3>1, <5>2 DEF RequestAhead, Pending
      <4>3. CASE Pending(c) /\ req[c].on = p
        <5>1. /\ req[c].key = k /\ req[c].floor <= served[k]
              /\ entries[k] /= None => req[c].start - entries[k].storedAt >= TTL
            BY <1>1, <1>3, <3>1, <4>3, CommitAlone DEF RequestAhead, Pending
        <5>2. /\ req[c].floor \in Nat /\ served[k] \in Nat /\ Known(k) \in Nat /\ call[p].version \in Nat
              /\ served[k] <= Known(k)
            BY <1>0, <1>1, Types DEF ReadsInv, ServedKnown
        <5>3. call[p].err = "none" => req[c].floor <= z.version
          <6>1. call[p].err = "none" => Known(k) <= call[p].version
              BY <1>1, <2>6 DEF LoadAhead
          <6> QED
              BY <2>2, <5>1, <5>2, <6>1
        <5>4. call[p].err /= "none" /\ z.stale /= None =>
                  req[c].floor <= z.stale.version /\ req[c].start - z.stale.storedAt >= TTL
          <6>1. entries[k] /= None => entries[k].version = Known(k)
              BY DEF Known
          <6> QED
              BY <2>2, <5>1, <5>2, <6>1
        <5> QED
            BY <1>1, <2>2, <2>3, <3>1, <4>3, <5>1, <5>3, <5>4 DEF RequestAhead, Pending
      <4> QED
          BY <4>1, <4>2, <4>3
    <3> QED
        BY <3>2, <3>3
  <2> QED
      BY <2>7, <2>8, <2>9, <2>10 DEF ReadsInv
<1> QED
    BY <1>2, <1>3

-----------------------------------------------------------------------------
(* The invariant *)

LEMMA ReadsInit == Init => ReadsInv
<1> SUFFICES ASSUME Init PROVE ReadsInv
    OBVIOUS
<1>1. EntriesPast /\ ServedKnown
    BY DEF Init, EntriesPast, ServedKnown, Known
<1>2. LoadsAhead
    BY DEF Init, LoadsAhead, LoadAhead, LoadKnown, FreeCall
<1>3. \A c \in Callers : RequestAhead(c) /\ AnswerRight(c)
    BY DEF Init, RequestAhead, AnswerRight, Pending, IdleReq, NoResult
<1> QED
    BY <1>1, <1>2, <1>3 DEF ReadsInv

LEMMA ReadsStep ==
    ASSUME SharingInv, SharingInv', ReadsInv, [Next]_vars
    PROVE  ReadsInv'
<1>1. CASE Tick \/ (\E k \in Keys : UpstreamAdvance(k)) \/ UNCHANGED vars
    BY <1>1, EnvironmentReads
<1>2. ASSUME NEW p \in Calls, LoadStep(p) PROVE ReadsInv'
    BY <1>2, FetchReads, StampReads, CommitReads DEF LoadStep
<1>3. ASSUME NEW c \in Callers, CallerStep(c) PROVE ReadsInv'
  <2>1. CASE \E k \in Keys, m \in MaxStales : Begin(c, k, m)
      BY <2>1, BeginReads
  <2>2. CASE CancelCtx(c) \/ WaitCtx(c)
      BY <2>2, PatienceReads
  <2>3. CASE Hit(c)
      BY <2>3, HitReads
  <2>4. CASE Join(c) \/ \E p \in Calls : StartLoad(c, p)
      BY <2>4, LookupReads
  <2>5. CASE WaitDone(c)
      BY <2>5, WaitDoneReads
  <2>6. CASE Leave(c)
      BY <2>6, LeaveReads
  <2> QED
      BY <1>3, <2>1, <2>2, <2>3, <2>4, <2>5, <2>6 DEF CallerStep, Lookup
<1> QED
    BY <1>1, <1>2, <1>3 DEF Next

LEMMA ReadsInvariant == Spec => [](SharingInv /\ ReadsInv)
<1>1. Init => SharingInv /\ ReadsInv
    BY SharingInit, ReadsInit
<1>2. SharingInv /\ ReadsInv /\ [Next]_vars => (SharingInv /\ ReadsInv)'
    BY SharingStep, ReadsStep
<1> QED
    BY <1>1, <1>2, PTL DEF Spec

-----------------------------------------------------------------------------
(***************************************************************************)
(* No request gets a value older than one that was served before it began,  *)
(* from the entry, a load it joins, or a stale copy (GetOrLoad, wait, load).*)
(***************************************************************************)
THEOREM ReadsMonotone == Spec => []MonotonicReads
<1>1. ReadsInv => MonotonicReads
    BY DEF ReadsInv, AnswerRight, MonotonicReads
<1> QED
    BY <1>1, ReadsInvariant, PTL

(***************************************************************************)
(* What is marked as stale had outlived its ttl when the request began,     *)
(* although the stale copy is taken only when the load has failed (wait).   *)
(***************************************************************************)
THEOREM StaleIsExpired == Spec => []StaleMeansExpired
<1>1. ReadsInv => StaleMeansExpired
    BY DEF ReadsInv, AnswerRight, StaleMeansExpired
<1> QED
    BY <1>1, ReadsInvariant, PTL

(***************************************************************************)
(* The entry of a key only moves forward: no abandoned load, however slow,  *)
(* overwrites a newer value (load).                                         *)
(***************************************************************************)
THEOREM EntriesForward == Spec => EntriesMonotone
<1>1. ASSUME SharingInv, ReadsInv, [Next]_vars, NEW k \in Keys PROVE EntryForward(k)
  <2>1. CASE \E p \in Calls : Commit(p)
      BY <1>1, <2>1, CommitForward
  <2>2. CASE entries' = entries
    <3>1. entries[k] /= None => entries[k].version \in Nat /\ entries[k].storedAt \in Nat
        BY <1>1, Types DEF SharingInv
    <3> QED
        BY <2>2, <3>1 DEF EntryForward
  <2>3. CASE ~\E p \in Calls : Commit(p)
    <3>1. \A c \in Callers : CallerStep(c) => entries' = entries
      <4> TAKE c \in Callers
      <4>1. (\E j \in Keys, m \in MaxStales : Begin(c, j, m)) => entries' = entries
          BY DEF Begin
      <4>2. CancelCtx(c) \/ WaitCtx(c) \/ Hit(c) => entries' = entries
          BY DEF CancelCtx, WaitCtx, Hit
      <4>3. Join(c) \/ (\E p \in Calls : StartLoad(c, p)) => entries' = entries
          BY DEF Join, StartLoad
      <4>4. WaitDone(c) \/ Leave(c) => entries' = entries
          BY DEF WaitDone, Leave
      <4> QED
          BY <4>1, <4>2, <4>3, <4>4 DEF CallerStep, Lookup
    <3>2. \A p \in Calls : Fetch(p) \/ Stamp(p) => entries' = entries
        BY DEF Fetch, FetchOK, FetchFail, FetchCanceled, Stamp
    <3>3. Tick \/ (\E j \in Keys : UpstreamAdvance(j)) \/ UNCHANGED vars => entries' = entries
        BY DEF Tick, UpstreamAdvance, vars
    <3> QED
        BY <1>1, <2>2, <2>3, <3>1, <3>2, <3>3 DEF Next, LoadStep
  <2> QED
      BY <2>1, <2>3
<1>2. SharingInv /\ ReadsInv /\ [Next]_vars => [\A k \in Keys : EntryForward(k)]_vars
    BY <1>1
<1> QED
    BY <1>2, ReadsInvariant, PTL DEF Spec, EntriesMonotone

-----------------------------------------------------------------------------
(***************************************************************************)
(* What the refinements need besides: no request has read the clock ahead   *)
(* of time, and only one whose own context has ended stops waiting for it.  *)
(***************************************************************************)
StartsPast == \A c \in Callers : req[c].start <= now

LeaveEnded == \A c \in Callers : req[c].pc = "leave" => req[c].ctxDone

RequestsInv == StartsPast /\ LeaveEnded

(* What AnswerWith leaves of a request. *)
LEMMA AnswerLeaves ==
    ASSUME TypeOK, NEW c \in Callers, NEW r, AnswerWith(c, r)
    PROVE  /\ \A d \in Callers \ {c} : req'[d] = req[d]
           /\ req'[c].pc = "answered" /\ req'[c].start \in {0, req[c].start}
           /\ ~req'[c].ctxDone /\ req'[c].result = r
           /\ IF r.state \in {"fresh", "stale"}
              THEN req'[c].key = req[c].key /\ req'[c].floor = req[c].floor
              ELSE req'[c].key = None /\ req'[c].floor = 0
<1>1. req[c] \in Req /\ req \in [Callers -> Req]
    BY DEF TypeOK
<1> DEFINE v == [req[c] EXCEPT !.pc = "answered", !.on = None, !.maxStale = 0,
                               !.ctxDone = FALSE, !.result = r]
           f == [IdleReq EXCEPT !.pc = "answered", !.result = r]
<1>2. CASE r.state \in {"fresh", "stale"}
  <2>1. req' = [req EXCEPT ![c] = v]
      BY <1>2 DEF AnswerWith
  <2>2. /\ v.pc = "answered" /\ v.start = req[c].start /\ ~v.ctxDone /\ v.result = r
        /\ v.key = req[c].key /\ v.floor = req[c].floor
      BY <1>1 DEF Req
  <2> HIDE DEF v
  <2> QED
      BY <1>1, <1>2, <2>1, <2>2
<1>3. CASE r.state \notin {"fresh", "stale"}
  <2>1. req' = [req EXCEPT ![c] = f]
      BY <1>3 DEF AnswerWith
  <2>2. /\ f.pc = "answered" /\ f.start = 0 /\ ~f.ctxDone /\ f.result = r
        /\ f.key = None /\ f.floor = 0
      BY DEF IdleReq
  <2> HIDE DEF f
  <2> QED
      BY <1>1, <1>3, <2>1, <2>2
<1> QED
    BY <1>2, <1>3

LEMMA RequestsInvStep ==
    ASSUME SharingInv, RequestsInv, [Next]_vars
    PROVE  RequestsInv'
<1>0. /\ TypeOK /\ now \in Nat /\ req \in [Callers -> Req]
      /\ \A c \in Callers : req[c] \in Req /\ req[c].start \in Nat
  <2>1. TypeOK
      BY DEF SharingInv
  <2> QED
      BY <2>1, Types DEF TypeOK
<1>1. ASSUME NEW c \in Callers, NEW r, UNCHANGED now, AnswerWith(c, r) PROVE RequestsInv'
    BY <1>0, <1>1, AnswerLeaves DEF RequestsInv, StartsPast, LeaveEnded
<1>2. ASSUME NEW c \in Callers, Hit(c) \/ WaitDone(c) \/ Leave(c) PROVE RequestsInv'
    BY <1>1, <1>2 DEF Hit, WaitDone, Leave
<1>3. ASSUME NEW c \in Callers, NEW r, UNCHANGED now, req' = [req EXCEPT ![c] = r],
             r.start \in {now, req[c].start}, r.pc = "leave" => r.ctxDone
      PROVE  RequestsInv'
  <2>1. req'[c] = r /\ \A d \in Callers \ {c} : req'[d] = req[d]
      BY <1>0, <1>3
  <2> QED
      BY <1>0, <1>3, <2>1 DEF RequestsInv, StartsPast, LeaveEnded
<1>4. ASSUME NEW c \in Callers, NEW k \in Keys, NEW m \in MaxStales, Begin(c, k, m)
      PROVE  RequestsInv'
  <2> DEFINE r == [IdleReq EXCEPT !.pc = "lookup", !.key = k, !.start = now,
                                  !.maxStale = m, !.floor = served[k]]
  <2>1. req' = [req EXCEPT ![c] = r] /\ UNCHANGED now
      BY <1>4 DEF Begin
  <2>2. r.start = now /\ r.pc = "lookup"
      BY DEF IdleReq
  <2> HIDE DEF r
  <2> QED
      BY <1>3, <2>1, <2>2
<1>5. ASSUME NEW c \in Callers, CancelCtx(c) PROVE RequestsInv'
  <2> DEFINE r == [req[c] EXCEPT !.ctxDone = TRUE]
  <2>1. req' = [req EXCEPT ![c] = r] /\ UNCHANGED now
      BY <1>5 DEF CancelCtx
  <2>2. r.start = req[c].start /\ r.ctxDone
      BY <1>0 DEF Req
  <2> HIDE DEF r
  <2> QED
      BY <1>3, <2>1, <2>2
<1>6. ASSUME NEW c \in Callers, WaitCtx(c) PROVE RequestsInv'
  <2> DEFINE r == [req[c] EXCEPT !.pc = "leave"]
  <2>1. req' = [req EXCEPT ![c] = r] /\ UNCHANGED now /\ req[c].ctxDone
      BY <1>6 DEF WaitCtx
  <2>2. r.start = req[c].start /\ r.ctxDone = req[c].ctxDone
      BY <1>0 DEF Req
  <2> HIDE DEF r
  <2> QED
      BY <1>3, <2>1, <2>2
<1>7. ASSUME NEW c \in Callers, Join(c) \/ \E p \in Calls : StartLoad(c, p) PROVE RequestsInv'
  <2>1. PICK p : req' = [req EXCEPT ![c] = [req[c] EXCEPT !.pc = "wait", !.on = p]]
      BY <1>7 DEF Join, StartLoad
  <2> DEFINE r == [req[c] EXCEPT !.pc = "wait", !.on = p]
  <2>2. req' = [req EXCEPT ![c] = r] /\ UNCHANGED now
      BY <1>7, <2>1 DEF Join, StartLoad
  <2>3. r.start = req[c].start /\ r.pc = "wait"
      BY <1>0 DEF Req
  <2> HIDE DEF r
  <2> QED
      BY <1>3, <2>2, <2>3
<1>8. ASSUME NEW p \in Calls, LoadStep(p) PROVE RequestsInv'
  <2>1. UNCHANGED <<now, req>>
      BY <1>8 DEF LoadStep, Fetch, FetchOK, FetchFail, FetchCanceled, Stamp, Commit
  <2> QED
      BY <2>1 DEF RequestsInv, StartsPast, LeaveEnded
<1>9. ASSUME Tick \/ (\E k \in Keys : UpstreamAdvance(k)) \/ UNCHANGED vars PROVE RequestsInv'
  <2>1. UNCHANGED req /\ now' \in {now, now + 1}
      BY <1>9 DEF Tick, UpstreamAdvance, vars
  <2> QED
      BY <1>0, <2>1 DEF RequestsInv, StartsPast, LeaveEnded
<1> QED
    BY <1>2, <1>4, <1>5, <1>6, <1>7, <1>8, <1>9 DEF Next, CallerStep, Lookup

LEMMA RequestsInvariant == Spec => []RequestsInv
<1>1. Init => RequestsInv
    BY DEF Init, RequestsInv, StartsPast, LeaveEnded, IdleReq
<1> QED
    BY <1>1, RequestsInvStep, SharingInvariant, PTL DEF Spec

-----------------------------------------------------------------------------
(* CacheStore implements LoadSlot *)

(* A load as the services see it, of the call that runs it. *)
Seen(q) ==
    [phase    |-> IF q.phase = "closed" THEN "free" ELSE q.phase,
     key      |-> IF q.phase = "closed" THEN None ELSE q.key,
     ok       |-> q.phase = "closed" \/ q.err = "none",
     version  |-> IF q.phase = "closed" THEN 0 ELSE q.version,
     loadedAt |-> IF q.phase = "closed" THEN 0 ELSE q.loadedAt]

Loads == [p \in Calls |-> LoadOf(p)]

LEMMA LoadsSeen ==
    /\ \A p \in Calls : Loads[p] = Seen(call[p])
    /\ \A p \in Calls : Loads'[p] = Seen(call'[p])
BY DEF Loads, LoadOf, Seen

(* A step that changes how one load is seen. *)
LEMMA OneLoadSeen ==
    ASSUME NEW p \in Calls, \A d \in Calls \ {p} : Seen(call'[d]) = Seen(call[d])
    PROVE  Loads' = [Loads EXCEPT ![p] = Seen(call'[p])]
<1>1. Loads' = [d \in Calls |-> Seen(call'[d])] /\ Loads = [d \in Calls |-> Seen(call[d])]
    BY DEF Loads, LoadOf, Seen
<1> HIDE DEF Loads
<1> QED
    BY <1>1

LEMMA NoLoadSeen ==
    ASSUME \A d \in Calls : Seen(call'[d]) = Seen(call[d])
    PROVE  Loads' = Loads
<1>1. Loads' = [d \in Calls |-> Seen(call'[d])] /\ Loads = [d \in Calls |-> Seen(call[d])]
    BY DEF Loads, LoadOf, Seen
<1> QED
    BY <1>1

(* Two loads with the same fields are the same. *)
LEMMA LoadEquality ==
    ASSUME NEW x \in Slot!Load, NEW y \in Slot!Load, x.phase = y.phase, x.key = y.key,
           x.ok <=> y.ok, x.version = y.version, x.loadedAt = y.loadedAt
    PROVE  x = y
BY DEF Slot!Load

LEMMA SeenType == ASSUME NEW q \in Call PROVE Seen(q) \in Slot!Load
<1>1. /\ q.phase \in {"free", "loading", "fetched", "stamped", "closed"}
      /\ q.key \in Keys \cup {None} /\ q.version \in Nat /\ q.loadedAt \in Nat
    BY DEF Call
<1> QED
    BY <1>1 DEF Seen, Slot!Load

(* What is seen of a load that is free or closed. *)
LEMMA SlotFree ==
    /\ Slot!FreeLoad \in Slot!Load
    /\ \A q : q.phase = "closed" \/ q = FreeCall => Seen(q) = Slot!FreeLoad
<1>1. Slot!FreeLoad \in Slot!Load
    BY DEF Slot!FreeLoad, Slot!Load
<1>2. ASSUME NEW q, q.phase = "closed" PROVE Seen(q) = Slot!FreeLoad
    BY <1>2 DEF Seen, Slot!FreeLoad
<1>3. Seen(FreeCall) = Slot!FreeLoad
  <2>1. /\ FreeCall.phase = "free" /\ FreeCall.key = None /\ FreeCall.err = "none"
        /\ FreeCall.version = 0 /\ FreeCall.loadedAt = 0
      BY DEF FreeCall
  <2> QED
      BY <2>1 DEF Seen, Slot!FreeLoad
<1> QED
    BY <1>1, <1>2, <1>3

(* Who waits on a load is not seen. *)
LEMMA WaitersUnseen ==
    ASSUME NEW q \in Call, NEW r \in Call, q.phase = r.phase, q.key = r.key,
           q.err = r.err, q.version = r.version, q.loadedAt = r.loadedAt
    PROVE  Seen(q) = Seen(r)
BY DEF Seen

(* Nor is whether a closed one has been collected. *)
LEMMA DropUnseen ==
    ASSUME NEW calls \in [Calls -> Call], NEW c \in Callers, req[c].on \in Calls
    PROVE  \A d \in Calls : Seen(DropReference(c, calls)[d]) = Seen(calls[d])
<1> DEFINE p == req[c].on
<1>1. CASE calls[p].phase = "closed" /\ Referrers(p) = {c}
  <2>1. DropReference(c, calls) = [calls EXCEPT ![p] = FreeCall]
      BY <1>1 DEF DropReference
  <2>2. Seen(FreeCall) = Seen(calls[p])
      BY <1>1, SlotFree
  <2> QED
      BY <2>1, <2>2
<1>2. CASE ~(calls[p].phase = "closed" /\ Referrers(p) = {c})
    BY <1>2 DEF DropReference
<1> QED
    BY <1>1, <1>2

LEMMA SlotStart ==
    ASSUME SharingInv, SharingInv', RequestsInv, NEW c \in Callers, NEW p \in Calls,
           StartLoad(c, p)
    PROVE  \E k \in Keys : Slot!StartLoad(k, p)
<1> DEFINE k == req[c].key
           q == [FreeCall EXCEPT !.phase = "loading", !.key = k, !.waiters = 1]
<1>1. TypeOK /\ k \in Keys
    BY DEF SharingInv, StartLoad, RequestsPlaced
<1>2. Slot!Expired(k)
  <2>1. /\ req[c].start \in Nat /\ now \in Nat /\ req[c].start <= now /\ TTL \in Nat
        /\ entries[k] /= None => entries[k].storedAt \in Nat
      BY <1>1, Types, ConstantsAssumption DEF RequestsInv, StartsPast
  <2> QED
      BY <2>1 DEF StartLoad, FreshFor, Slot!Expired
<1>3. call' = [call EXCEPT ![p] = q] /\ call[p].phase = "free"
    BY DEF StartLoad
<1>4. call'[p] = q /\ \A d \in Calls \ {p} : call'[d] = call[d]
    BY <1>1, <1>3 DEF TypeOK
<1> DEFINE w == [Slot!FreeLoad EXCEPT !.phase = "loading", !.key = k]
<1>5. Seen(q) = w
  <2>1. q \in Call /\ Seen(q) \in Slot!Load
    <3>1. call' \in [Calls -> Call]
        BY DEF SharingInv, TypeOK
    <3> QED
        BY <1>4, <3>1, SeenType
  <2>2. /\ q.phase = "loading" /\ q.key = k /\ q.err = "none" /\ q.version = 0
        /\ q.loadedAt = 0
      BY DEF FreeCall
  <2>3. w.phase = "loading" /\ w.key = k /\ w.ok /\ w.version = 0 /\ w.loadedAt = 0
      BY DEF Slot!FreeLoad
  <2>4. w \in Slot!Load
      BY <1>1, SlotFree DEF Slot!Load
  <2>5. /\ Seen(q).phase = "loading" /\ Seen(q).key = k /\ Seen(q).ok
        /\ Seen(q).version = 0 /\ Seen(q).loadedAt = 0
      BY <2>2 DEF Seen
  <2> HIDE DEF w, q
  <2> QED
      BY <2>1, <2>3, <2>4, <2>5, LoadEquality
<1>6. Loads' = [Loads EXCEPT ![p] = w]
    BY <1>4, <1>5, OneLoadSeen
<1>7. Loads[p].phase = "free"
  <2>1. Loads[p] = Seen(call[p])
      BY LoadsSeen
  <2>2. Seen(call[p]).phase = "free"
      BY <1>3 DEF Seen
  <2> QED
      BY <2>1, <2>2
<1> QED
    BY <1>1, <1>2, <1>6, <1>7 DEF StartLoad, Slot!StartLoad, Loads

(* What is seen of a load between its start and its critical section. *)
LEMMA SeenActive ==
    ASSUME TypeOK, NEW p \in Calls, call[p].phase \in Active
    PROVE  /\ call[p] \in Call /\ Loads[p] = Seen(call[p]) /\ Loads[p] \in Slot!Load
           /\ Loads[p].phase = call[p].phase /\ Loads[p].key = call[p].key
           /\ Loads[p].ok <=> call[p].err = "none"
           /\ Loads[p].version = call[p].version /\ Loads[p].loadedAt = call[p].loadedAt
<1>1. call[p] \in Call /\ Loads[p] = Seen(call[p])
    BY LoadsSeen DEF TypeOK
<1>2. Seen(call[p]) \in Slot!Load
    BY <1>1, SeenType
<1>3. /\ Seen(call[p]).phase = call[p].phase /\ Seen(call[p]).key = call[p].key
      /\ Seen(call[p]).ok <=> call[p].err = "none"
      /\ Seen(call[p]).version = call[p].version /\ Seen(call[p]).loadedAt = call[p].loadedAt
    BY DEF Seen
<1> QED
    BY <1>1, <1>2, <1>3

(* A load in flight goes on. *)
LEMMA ActiveMoves ==
    ASSUME TypeOK, TypeOK', NEW p \in Calls, NEW q, call' = [call EXCEPT ![p] = q],
           q.phase \in Active, NEW w \in Slot!Load, w.phase = q.phase, w.key = q.key,
           w.ok <=> q.err = "none", w.version = q.version, w.loadedAt = q.loadedAt
    PROVE  Loads' = [Loads EXCEPT ![p] = w]
<1>1. call'[p] = q /\ \A d \in Calls \ {p} : call'[d] = call[d]
    BY DEF TypeOK
<1>2. q \in Call
    BY <1>1 DEF TypeOK
<1>3. Seen(q) \in Slot!Load
    BY <1>2, SeenType
<1>4. /\ Seen(q).phase = q.phase /\ Seen(q).key = q.key
      /\ Seen(q).ok <=> q.err = "none"
      /\ Seen(q).version = q.version /\ Seen(q).loadedAt = q.loadedAt
    BY DEF Seen
<1>5. Seen(q) = w
    BY <1>3, <1>4, LoadEquality
<1> QED
    BY <1>1, <1>5, OneLoadSeen

LEMMA SlotFetchOK ==
    ASSUME SharingInv, SharingInv', NEW p \in Calls, FetchOK(p)
    PROVE  Slot!FetchOK(p)
<1> DEFINE k == call[p].key
           q == [call[p] EXCEPT !.phase = "fetched", !.version = upstream[k]]
           w == [Loads[p] EXCEPT !.phase = "fetched", !.version = upstream[k]]
<1>1. TypeOK /\ TypeOK' /\ k \in Keys /\ upstream[k] \in Nat /\ call[p].phase = "loading"
    BY DEF SharingInv, TypeOK, LoadsPlaced, FetchOK
<1>2. UNCHANGED <<now, upstream, entries, inFlight>> /\ call' = [call EXCEPT ![p] = q]
    BY DEF FetchOK
<1>3. /\ call[p] \in Call /\ Loads[p] \in Slot!Load
      /\ Loads[p].phase = "loading" /\ Loads[p].key = k /\ Loads[p].loadedAt = call[p].loadedAt
      /\ Loads[p].ok <=> call[p].err = "none"
    BY <1>1, SeenActive
<1>4. /\ q.phase = "fetched" /\ q.key = k /\ q.err = call[p].err /\ q.version = upstream[k]
      /\ q.loadedAt = call[p].loadedAt
    BY <1>3 DEF Call
<1>5. /\ w \in Slot!Load /\ w.phase = "fetched" /\ w.key = Loads[p].key /\ w.ok = Loads[p].ok
      /\ w.version = upstream[k] /\ w.loadedAt = Loads[p].loadedAt
    BY <1>1, <1>3 DEF Slot!Load
<1>6. Loads' = [Loads EXCEPT ![p] = w]
  <2> HIDE DEF q, w
  <2>1. w.ok <=> q.err = "none"
      BY <1>3, <1>4, <1>5
  <2>2. q.phase \in Active
      BY <1>4
  <2>3. w \in Slot!Load
      BY <1>5
  <2>4. w.phase = q.phase /\ w.key = q.key /\ w.version = q.version /\ w.loadedAt = q.loadedAt
      BY <1>3, <1>4, <1>5
  <2>5. call' = [call EXCEPT ![p] = q]
      BY <1>2
  <2> QED
      BY <1>1, <2>1, <2>2, <2>3, <2>4, <2>5, ActiveMoves
<1>7. Loads' = [Loads EXCEPT ![p].phase = "fetched",
                             ![p].version = upstream[[j \in Keys |-> j][Loads[p].key]]]
  <2>1. [j \in Keys |-> j][Loads[p].key] = k
      BY <1>1, <1>3
  <2> QED
      BY <1>6, <2>1 DEF Loads
<1> QED
    BY <1>2, <1>3, <1>7 DEF Slot!FetchOK, Loads

LEMMA SlotFetchFail ==
    ASSUME SharingInv, SharingInv', NEW p \in Calls, FetchFail(p) \/ FetchCanceled(p)
    PROVE  Slot!FetchFail(p)
<1>1. TypeOK /\ TypeOK' /\ call[p].phase = "loading"
    BY DEF SharingInv, FetchFail, FetchCanceled
<1>2. PICK e \in {"upstream", "canceled"} :
          call' = [call EXCEPT ![p] = [@ EXCEPT !.phase = "fetched", !.err = e]]
    BY DEF FetchFail, FetchCanceled
<1> DEFINE q == [call[p] EXCEPT !.phase = "fetched", !.err = e]
           w == [Loads[p] EXCEPT !.phase = "fetched", !.ok = FALSE]
<1>3. /\ call[p] \in Call /\ Loads[p] \in Slot!Load /\ Loads[p].phase = "loading"
      /\ Loads[p].key = call[p].key /\ Loads[p].version = call[p].version
      /\ Loads[p].loadedAt = call[p].loadedAt
    BY <1>1, SeenActive
<1>4. /\ q.phase = "fetched" /\ q.key = call[p].key /\ q.err = e /\ q.version = call[p].version
      /\ q.loadedAt = call[p].loadedAt
    BY <1>3 DEF Call
<1>5. /\ w \in Slot!Load /\ w.phase = "fetched" /\ w.key = Loads[p].key /\ ~w.ok
      /\ w.version = Loads[p].version /\ w.loadedAt = Loads[p].loadedAt
    BY <1>3 DEF Slot!Load
<1>6. Loads' = [Loads EXCEPT ![p] = w]
  <2>1. call' = [call EXCEPT ![p] = q]
      BY <1>2
  <2> HIDE DEF q, w
  <2>2. q.phase \in Active /\ (w.ok <=> q.err = "none")
      BY <1>4, <1>5
  <2>3. w.phase = q.phase /\ w.key = q.key /\ w.version = q.version /\ w.loadedAt = q.loadedAt
      BY <1>3, <1>4, <1>5
  <2>4. w \in Slot!Load
      BY <1>5
  <2> QED
      BY <1>1, <2>1, <2>2, <2>3, <2>4, ActiveMoves
<1>7. Loads' = [Loads EXCEPT ![p].phase = "fetched", ![p].ok = FALSE]
    BY <1>6 DEF Loads
<1>8. UNCHANGED <<now, upstream, entries, inFlight>>
    BY DEF FetchFail, FetchCanceled
<1> QED
    BY <1>3, <1>7, <1>8 DEF Slot!FetchFail, Loads

LEMMA SlotStamp ==
    ASSUME SharingInv, SharingInv', NEW p \in Calls, Stamp(p)
    PROVE  Slot!Stamp(p)
<1> DEFINE q == [call[p] EXCEPT !.phase = "stamped", !.loadedAt = now]
           w == [Loads[p] EXCEPT !.phase = "stamped", !.loadedAt = now]
<1>1. TypeOK /\ TypeOK' /\ call[p].phase = "fetched" /\ now \in Nat
    BY DEF SharingInv, Stamp, TypeOK
<1>2. call' = [call EXCEPT ![p] = q] /\ UNCHANGED <<now, upstream, entries, inFlight>>
    BY DEF Stamp
<1>3. /\ call[p] \in Call /\ Loads[p] \in Slot!Load /\ Loads[p].phase = "fetched"
      /\ Loads[p].key = call[p].key /\ Loads[p].version = call[p].version
      /\ Loads[p].ok <=> call[p].err = "none"
    BY <1>1, SeenActive
<1>4. /\ q.phase = "stamped" /\ q.key = call[p].key /\ q.err = call[p].err
      /\ q.version = call[p].version /\ q.loadedAt = now
    BY <1>3 DEF Call
<1>5. /\ w \in Slot!Load /\ w.phase = "stamped" /\ w.key = Loads[p].key /\ w.ok = Loads[p].ok
      /\ w.version = Loads[p].version /\ w.loadedAt = now
    BY <1>1, <1>3 DEF Slot!Load
<1>6. Loads' = [Loads EXCEPT ![p] = w]
  <2> HIDE DEF q, w
  <2>1. q.phase \in Active /\ (w.ok <=> q.err = "none")
      BY <1>3, <1>4, <1>5
  <2>2. w.phase = q.phase /\ w.key = q.key /\ w.version = q.version /\ w.loadedAt = q.loadedAt
      BY <1>3, <1>4, <1>5
  <2>3. w \in Slot!Load /\ call' = [call EXCEPT ![p] = q]
      BY <1>2, <1>5
  <2> QED
      BY <1>1, <2>1, <2>2, <2>3, ActiveMoves
<1>7. Loads' = [Loads EXCEPT ![p].phase = "stamped", ![p].loadedAt = now]
    BY <1>6 DEF Loads
<1> QED
    BY <1>2, <1>3, <1>7 DEF Slot!Stamp, Loads

(* A load counts exactly when its critical section does not find it superseded. *)
LEMMA SlotCommit ==
    ASSUME SharingInv, SharingInv', NEW p \in Calls, Commit(p)
    PROVE  Slot!Commit(p)
<1> DEFINE k == call[p].key
<1>1. TypeOK /\ call[p].phase = "stamped" /\ k \in Keys
    BY DEF SharingInv, Commit, LoadsPlaced
<1>2. /\ Loads[p].phase = "stamped" /\ Loads[p].key = k /\ Loads[p].version = call[p].version
      /\ Loads[p].loadedAt = call[p].loadedAt
      /\ Loads[p].ok <=> call[p].err = "none"
    BY <1>1, SeenActive
<1>3. Slot!Counts(p) <=> ~Superseded(p)
  <2>1. inFlight[k] = p => ~call[p].abandoned
      BY <1>1, ConstantsAssumption DEF SharingInv, InFlightActive
  <2>2. Slot!Counts(p) <=> inFlight[k] = p
      BY <1>2 DEF Slot!Counts, Loads
  <2> QED
      BY <2>1, <2>2 DEF Superseded
<1>4. Loads' = [Loads EXCEPT ![p] = Slot!FreeLoad]
  <2>1. PICK q : call' = [call EXCEPT ![p] = q] /\ (q.phase = "closed" \/ q = FreeCall)
    <3>1. call[p] \in Call
        BY <1>1 DEF TypeOK
    <3> DEFINE y == [call[p] EXCEPT !.phase = "closed"]
               z == [call[p] EXCEPT !.phase = "closed",
                                    !.stale = IF call[p].err = "none" THEN None ELSE entries[k]]
    <3>2. y.phase = "closed" /\ z.phase = "closed"
        BY <3>1 DEF Call
    <3>3. \/ call' = [call EXCEPT ![p] = FreeCall] \/ call' = [call EXCEPT ![p] = y]
          \/ call' = [call EXCEPT ![p] = z]
        BY DEF Commit
    <3> HIDE DEF y, z
    <3> QED
        BY <3>2, <3>3
  <2>2. call'[p] = q /\ \A d \in Calls \ {p} : call'[d] = call[d]
      BY <1>1, <2>1 DEF TypeOK
  <2>3. Seen(q) = Slot!FreeLoad
      BY <2>1, SlotFree
  <2> QED
      BY <2>2, <2>3, OneLoadSeen
<1>5. entries' = IF Slot!Counts(p) /\ Loads[p].ok
                 THEN [entries EXCEPT ![k] = [version  |-> Loads[p].version,
                                              storedAt |-> Loads[p].loadedAt]]
                 ELSE entries
    BY <1>2, <1>3 DEF Commit
<1>6. inFlight' = (IF Slot!Counts(p) THEN [inFlight EXCEPT ![k] = None] ELSE inFlight)
    BY <1>3 DEF Commit
<1>7. UNCHANGED <<now, upstream>>
    BY DEF Commit
<1> QED
    BY <1>2, <1>4, <1>5, <1>6, <1>7 DEF Slot!Commit, Loads

(* The last waiter to leave abandons the load; nobody else's leaving is seen. *)
LEMMA SlotLeave ==
    ASSUME SharingInv, SharingInv', NEW c \in Callers, Leave(c)
    PROVE  (\E k \in Keys : Slot!Abandon(k)) \/ UNCHANGED Slot!slotVars
<1> DEFINE p == req[c].on
           k == req[c].key
           mine == inFlight[k] = p
           last == mine /\ call[p].waiters = 1
           left == IF mine THEN [call EXCEPT ![p].waiters = @ - 1] ELSE call
<1>1. /\ TypeOK /\ call \in [Calls -> Call] /\ call' \in [Calls -> Call] /\ p \in Calls /\ k \in Keys
      /\ inFlight \in [Keys -> Calls \cup {None}]
    BY DEF SharingInv, TypeOK, RequestsPlaced, Leave
<1>2. UNCHANGED <<now, upstream, entries>>
    BY DEF Leave
<1>3. CASE last
  <2> DEFINE z == [call[p] EXCEPT !.waiters = @ - 1, !.abandoned = TRUE, !.canceled = TRUE]
  <2>1. call'[p] = z /\ \A d \in Calls \ {p} : call'[d] = call[d]
      BY <1>1, <1>3 DEF Leave
  <2>2. /\ call[p] \in Call /\ z \in Call
        /\ z.phase = call[p].phase /\ z.key = call[p].key /\ z.err = call[p].err
        /\ z.version = call[p].version /\ z.loadedAt = call[p].loadedAt
    <3>1. call[p] \in Call /\ call'[p] \in Call
        BY <1>1
    <3>2. z \in Call
      <4> HIDE DEF z
      <4> QED
          BY <2>1, <3>1
    <3> QED
        BY <3>1, <3>2 DEF Call
  <2>3. Seen(z) = Seen(call[p])
    <3> HIDE DEF z
    <3> QED
        BY <2>2, WaitersUnseen
  <2>4. \A d \in Calls : Seen(call'[d]) = Seen(call[d])
    <3> HIDE DEF z
    <3> QED
        BY <2>1, <2>3
  <2>5. Loads' = Loads
      BY <2>4, NoLoadSeen
  <2>6. inFlight[k] /= None /\ inFlight' = [inFlight EXCEPT ![k] = None]
      BY <1>1, <1>3, ConstantsAssumption DEF Leave
  <2> QED
      BY <1>1, <1>2, <2>5, <2>6 DEF Slot!Abandon, Loads
<1>4. CASE ~last
  <2>1. call' = DropReference(c, left) /\ UNCHANGED inFlight
      BY <1>4 DEF Leave
  <2>2. left \in [Calls -> Call] /\ \A d \in Calls : Seen(left[d]) = Seen(call[d])
    <3>1. CASE ~mine
        BY <1>1, <3>1
    <3>2. CASE mine
      <4> DEFINE y == [call[p] EXCEPT !.waiters = @ - 1]
      <4>1. call[p] \in Call /\ call[p].waiters \in Nat /\ call[p].waiters > 0
          BY <1>1, <3>2, ConstantsAssumption DEF SharingInv, WaitersCounted, Call
      <4>2. left = [call EXCEPT ![p] = y]
          BY <3>2
      <4>3. /\ y \in Call /\ y.phase = call[p].phase /\ y.key = call[p].key
            /\ y.err = call[p].err /\ y.version = call[p].version /\ y.loadedAt = call[p].loadedAt
        <5>1. call[p].waiters - 1 \in Nat
            BY <4>1
        <5> QED
            BY <4>1, <5>1 DEF Call
      <4> HIDE DEF y
      <4>4. Seen(y) = Seen(call[p])
          BY <4>1, <4>3, WaitersUnseen
      <4> HIDE DEF left
      <4> QED
          BY <1>1, <4>2, <4>3, <4>4
    <3> QED
        BY <3>1, <3>2
  <2> HIDE DEF left
  <2>3. \A d \in Calls : Seen(call'[d]) = Seen(call[d])
      BY <1>1, <2>1, <2>2, DropUnseen
  <2>4. Loads' = Loads
      BY <2>3, NoLoadSeen
  <2> QED
      BY <1>2, <2>1, <2>4 DEF Slot!slotVars, Loads
<1> QED
    BY <1>3, <1>4

(* Nor are the other steps of requests. *)
LEMMA SlotRequests ==
    ASSUME SharingInv, SharingInv', NEW c \in Callers,
           \/ \E k \in Keys, m \in MaxStales : Begin(c, k, m)
           \/ CancelCtx(c) \/ Hit(c) \/ Join(c) \/ WaitDone(c) \/ WaitCtx(c)
    PROVE  UNCHANGED Slot!slotVars
<1>1. UNCHANGED <<now, upstream, entries, inFlight>>
    BY DEF Begin, CancelCtx, Hit, Join, WaitDone, WaitCtx
<1>2. call \in [Calls -> Call] /\ call' \in [Calls -> Call]
    BY DEF SharingInv, TypeOK
<1>3. \A d \in Calls : Seen(call'[d]) = Seen(call[d])
  <2>1. CASE Join(c)
    <3> DEFINE p == inFlight[req[c].key]
               z == [call[p] EXCEPT !.waiters = @ + 1]
    <3>1. p \in Calls /\ call' = [call EXCEPT ![p] = z]
        BY <2>1 DEF Join, SharingInv, TypeOK, RequestsPlaced
    <3>2. call'[p] = z /\ \A d \in Calls \ {p} : call'[d] = call[d]
        BY <1>2, <3>1
    <3>3. call[p] \in Call /\ call'[p] \in Call
        BY <1>2, <3>1
    <3>4. /\ z.phase = call[p].phase /\ z.key = call[p].key /\ z.err = call[p].err
          /\ z.version = call[p].version /\ z.loadedAt = call[p].loadedAt
        BY <3>3 DEF Call
    <3> HIDE DEF z
    <3> QED
        BY <3>2, <3>3, <3>4, WaitersUnseen
  <2>2. CASE WaitDone(c)
    <3>1. req[c].on \in Calls /\ call' = DropReference(c, call)
        BY <2>2 DEF WaitDone, SharingInv, RequestsPlaced
    <3> QED
        BY <1>2, <3>1, DropUnseen
  <2>3. CASE ~Join(c) /\ ~WaitDone(c)
      BY <2>3 DEF Begin, CancelCtx, Hit, WaitCtx
  <2> QED
      BY <2>1, <2>2, <2>3
<1>4. Loads' = Loads
    BY <1>3, NoLoadSeen
<1> QED
    BY <1>1, <1>4 DEF Slot!slotVars, Loads

LEMMA SlotStep ==
    ASSUME SharingInv, SharingInv', RequestsInv, [Next]_vars
    PROVE  [Slot!Next]_Slot!slotVars
<1>1. ASSUME NEW c \in Callers, CallerStep(c) PROVE [Slot!Next]_Slot!slotVars
  <2>1. CASE \E p \in Calls : StartLoad(c, p)
      BY <2>1, SlotStart DEF Slot!Next
  <2>2. CASE Leave(c)
      BY <2>2, SlotLeave DEF Slot!Next
  <2>3. CASE ~(\E p \in Calls : StartLoad(c, p)) /\ ~Leave(c)
      BY <1>1, <2>3, SlotRequests DEF CallerStep, Lookup
  <2> QED
      BY <2>1, <2>2, <2>3
<1>2. ASSUME NEW p \in Calls, LoadStep(p) PROVE Slot!Next
    BY <1>2, SlotFetchOK, SlotFetchFail, SlotStamp, SlotCommit DEF LoadStep, Fetch, Slot!Next
<1>3. ASSUME Tick PROVE Slot!Tick
    BY <1>3 DEF Tick, Slot!Tick, LoadOf
<1>4. ASSUME NEW k \in Keys, UpstreamAdvance(k) PROVE Slot!UpstreamAdvance(k)
    BY <1>4 DEF UpstreamAdvance, Slot!UpstreamAdvance, LoadOf
<1>5. CASE UNCHANGED vars
    BY <1>5 DEF vars, Slot!slotVars, LoadOf
<1> QED
    BY <1>1, <1>2, <1>3, <1>4, <1>5 DEF Next, Slot!Next

(***************************************************************************)
(* CacheStore implements LoadSlot: however requests come, share and leave,  *)
(* the services see a store that starts a load of a key only when the entry *)
(* has outlived its ttl and no load of it counts, and whose entry only the  *)
(* load that counts replaces.                                               *)
(***************************************************************************)
THEOREM StoreLoadsOneAtATime == Spec => LoadsOneAtATime
<1>1. Init => Slot!Init
  <2> SUFFICES ASSUME Init PROVE Slot!Init
      OBVIOUS
  <2>1. Loads = [p \in Calls |-> Slot!FreeLoad]
    <3>1. \A p \in Calls : Seen(call[p]) = Slot!FreeLoad
        BY SlotFree DEF Init
    <3> QED
        BY <3>1 DEF Loads, LoadOf, Seen
  <2> QED
      BY <2>1 DEF Init, Slot!Init, Loads
<1>2. SharingInv /\ SharingInv' /\ RequestsInv /\ [Next]_vars => [Slot!Next]_Slot!slotVars
    BY SlotStep
<1> QED
    BY <1>1, <1>2, SharingInvariant, RequestsInvariant, PTL DEF Spec, LoadsOneAtATime, Slot!Spec

-----------------------------------------------------------------------------
(* CacheStore implements CacheContract *)

(* A request as its caller sees it. *)
Asked(r) ==
    [pc      |-> CASE r.pc = "idle"     -> "idle"
                   [] r.pc = "answered" -> "answered"
                   [] OTHER             -> "pending",
     key     |-> r.key,
     floor   |-> r.floor,
     ctxDone |-> r.ctxDone,
     outcome |-> IF r.result.state \in {"fresh", "stale"} THEN "value" ELSE r.result.state,
     version |-> r.result.version]

Asks == [c \in Callers |-> AskOf(c)]

Ask == [pc : {"idle", "pending", "answered"}, key : Keys \cup {None}, floor : Nat,
        ctxDone : BOOLEAN, outcome : {"none", "value", "upstream", "canceled", "ctx"},
        version : Nat]

LEMMA AskEquality ==
    ASSUME NEW x \in Ask, NEW y \in Ask, x.pc = y.pc, x.key = y.key, x.floor = y.floor,
           x.ctxDone <=> y.ctxDone, x.outcome = y.outcome, x.version = y.version
    PROVE  x = y
BY DEF Ask

LEMMA AskedFields ==
    ASSUME NEW r \in Req
    PROVE  /\ Asked(r) \in Ask
           /\ Asked(r).pc = "idle" <=> r.pc = "idle"
           /\ Asked(r).pc = "answered" <=> r.pc = "answered"
           /\ Asked(r).pc = "pending" <=> r.pc \in {"lookup", "wait", "leave"}
           /\ Asked(r).key = r.key /\ Asked(r).floor = r.floor
           /\ Asked(r).ctxDone <=> r.ctxDone
           /\ Asked(r).outcome = IF r.result.state \in {"fresh", "stale"} THEN "value"
                                 ELSE r.result.state
           /\ Asked(r).version = r.result.version
<1> DEFINE pc == CASE r.pc = "idle" -> "idle" [] r.pc = "answered" -> "answered"
                   [] OTHER -> "pending"
           outcome == IF r.result.state \in {"fresh", "stale"} THEN "value" ELSE r.result.state
<1>1. /\ r.pc \in {"idle", "lookup", "wait", "leave", "answered"} /\ r.key \in Keys \cup {None}
      /\ r.floor \in Nat /\ r.ctxDone \in BOOLEAN /\ r.result \in Result
    BY DEF Req
<1>2. outcome \in {"none", "value", "upstream", "canceled", "ctx"} /\ r.result.version \in Nat
    BY <1>1 DEF Result
<1>3. /\ pc \in {"idle", "pending", "answered"}
      /\ pc = "idle" <=> r.pc = "idle"
      /\ pc = "answered" <=> r.pc = "answered"
      /\ pc = "pending" <=> r.pc \in {"lookup", "wait", "leave"}
    BY <1>1
<1>4. Asked(r) = [pc |-> pc, key |-> r.key, floor |-> r.floor, ctxDone |-> r.ctxDone,
                  outcome |-> outcome, version |-> r.result.version]
    BY DEF Asked
<1> HIDE DEF pc, outcome
<1>5. Asked(r) \in Ask
    BY <1>1, <1>2, <1>3, <1>4 DEF Ask
<1>6. /\ Asked(r).pc = pc /\ Asked(r).key = r.key /\ Asked(r).floor = r.floor
      /\ Asked(r).ctxDone <=> r.ctxDone
      /\ Asked(r).outcome = outcome /\ Asked(r).version = r.result.version
    BY <1>4
<1> QED
    BY <1>3, <1>5, <1>6 DEF outcome

LEMMA AsksAsked ==
    /\ \A c \in Callers : Asks[c] = Asked(req[c])
    /\ \A c \in Callers : Asks'[c] = Asked(req'[c])
BY DEF Asks, AskOf, Asked

(* What the caller of one request sees, in a step that changes only this one. *)
LEMMA OneAsked ==
    ASSUME TypeOK, TypeOK', NEW c \in Callers, \A d \in Callers \ {c} : req'[d] = req[d],
           NEW w \in Ask,
           LET r == req'[c]
           IN  /\ w.pc = "idle" <=> r.pc = "idle"
               /\ w.pc = "answered" <=> r.pc = "answered"
               /\ w.key = r.key /\ w.floor = r.floor
               /\ w.ctxDone <=> r.ctxDone
               /\ w.outcome = IF r.result.state \in {"fresh", "stale"} THEN "value"
                              ELSE r.result.state
               /\ w.version = r.result.version
    PROVE  Asks' = [Asks EXCEPT ![c] = w]
<1>1. req'[c] \in Req
    BY DEF TypeOK
<1>2. Asked(req'[c]) = w
  <2>1. w.pc \in {"idle", "pending", "answered"}
      BY DEF Ask
  <2>2. Asked(req'[c]) \in Ask /\ Asked(req'[c]).pc \in {"idle", "pending", "answered"}
      BY <1>1, AskedFields DEF Ask
  <2> QED
      BY <1>1, <2>1, <2>2, AskedFields, AskEquality
<1>3. Asks' = [d \in Callers |-> Asked(req'[d])] /\ Asks = [d \in Callers |-> Asked(req[d])]
    BY DEF Asks, AskOf, Asked
<1> HIDE DEF Asks
<1> QED
    BY <1>2, <1>3

LEMMA ContractIdle ==
    /\ Contract!Idle \in Ask /\ Contract!Idle.pc = "idle" /\ Contract!Idle.key = None
    /\ Contract!Idle.floor = 0 /\ ~Contract!Idle.ctxDone /\ Contract!Idle.outcome = "none"
    /\ Contract!Idle.version = 0
BY DEF Contract!Idle, Ask

LEMMA ContractBegin ==
    ASSUME SharingInv, SharingInv', NEW c \in Callers, NEW k \in Keys, NEW m \in MaxStales,
           Begin(c, k, m)
    PROVE  Contract!Begin(c, k)
<1> DEFINE r == [IdleReq EXCEPT !.pc = "lookup", !.key = k, !.start = now,
                                !.maxStale = m, !.floor = served[k]]
           w == [Contract!Idle EXCEPT !.pc = "pending", !.key = k, !.floor = served[k]]
<1>1. TypeOK /\ TypeOK' /\ req[c] \in Req /\ served[k] \in Nat
    BY DEF SharingInv, TypeOK
<1>2. req' = [req EXCEPT ![c] = r] /\ req[c].pc \in {"idle", "answered"}
    BY DEF Begin
<1>3. req'[c] = r /\ \A d \in Callers \ {c} : req'[d] = req[d]
    BY <1>1, <1>2 DEF TypeOK
<1>4. /\ r.pc = "lookup" /\ r.key = k /\ r.floor = served[k] /\ ~r.ctxDone
      /\ r.result.state = "none" /\ r.result.version = 0
    BY DEF IdleReq, NoResult
<1>5. /\ w \in Ask /\ w.pc = "pending" /\ w.key = k /\ w.floor = served[k] /\ ~w.ctxDone
      /\ w.outcome = "none" /\ w.version = 0
    BY <1>1, ContractIdle DEF Ask
<1>6. Asks' = [Asks EXCEPT ![c] = w]
  <2> HIDE DEF r, w
  <2> QED
      BY <1>1, <1>3, <1>4, <1>5, OneAsked
<1>7. Asks[c].pc /= "pending"
    BY <1>1, <1>2, AsksAsked, AskedFields
<1>8. UNCHANGED <<upstream, served>>
    BY DEF Begin
<1> QED
    BY <1>6, <1>7, <1>8 DEF Contract!Begin, Asks

(* A value that is in the promised range is a promised answer. *)
LEMMA ContractValue ==
    ASSUME SharingInv, SharingInv', NEW c \in Callers, NEW r \in Result, AnswerWith(c, r),
           r.state \in {"fresh", "stale"}, req[c].pc \in {"lookup", "wait"},
           req[c].floor <= r.version, r.version <= upstream[req[c].key], UNCHANGED upstream
    PROVE  Contract!AnswerValue(c)
<1> DEFINE k == req[c].key
           w == [Asks[c] EXCEPT !.pc = "answered", !.ctxDone = FALSE, !.outcome = "value",
                                !.version = r.version]
<1>1. /\ TypeOK /\ TypeOK' /\ req[c] \in Req /\ k \in Keys
    BY DEF SharingInv, TypeOK, RequestsPlaced
<1>2. /\ r.version \in Nat /\ req[c].floor \in Nat /\ upstream[k] \in Nat
      /\ served \in [Keys -> Nat]
    BY <1>1, Types DEF Result, TypeOK
<1>3. Asks[c] \in Ask /\ Asks[c].pc = "pending" /\ Asks[c].key = k /\ Asks[c].floor = req[c].floor
    BY <1>1, AsksAsked, AskedFields
<1>4. /\ w \in Ask /\ w.pc = "answered" /\ w.key = k /\ w.floor = req[c].floor /\ ~w.ctxDone
      /\ w.outcome = "value" /\ w.version = r.version
    BY <1>2, <1>3 DEF Ask
<1>5. Asks' = [Asks EXCEPT ![c] = w]
  <2> HIDE DEF w
  <2>1. /\ \A d \in Callers \ {c} : req'[d] = req[d]
        /\ req'[c].pc = "answered" /\ ~req'[c].ctxDone /\ req'[c].result = r
        /\ req'[c].key = k /\ req'[c].floor = req[c].floor
      BY <1>1, AnswerLeaves
  <2> QED
      BY <1>1, <1>4, <2>1, OneAsked
<1>6. Asks' = [Asks EXCEPT ![c].pc = "answered", ![c].ctxDone = FALSE,
                           ![c].outcome = "value", ![c].version = r.version]
    BY <1>5 DEF Asks
<1>7. served' = [served EXCEPT ![k] = IF r.version > @ THEN r.version ELSE @]
    BY <1>1, <1>2 DEF AnswerWith
<1>8. r.version \in Asks[c].floor .. upstream[k]
    BY <1>2, <1>3
<1> QED
    BY <1>3, <1>6, <1>7, <1>8 DEF Contract!AnswerValue, Asks

(* So are the upstream's error and the end of the request's own context. *)
LEMMA ContractFailure ==
    ASSUME SharingInv, SharingInv', NEW c \in Callers, NEW s \in {"upstream", "ctx"},
           AnswerWith(c, Failure(s)), req[c].pc \in {"wait", "leave"},
           s = "ctx" => req[c].ctxDone, UNCHANGED upstream
    PROVE  Contract!AnswerError(c) \/ Contract!AnswerCtx(c)
<1> DEFINE w == [Contract!Idle EXCEPT !.pc = "answered", !.outcome = s]
<1>1. TypeOK /\ TypeOK' /\ req[c] \in Req
    BY DEF SharingInv, TypeOK
<1>2. Failure(s).state = s /\ Failure(s).version = 0
    BY DEF Failure, NoResult
<1>3. Asks[c].pc = "pending" /\ (Asks[c].ctxDone <=> req[c].ctxDone)
    BY <1>1, AsksAsked, AskedFields
<1>4. /\ w \in Ask /\ w.pc = "answered" /\ w.key = None /\ w.floor = 0 /\ ~w.ctxDone
      /\ w.outcome = s /\ w.version = 0
    BY ContractIdle DEF Ask
<1>5. Asks' = [Asks EXCEPT ![c] = w]
  <2> HIDE DEF w
  <2>1. /\ \A d \in Callers \ {c} : req'[d] = req[d]
        /\ req'[c].pc = "answered" /\ ~req'[c].ctxDone /\ req'[c].result = Failure(s)
        /\ req'[c].key = None /\ req'[c].floor = 0
      BY <1>1, <1>2, AnswerLeaves
  <2> QED
      BY <1>1, <1>2, <1>4, <2>1, OneAsked
<1>6. UNCHANGED served
    BY <1>2 DEF AnswerWith
<1>7. CASE s = "upstream"
    BY <1>3, <1>5, <1>6, <1>7 DEF Contract!AnswerError, Asks
<1>8. CASE s = "ctx"
    BY <1>3, <1>5, <1>6, <1>8 DEF Contract!AnswerCtx, Asks
<1> QED
    BY <1>7, <1>8

LEMMA ContractHit ==
    ASSUME SharingInv, SharingInv', ReadsInv, NEW c \in Callers, Hit(c)
    PROVE  Contract!AnswerValue(c)
<1> DEFINE k == req[c].key
           e == entries[k]
           r == [state |-> "fresh", version |-> e.version, storedAt |-> e.storedAt]
<1>1. TypeOK /\ k \in Keys /\ e /= None /\ req[c].pc = "lookup" /\ UNCHANGED upstream
    BY DEF SharingInv, RequestsPlaced, Hit, FreshFor
<1>2. /\ e.version \in Nat /\ e.storedAt \in Nat /\ Known(k) = e.version /\ served[k] \in Nat
      /\ req[c].floor \in Nat
    BY <1>1, Types
<1>3. req[c].floor <= e.version /\ e.version <= upstream[k]
  <2>1. req[c].floor <= served[k] /\ served[k] <= Known(k)
      BY <1>1 DEF ReadsInv, RequestAhead, ServedKnown
  <2>2. e.version <= upstream[k]
      BY <1>1 DEF ReadsInv, EntriesPast
  <2> QED
      BY <1>2, <2>1, <2>2
<1>4. r \in Result /\ r.state = "fresh" /\ r.version = e.version /\ AnswerWith(c, r)
    BY <1>2 DEF Hit, Result
<1> HIDE DEF r
<1> QED
    BY <1>1, <1>3, <1>4, ContractValue

(* The value a waiter takes over was fetched, or kept as stale, after it began. *)
LEMMA ContractWaitDone ==
    ASSUME SharingInv, SharingInv', ReadsInv, NEW c \in Callers, WaitDone(c)
    PROVE  Contract!AnswerValue(c) \/ Contract!AnswerError(c) \/ Contract!AnswerCtx(c)
<1> DEFINE k == req[c].key
           p == req[c].on
           q == call[p]
<1>1. /\ TypeOK /\ k \in Keys /\ p \in Calls /\ q.phase = "closed" /\ q.key = k
      /\ req[c].pc = "wait" /\ UNCHANGED upstream /\ AnswerWith(c, Outcome(c))
    BY DEF SharingInv, RequestsPlaced, WaitDone
<1>2. Outcome(c) \in Result
    BY <1>1, OutcomeType
<1>3. /\ Known(k) \in Nat /\ upstream[k] \in Nat /\ req[c].floor \in Nat /\ q.version \in Nat
      /\ q.stale /= None => q.stale.version \in Nat
      /\ Known(k) <= upstream[k]
  <2>1. entries[k] /= None => Known(k) = entries[k].version /\ entries[k].version <= upstream[k]
      BY <1>1, Types DEF ReadsInv, EntriesPast
  <2>2. entries[k] = None => Known(k) = 0
      BY DEF Known
  <2>3. upstream[k] \in Nat /\ Known(k) \in Nat
      BY <1>1, Types
  <2> QED
      BY <1>1, <2>1, <2>2, <2>3, Types
<1>4. RequestAhead(c) /\ LoadKnown(p)
    BY <1>1 DEF ReadsInv, LoadsAhead
<1>5. CASE q.err = "none"
  <2>1. Outcome(c).state = "fresh" /\ Outcome(c).version = q.version
      BY <1>5 DEF Outcome
  <2>2. req[c].floor <= q.version /\ q.version <= Known(k)
      BY <1>1, <1>4, <1>5 DEF RequestAhead, LoadKnown, Pending
  <2>3. q.version <= upstream[k]
      BY <1>3, <2>2
  <2> QED
      BY <1>1, <1>2, <2>1, <2>2, <2>3, ContractValue
<1>6. CASE q.err /= "none" /\ q.stale /= None /\ q.loadedAt - q.stale.storedAt <= req[c].maxStale
  <2>1. Outcome(c).state = "stale" /\ Outcome(c).version = q.stale.version
      BY <1>6 DEF Outcome
  <2>2. req[c].floor <= q.stale.version /\ q.stale.version <= Known(k)
      BY <1>1, <1>4, <1>6 DEF RequestAhead, LoadKnown, Pending
  <2>3. q.stale.version <= upstream[k]
      BY <1>3, <1>6, <2>2
  <2> QED
      BY <1>1, <1>2, <2>1, <2>2, <2>3, ContractValue
<1>7. CASE q.err /= "none" /\ ~(q.stale /= None /\ q.loadedAt - q.stale.storedAt <= req[c].maxStale)
  <2>1. Outcome(c) = Failure(q.err)
      BY <1>7 DEF Outcome
  <2>2. q.err = "upstream"
    <3>1. q.err \in {"none", "upstream", "canceled"}
        BY <1>1 DEF TypeOK, Call
    <3>2. q.err /= "canceled"
        BY <1>1 DEF SharingInv, CancelMeansAbandoned
    <3> QED
        BY <1>7, <3>1, <3>2
  <2>3. AnswerWith(c, Failure("upstream"))
      BY <1>1, <2>1, <2>2
  <2> QED
      BY <1>1, <2>3, ContractFailure
<1> QED
    BY <1>5, <1>6, <1>7

LEMMA ContractLeave ==
    ASSUME SharingInv, SharingInv', RequestsInv, NEW c \in Callers, Leave(c)
    PROVE  Contract!AnswerError(c) \/ Contract!AnswerCtx(c)
<1>1. /\ req[c].pc = "leave" /\ req[c].ctxDone /\ AnswerWith(c, Failure("ctx"))
      /\ UNCHANGED upstream
    BY DEF Leave, RequestsInv, LeaveEnded
<1> QED
    BY <1>1, ContractFailure

LEMMA ContractCancel ==
    ASSUME SharingInv, SharingInv', NEW c \in Callers, CancelCtx(c)
    PROVE  Contract!CancelCtx(c)
<1> DEFINE r == [req[c] EXCEPT !.ctxDone = TRUE]
           w == [Asks[c] EXCEPT !.ctxDone = TRUE]
<1>1. TypeOK /\ TypeOK' /\ req[c] \in Req /\ req[c].pc \in {"lookup", "wait"}
    BY DEF SharingInv, TypeOK, CancelCtx
<1>2. req' = [req EXCEPT ![c] = r]
    BY DEF CancelCtx
<1>3. req'[c] = r /\ \A d \in Callers \ {c} : req'[d] = req[d]
    BY <1>1, <1>2 DEF TypeOK
<1>4. /\ r.pc = req[c].pc /\ r.key = req[c].key /\ r.floor = req[c].floor /\ r.ctxDone
      /\ r.result = req[c].result
    BY <1>1 DEF Req
<1>5. Asks[c] = Asked(req[c]) /\ Asks[c] \in Ask /\ Asks[c].pc = "pending"
    BY <1>1, AsksAsked, AskedFields
<1>6. /\ w \in Ask /\ w.pc = "pending" /\ w.key = Asks[c].key /\ w.floor = Asks[c].floor
      /\ w.ctxDone /\ w.outcome = Asks[c].outcome /\ w.version = Asks[c].version
    BY <1>5 DEF Ask
<1>7. Asks' = [Asks EXCEPT ![c] = w]
  <2> HIDE DEF r, w
  <2>1. /\ Asks[c].key = req[c].key /\ Asks[c].floor = req[c].floor
        /\ Asks[c].outcome = IF req[c].result.state \in {"fresh", "stale"} THEN "value"
                             ELSE req[c].result.state
        /\ Asks[c].version = req[c].result.version
      BY <1>1, <1>5, AskedFields
  <2>2. /\ w.pc = "idle" <=> r.pc = "idle"
        /\ w.pc = "answered" <=> r.pc = "answered"
      BY <1>1, <1>4, <1>6
  <2>3. /\ w.key = r.key /\ w.floor = r.floor
        /\ w.ctxDone <=> r.ctxDone
        /\ w.outcome = IF r.result.state \in {"fresh", "stale"} THEN "value"
                       ELSE r.result.state
        /\ w.version = r.result.version
      BY <1>4, <1>6, <2>1
  <2> QED
      BY <1>1, <1>3, <1>6, <2>2, <2>3, OneAsked
<1>8. Asks' = [Asks EXCEPT ![c].ctxDone = TRUE]
    BY <1>7 DEF Asks
<1>9. UNCHANGED <<upstream, served>>
    BY DEF CancelCtx
<1> QED
    BY <1>5, <1>8, <1>9 DEF Contract!CancelCtx, Asks

(* How a request that goes on waiting is answered is not seen. *)
LEMMA ContractWaiting ==
    ASSUME SharingInv, SharingInv', NEW c \in Callers,
           Join(c) \/ (\E p \in Calls : StartLoad(c, p)) \/ WaitCtx(c)
    PROVE  UNCHANGED Contract!contractVars
<1>1. /\ TypeOK /\ TypeOK' /\ req[c] \in Req /\ req[c].pc \in {"lookup", "wait"}
      /\ req \in [Callers -> Req]
    BY DEF SharingInv, TypeOK, Join, StartLoad, WaitCtx
<1>2. PICK r : /\ req' = [req EXCEPT ![c] = r]
               /\ r.pc \in {"wait", "leave"} /\ r.key = req[c].key /\ r.floor = req[c].floor
               /\ r.ctxDone = req[c].ctxDone /\ r.result = req[c].result
  <2>1. CASE WaitCtx(c)
    <3> DEFINE z == [req[c] EXCEPT !.pc = "leave"]
    <3>1. req' = [req EXCEPT ![c] = z]
        BY <2>1 DEF WaitCtx
    <3>2. /\ z.pc = "leave" /\ z.key = req[c].key /\ z.floor = req[c].floor
          /\ z.ctxDone = req[c].ctxDone /\ z.result = req[c].result
        BY <1>1 DEF Req
    <3> HIDE DEF z
    <3> QED
        BY <3>1, <3>2
  <2>2. CASE Join(c) \/ \E p \in Calls : StartLoad(c, p)
    <3>1. PICK p : req' = [req EXCEPT ![c] = [req[c] EXCEPT !.pc = "wait", !.on = p]]
        BY <2>2 DEF Join, StartLoad
    <3> DEFINE z == [req[c] EXCEPT !.pc = "wait", !.on = p]
    <3>2. req' = [req EXCEPT ![c] = z]
        BY <3>1
    <3>3. /\ z.pc = "wait" /\ z.key = req[c].key /\ z.floor = req[c].floor
          /\ z.ctxDone = req[c].ctxDone /\ z.result = req[c].result
        BY <1>1 DEF Req
    <3> HIDE DEF z
    <3> QED
        BY <3>2, <3>3
  <2> QED
      BY <2>1, <2>2
<1>3. req'[c] = r /\ \A d \in Callers \ {c} : req'[d] = req[d]
    BY <1>1, <1>2
<1>4. Asked(r) = Asked(req[c])
    BY <1>1, <1>2 DEF Asked
<1>5. Asks' = Asks
  <2>1. \A d \in Callers : Asked(req'[d]) = Asked(req[d])
      BY <1>3, <1>4
  <2>2. Asks' = [d \in Callers |-> Asked(req'[d])] /\ Asks = [d \in Callers |-> Asked(req[d])]
      BY DEF Asks, AskOf, Asked
  <2> QED
      BY <2>1, <2>2
<1>6. UNCHANGED <<upstream, served>>
    BY DEF Join, StartLoad, WaitCtx
<1> QED
    BY <1>5, <1>6 DEF Contract!contractVars, Asks

LEMMA ContractStep ==
    ASSUME SharingInv, SharingInv', ReadsInv, RequestsInv, [Next]_vars
    PROVE  [Contract!Next]_Contract!contractVars
<1>1. ASSUME NEW c \in Callers, CallerStep(c) PROVE [Contract!Next]_Contract!contractVars
  <2>1. CASE \E k \in Keys, m \in MaxStales : Begin(c, k, m)
      BY <2>1, ContractBegin DEF Contract!Next
  <2>2. CASE CancelCtx(c)
      BY <2>2, ContractCancel DEF Contract!Next
  <2>3. CASE Hit(c)
      BY <2>3, ContractHit DEF Contract!Next
  <2>4. CASE WaitDone(c)
      BY <2>4, ContractWaitDone DEF Contract!Next
  <2>5. CASE Leave(c)
      BY <2>5, ContractLeave DEF Contract!Next
  <2>6. CASE Join(c) \/ (\E p \in Calls : StartLoad(c, p)) \/ WaitCtx(c)
      BY <2>6, ContractWaiting
  <2> QED
      BY <1>1, <2>1, <2>2, <2>3, <2>4, <2>5, <2>6 DEF CallerStep, Lookup
<1>2. ASSUME (\E p \in Calls : LoadStep(p)) \/ Tick \/ UNCHANGED vars
      PROVE  UNCHANGED Contract!contractVars
  <2>1. UNCHANGED <<upstream, req, served>>
      BY <1>2 DEF LoadStep, Fetch, FetchOK, FetchFail, FetchCanceled, Stamp, Commit, Tick, vars
  <2> QED
      BY <2>1 DEF Contract!contractVars, AskOf
<1>3. ASSUME NEW k \in Keys, UpstreamAdvance(k) PROVE Contract!UpstreamAdvance(k)
    BY <1>3 DEF UpstreamAdvance, Contract!UpstreamAdvance, AskOf
<1> QED
    BY <1>1, <1>2, <1>3 DEF Next, Contract!Next

(***************************************************************************)
(* CacheStore implements CacheContract: however loads are shared, abandoned *)
(* and overtaken, GetOrLoad returns a version between the newest answered   *)
(* when it began and the upstream's, or the upstream's error, or the end of *)
(* the caller's own context.                                                *)
(***************************************************************************)
THEOREM StoreKeepsContract == Spec => KeepsContract
<1>1. Init => Contract!Init
  <2> SUFFICES ASSUME Init PROVE Contract!Init
      OBVIOUS
  <2>1. Asked(IdleReq) = Contract!Idle
      BY DEF Asked, IdleReq, NoResult, Contract!Idle
  <2>2. Asks = [c \in Callers |-> Contract!Idle]
    <3>1. \A c \in Callers : Asked(req[c]) = Contract!Idle
        BY <2>1 DEF Init
    <3> QED
        BY <3>1 DEF Asks, AskOf, Asked
  <2> QED
      BY <2>2 DEF Init, Contract!Init, Asks
<1>2. SharingInv /\ SharingInv' /\ ReadsInv /\ RequestsInv /\ [Next]_vars
          => [Contract!Next]_Contract!contractVars
    BY ContractStep
<1> QED
    BY <1>1, <1>2, ReadsInvariant, RequestsInvariant, PTL
       DEF Spec, KeepsContract, Contract!Spec
=============================================================================
