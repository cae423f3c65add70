------------------------- MODULE DatasourceDiscovery -------------------------
(***************************************************************************)
(* Provider.discoverDatasourceID (internal/adapters/nightingale/client.go): *)
(* before its first query the program asks Nightingale which data source    *)
(* to query.  Callers that ask at once share one discovery, the answer is   *)
(* kept for ever, a failure is not kept.                                    *)
(*                                                                         *)
(* A caller is the loader of a snapshot: its context ends when everybody    *)
(* who wanted the snapshot has gone, or at the upstream timeout.  The first *)
(* caller, the leader, runs the discovery in its own context: when that     *)
(* ends, the discovery fails for all who follow.                            *)
(***************************************************************************)
EXTENDS FiniteSets

CONSTANTS
    Callers,     \* the loaders that may be in progress at once
    Flights,     \* identities of datasourceDiscovery values
    Ids,         \* the data sources Nightingale may name
    None         \* no flight; no data source

ASSUME DiscoveryAssumption ==
    /\ IsFiniteSet(Callers)
    /\ None \notin Flights \cup Ids

VARIABLES
    datasourceID,    \* Provider.datasourceID
    datasourceFly,   \* Provider.datasourceFly
    flight,          \* flight[f]: the discovery f
    caller,          \* caller[c]: the call of c
    answered         \* history: the data sources callers were told

vars == <<datasourceID, datasourceFly, flight, caller, answered>>

Flight == [done : BOOLEAN, id : Ids \cup {None}]

Caller == [pc : {"idle", "enter", "leading", "fetched", "waiting"}, canceled : BOOLEAN,
           flight : Flights \cup {None}, id : Ids \cup {None}, knew : BOOLEAN]

IdleCaller == [pc |-> "idle", canceled |-> FALSE, flight |-> None, id |-> None, knew |-> FALSE]

OpenFlight == [done |-> FALSE, id |-> None]

Init ==
    /\ datasourceID = None
    /\ datasourceFly = None
    /\ flight = [f \in Flights |-> OpenFlight]
    /\ caller = [c \in Callers |-> IdleCaller]
    /\ answered = {}

-----------------------------------------------------------------------------
(* A query is about to be made; knew records whether the answer is there. *)
Begin(c) ==
    /\ caller[c].pc = "idle"
    /\ caller' = [caller EXCEPT ![c] = [IdleCaller EXCEPT !.pc = "enter",
                                                          !.knew = datasourceID /= None]]
    /\ UNCHANGED <<datasourceID, datasourceFly, flight, answered>>

CancelCtx(c) ==
    /\ caller[c].pc /= "idle"
    /\ ~caller[c].canceled
    /\ caller' = [caller EXCEPT ![c].canceled = TRUE]
    /\ UNCHANGED <<datasourceID, datasourceFly, flight, answered>>

Answer(c, id) ==
    /\ caller' = [caller EXCEPT ![c] = IdleCaller]
    /\ answered' = answered \cup {id}

Fail(c) ==
    /\ caller' = [caller EXCEPT ![c] = IdleCaller]
    /\ UNCHANGED answered

Known(c) ==
    /\ caller[c].pc = "enter"
    /\ datasourceID /= None
    /\ Answer(c, datasourceID)
    /\ UNCHANGED <<datasourceID, datasourceFly, flight>>

Follow(c) ==
    /\ caller[c].pc = "enter"
    /\ datasourceID = None
    /\ datasourceFly /= None
    /\ caller' = [caller EXCEPT ![c] = [@ EXCEPT !.pc = "waiting", !.flight = datasourceFly]]
    /\ UNCHANGED <<datasourceID, datasourceFly, flight, answered>>

Unreferenced(f) == f /= datasourceFly /\ \A c \in Callers : caller[c].flight /= f

(* Mutant: whoever finds no answer starts a discovery. *)
LeadAlways(c, f) ==
    /\ caller[c].pc = "enter"
    /\ datasourceID = None
    /\ Unreferenced(f)
    /\ datasourceFly' = f
    /\ flight' = [flight EXCEPT ![f] = OpenFlight]
    /\ caller' = [caller EXCEPT ![c] = [@ EXCEPT !.pc = "leading", !.flight = f]]
    /\ UNCHANGED <<datasourceID, answered>>

(* Mutant: what is known is not looked at. *)
LeadUnknowing(c, f) ==
    /\ caller[c].pc = "enter"
    /\ datasourceFly = None
    /\ Unreferenced(f)
    /\ datasourceFly' = f
    /\ flight' = [flight EXCEPT ![f] = OpenFlight]
    /\ caller' = [caller EXCEPT ![c] = [@ EXCEPT !.pc = "leading", !.flight = f]]
    /\ UNCHANGED <<datasourceID, answered>>

Lead(c, f) ==
    /\ caller[c].pc = "enter"
    /\ datasourceID = None
    /\ datasourceFly = None
    /\ Unreferenced(f)
    /\ datasourceFly' = f
    /\ flight' = [flight EXCEPT ![f] = OpenFlight]
    /\ caller' = [caller EXCEPT ![c] = [@ EXCEPT !.pc = "leading", !.flight = f]]
    /\ UNCHANGED <<datasourceID, answered>>

(* Nightingale names the first Prometheus source of its list. *)
FetchOK(c, id) ==
    /\ caller[c].pc = "leading"
    /\ caller' = [caller EXCEPT ![c] = [@ EXCEPT !.pc = "fetched", !.id = id]]
    /\ UNCHANGED <<datasourceID, datasourceFly, flight, answered>>

(* No answer, none that can be used, or none before the leader's context ended. *)
FetchFail(c) ==
    /\ caller[c].pc = "leading"
    /\ caller' = [caller EXCEPT ![c] = [@ EXCEPT !.pc = "fetched", !.id = None]]
    /\ UNCHANGED <<datasourceID, datasourceFly, flight, answered>>

(* Mutant: a failed discovery stays where followers find it. *)
CommitFailureKept(c) ==
    LET f == caller[c].flight
        id == caller[c].id
    IN  /\ caller[c].pc = "fetched"
        /\ datasourceID' = IF id /= None THEN id ELSE datasourceID
        /\ datasourceFly' = IF id /= None THEN None ELSE datasourceFly
        /\ flight' = [flight EXCEPT ![f] = [done |-> TRUE, id |-> id]]
        /\ IF id /= None THEN Answer(c, id) ELSE Fail(c)

(* Mutant: the followers are not told of a failure. *)
CommitUntold(c) ==
    LET f == caller[c].flight
        id == caller[c].id
    IN  /\ caller[c].pc = "fetched"
        /\ datasourceID' = IF id /= None THEN id ELSE datasourceID
        /\ datasourceFly' = None
        /\ flight' = [flight EXCEPT ![f] = [done |-> id /= None, id |-> id]]
        /\ IF id /= None THEN Answer(c, id) ELSE Fail(c)

(* Under the lock: the answer, or the error, the end of the flight, and the news. *)
Commit(c) ==
    LET f == caller[c].flight
        id == caller[c].id
    IN  /\ caller[c].pc = "fetched"
        /\ datasourceID' = IF id /= None THEN id ELSE datasourceID
        /\ datasourceFly' = None
        /\ flight' = [flight EXCEPT ![f] = [done |-> TRUE, id |-> id]]
        /\ IF id /= None THEN Answer(c, id) ELSE Fail(c)

(* Mutant: the follower takes the flight's data source, error or not. *)
FollowUnchecked(c) ==
    LET f == caller[c].flight
    IN  /\ caller[c].pc = "waiting"
        /\ flight[f].done
        /\ Answer(c, flight[f].id)
        /\ UNCHANGED <<datasourceID, datasourceFly, flight>>

(* The leader's result, an error included, is the follower's. *)
FollowDone(c) ==
    LET f == caller[c].flight
    IN  /\ caller[c].pc = "waiting"
        /\ flight[f].done
        /\ IF flight[f].id /= None THEN Answer(c, flight[f].id) ELSE Fail(c)
        /\ UNCHANGED <<datasourceID, datasourceFly, flight>>

FollowCtx(c) ==
    /\ caller[c].pc = "waiting"
    /\ caller[c].canceled
    /\ Fail(c)
    /\ UNCHANGED <<datasourceID, datasourceFly, flight>>

(* The steps of a caller that depend on nobody. *)
Run(c) ==
    \/ Known(c) \/ Follow(c)
    \/ \E f \in Flights : Lead(c, f)
    \/ Commit(c) \/ FollowDone(c) \/ FollowCtx(c)

Fetch(c) == FetchFail(c) \/ \E id \in Ids : FetchOK(c, id)

Next == \E c \in Callers : Begin(c) \/ CancelCtx(c) \/ Run(c) \/ Fetch(c)

Spec == Init /\ [][Next]_vars

(* Goroutines run on, and the HTTP request of a leader ends, by the timeout of *)
(* its context at the latest.                                                  *)
FairSpec == Spec /\ \A c \in Callers : WF_vars(Run(c)) /\ WF_vars(Fetch(c))

-----------------------------------------------------------------------------
(* Properties *)

(* Every variable keeps its type. *)
TypeOK ==
    /\ datasourceID \in Ids \cup {None}
    /\ datasourceFly \in Flights \cup {None}
    /\ flight \in [Flights -> Flight]
    /\ caller \in [Callers -> Caller]
    /\ answered \subseteq Ids

Leaders == {c \in Callers : caller[c].pc \in {"leading", "fetched"}}

(***************************************************************************)
(* At any time at most one discovery runs, it is the one new callers would  *)
(* follow, and everybody who waits for another one finds it done: nobody    *)
(* joins a discovery that has ended, and a failure is tried again.          *)
(***************************************************************************)
FlightsLed ==
    /\ datasourceFly /= None <=> Leaders /= {}
    /\ \A c \in Leaders : caller[c].flight = datasourceFly
    /\ \A c, d \in Leaders : c = d
    /\ datasourceFly /= None => ~flight[datasourceFly].done
    /\ \A c \in Callers : caller[c].pc = "waiting" =>
          caller[c].flight = datasourceFly \/ flight[caller[c].flight].done

(* All queries of the program's life go to one data source (datasourceID). *)
OneSource == answered \subseteq {datasourceID}

(* Once the data source is known, no query waits for it or fails for want of it. *)
KnownNeverWaits == \A c \in Callers : caller[c].knew => caller[c].pc \in {"idle", "enter"}

(* Every caller gets an answer, whether it leads, follows or gives up. *)
CallersReturn == \A c \in Callers : caller[c].pc /= "idle" ~> caller[c].pc = "idle"
=============================================================================
