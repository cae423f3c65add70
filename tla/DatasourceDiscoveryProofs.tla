---------------------- MODULE DatasourceDiscoveryProofs ----------------------
(***************************************************************************)
(* For any number of callers, the properties of DatasourceDiscovery are     *)
(* invariants.  FlightsLed is inductive together with what is added here:   *)
(* a known data source ends all discoveries (KnownEndsFlights), a flight    *)
(* that ended well ended with the source that is kept (DoneAgrees), and who *)
(* leads or waits has a flight (FlightHeld).                                *)
(*                                                                         *)
(* TargetListing drives the discovery by steps that are its own, so all of   *)
(* this holds under it too; that the lists are as long as they were counted  *)
(* (ListsCounted) is what its own property rests on.                         *)
(***************************************************************************)
EXTENDS TargetListing, FiniteSetTheorems, TLAPS

FlightHeld ==
    \A c \in Callers : caller[c].pc \in {"leading", "fetched", "waiting"} =>
        caller[c].flight \in Flights

KnownEndsFlights == datasourceID /= None => datasourceFly = None

DoneAgrees ==
    \A c \in Callers :
        /\ caller[c].pc = "waiting"
        /\ flight[caller[c].flight].done
        /\ flight[caller[c].flight].id /= None
        => flight[caller[c].flight].id = datasourceID

KnewIsKnown ==
    \A c \in Callers : caller[c].knew =>
        /\ datasourceID /= None
        /\ caller[c].pc \in {"idle", "enter"}

IInv ==
    /\ TypeOK
    /\ FlightsLed
    /\ FlightHeld
    /\ KnownEndsFlights
    /\ DoneAgrees
    /\ KnewIsKnown
    /\ OneSource

(* The program starts with nothing known and nothing in flight. *)
LEMMA InitIInv == Init => IInv
<1> USE DiscoveryAssumption
<1> SUFFICES ASSUME Init PROVE IInv
    OBVIOUS
<1>1. TypeOK
    BY DEF Init, TypeOK, Flight, Caller, OpenFlight, IdleCaller
<1>2. FlightsLed
    BY DEF Init, FlightsLed, Leaders, IdleCaller, OpenFlight
<1>3. FlightHeld /\ KnownEndsFlights /\ DoneAgrees /\ KnewIsKnown /\ OneSource
    BY DEF Init, FlightHeld, KnownEndsFlights, DoneAgrees, KnewIsKnown, OneSource, IdleCaller
<1> QED
    BY <1>1, <1>2, <1>3 DEF IInv

(* Every variable keeps its type. *)
LEMMA TypeStep == TypeOK /\ FlightHeld /\ [Next]_vars => TypeOK'
<1> USE DiscoveryAssumption
<1> SUFFICES ASSUME TypeOK, FlightHeld, [Next]_vars PROVE TypeOK'
    OBVIOUS
<1>1. ASSUME NEW c \in Callers, Begin(c) PROVE TypeOK'
    BY <1>1 DEF TypeOK, Begin, Caller, IdleCaller
<1>2. ASSUME NEW c \in Callers, CancelCtx(c) PROVE TypeOK'
  <2>1. caller[c] \in Caller /\ [caller[c] EXCEPT !.canceled = TRUE] \in Caller
      BY <1>2 DEF TypeOK, Caller
  <2>2. caller' = [caller EXCEPT ![c] = [caller[c] EXCEPT !.canceled = TRUE]]
      BY <1>2 DEF CancelCtx
  <2>3. caller' \in [Callers -> Caller]
      BY <2>1, <2>2 DEF TypeOK
  <2> QED
      BY <1>2, <2>3 DEF TypeOK, CancelCtx
<1>3. ASSUME NEW c \in Callers, Known(c) PROVE TypeOK'
    BY <1>3 DEF TypeOK, Known, Answer, Caller, IdleCaller
<1>4. ASSUME NEW c \in Callers, Follow(c) PROVE TypeOK'
  <2>1. caller[c] \in Caller /\ [caller[c] EXCEPT !.pc = "waiting", !.flight = datasourceFly] \in Caller
      BY <1>4 DEF TypeOK, Follow, Caller
  <2>2. caller' = [caller EXCEPT ![c] = [caller[c] EXCEPT !.pc = "waiting", !.flight = datasourceFly]]
      BY <1>4 DEF Follow
  <2>3. caller' \in [Callers -> Caller]
      BY <2>1, <2>2 DEF TypeOK
  <2> QED
      BY <1>4, <2>3 DEF TypeOK, Follow
<1>5. ASSUME NEW c \in Callers, NEW f \in Flights, Lead(c, f) PROVE TypeOK'
  <2>1. caller[c] \in Caller /\ [caller[c] EXCEPT !.pc = "leading", !.flight = f] \in Caller
      BY <1>5 DEF TypeOK, Caller
  <2>2. caller' = [caller EXCEPT ![c] = [caller[c] EXCEPT !.pc = "leading", !.flight = f]]
      BY <1>5 DEF Lead
  <2>3. caller' \in [Callers -> Caller]
      BY <2>1, <2>2 DEF TypeOK
  <2> QED
      BY <1>5, <2>3 DEF TypeOK, Lead, Flight, OpenFlight
<1>6. ASSUME NEW c \in Callers, Commit(c) PROVE TypeOK'
  <2>1. caller[c] \in Caller /\ caller[c].id \in Ids \cup {None} /\ caller[c].flight \in Flights
      BY <1>6 DEF TypeOK, Commit, Caller, FlightHeld
  <2>2. flight' \in [Flights -> Flight] /\ caller' \in [Callers -> Caller]
    <3>1. IdleCaller \in Caller /\ [done |-> TRUE, id |-> caller[c].id] \in Flight
        BY <2>1 DEF Caller, IdleCaller, Flight
    <3>2. /\ caller' = [caller EXCEPT ![c] = IdleCaller]
          /\ flight' = [flight EXCEPT ![caller[c].flight] = [done |-> TRUE, id |-> caller[c].id]]
        BY <1>6 DEF Commit, Answer, Fail
    <3> QED
        BY <3>1, <3>2 DEF TypeOK
  <2>3. datasourceID' \in Ids \cup {None} /\ datasourceFly' = None /\ answered' \subseteq Ids
      BY <1>6, <2>1 DEF TypeOK, Commit, Answer, Fail
  <2> QED
      BY <2>2, <2>3 DEF TypeOK
<1>7. ASSUME NEW c \in Callers, FollowDone(c) PROVE TypeOK'
  <2>1. caller[c].flight \in Flights /\ flight[caller[c].flight].id \in Ids \cup {None}
      BY <1>7 DEF TypeOK, FollowDone, Flight, FlightHeld
  <2>2. /\ caller' = [caller EXCEPT ![c] = IdleCaller] /\ IdleCaller \in Caller
        /\ UNCHANGED <<datasourceID, datasourceFly, flight>>
      BY <1>7 DEF FollowDone, Answer, Fail, Caller, IdleCaller
  <2>3. answered' \subseteq Ids
      BY <1>7, <2>1 DEF TypeOK, FollowDone, Answer, Fail
  <2> QED
      BY <2>2, <2>3 DEF TypeOK
<1>8. ASSUME NEW c \in Callers, FollowCtx(c) PROVE TypeOK'
    BY <1>8 DEF TypeOK, FollowCtx, Fail, Caller, IdleCaller
<1>9. ASSUME NEW c \in Callers, FetchFail(c) PROVE TypeOK'
  <2>1. caller[c] \in Caller /\ [caller[c] EXCEPT !.pc = "fetched", !.id = None] \in Caller
      BY <1>9 DEF TypeOK, Caller
  <2>2. caller' = [caller EXCEPT ![c] = [caller[c] EXCEPT !.pc = "fetched", !.id = None]]
      BY <1>9 DEF FetchFail
  <2>3. caller' \in [Callers -> Caller]
      BY <2>1, <2>2 DEF TypeOK
  <2> QED
      BY <1>9, <2>3 DEF TypeOK, FetchFail
<1>10. ASSUME NEW c \in Callers, NEW id \in Ids, FetchOK(c, id) PROVE TypeOK'
  <2>1. caller[c] \in Caller /\ [caller[c] EXCEPT !.pc = "fetched", !.id = id] \in Caller
      BY <1>10 DEF TypeOK, Caller
  <2>2. caller' = [caller EXCEPT ![c] = [caller[c] EXCEPT !.pc = "fetched", !.id = id]]
      BY <1>10 DEF FetchOK
  <2>3. caller' \in [Callers -> Caller]
      BY <2>1, <2>2 DEF TypeOK
  <2> QED
      BY <1>10, <2>3 DEF TypeOK, FetchOK
<1>11. ASSUME UNCHANGED vars PROVE TypeOK'
    BY <1>11 DEF TypeOK, vars
<1> QED
    BY <1>1, <1>2, <1>3, <1>4, <1>5, <1>6, <1>7, <1>8, <1>9, <1>10, <1>11
    DEF Next, Run, Fetch

(* Who leads, who waits and what is in flight go together. *)
LEMMA SharingStep == IInv /\ [Next]_vars => (FlightsLed /\ FlightHeld)'
<1> USE DiscoveryAssumption
<1> SUFFICES ASSUME IInv, [Next]_vars PROVE FlightsLed' /\ FlightHeld'
    OBVIOUS
<1> USE DEF IInv, TypeOK
<1>1. ASSUME NEW c \in Callers, Begin(c) PROVE FlightsLed' /\ FlightHeld'
    BY <1>1 DEF Begin, FlightsLed, FlightHeld, Leaders, IdleCaller, Caller
<1>2. ASSUME NEW c \in Callers, CancelCtx(c) PROVE FlightsLed' /\ FlightHeld'
    BY <1>2 DEF CancelCtx, FlightsLed, FlightHeld, Leaders, Caller
<1>3. ASSUME NEW c \in Callers, Known(c) PROVE FlightsLed' /\ FlightHeld'
    BY <1>3 DEF Known, Answer, FlightsLed, FlightHeld, Leaders, IdleCaller, Caller
<1>4. ASSUME NEW c \in Callers, Follow(c) PROVE FlightsLed' /\ FlightHeld'
    BY <1>4 DEF Follow, FlightsLed, FlightHeld, Leaders, Caller
<1>5. ASSUME NEW c \in Callers, NEW f \in Flights, Lead(c, f) PROVE FlightsLed' /\ FlightHeld'
  <2>1. Leaders = {} /\ Leaders' = {c}
      BY <1>5 DEF Lead, FlightsLed, Leaders, Caller
  <2>2. /\ caller'[c].flight = f /\ caller'[c].pc = "leading"
        /\ \A d \in Callers \ {c} : caller'[d] = caller[d] /\ caller[d].flight /= f
      BY <1>5 DEF Lead, Unreferenced, Caller
  <2>3. /\ datasourceFly' = f /\ f /= None
        /\ flight'[f] = OpenFlight /\ \A g \in Flights \ {f} : flight'[g] = flight[g]
      BY <1>5 DEF Lead
  <2>4. FlightHeld'
      BY <2>2 DEF FlightHeld
  <2>5. \A d \in Callers : caller'[d].pc = "waiting" => flight'[caller'[d].flight].done
      BY <1>5, <2>2, <2>3 DEF Lead, FlightsLed, FlightHeld
  <2> QED
      BY <2>1, <2>2, <2>3, <2>4, <2>5 DEF FlightsLed, OpenFlight
<1>6. ASSUME NEW c \in Callers, Commit(c) PROVE FlightsLed' /\ FlightHeld'
  <2>1. c \in Leaders /\ caller[c].flight = datasourceFly /\ datasourceFly \in Flights
      BY <1>6 DEF Commit, FlightsLed, Leaders, FlightHeld
  <2>2. /\ caller' = [caller EXCEPT ![c] = IdleCaller]
        /\ datasourceFly' = None
        /\ flight' = [flight EXCEPT ![datasourceFly] = [done |-> TRUE, id |-> caller[c].id]]
      BY <1>6, <2>1 DEF Commit, Answer, Fail
  <2>3. Leaders = {c}
      BY <2>1 DEF FlightsLed, Leaders
  <2>4. Leaders' = {}
      BY <2>2, <2>3 DEF Leaders, IdleCaller
  <2>5. FlightHeld'
      BY <2>2 DEF FlightHeld, IdleCaller
  <2>6. \A d \in Callers : caller'[d].pc = "waiting" => flight'[caller'[d].flight].done
    <3> SUFFICES ASSUME NEW d \in Callers, caller'[d].pc = "waiting"
                 PROVE flight'[caller'[d].flight].done
        OBVIOUS
    <3>1. d /= c /\ caller'[d] = caller[d] /\ caller[d].flight \in Flights
        BY <2>2 DEF IdleCaller, FlightHeld
    <3>2. CASE caller[d].flight = datasourceFly
        BY <2>1, <2>2, <3>1, <3>2
    <3>3. CASE caller[d].flight /= datasourceFly
        BY <2>1, <2>2, <3>1, <3>3 DEF FlightsLed
    <3> QED
        BY <3>2, <3>3
  <2> QED
      BY <2>2, <2>4, <2>5, <2>6 DEF FlightsLed
<1>7. ASSUME NEW c \in Callers, FollowDone(c) \/ FollowCtx(c) PROVE FlightsLed' /\ FlightHeld'
  <2>1. /\ caller[c].pc = "waiting"
        /\ caller' = [caller EXCEPT ![c] = IdleCaller]
        /\ UNCHANGED <<datasourceID, datasourceFly, flight>>
      BY <1>7 DEF FollowDone, FollowCtx, Answer, Fail
  <2> QED
      BY <2>1 DEF FlightsLed, FlightHeld, Leaders, IdleCaller, Caller
<1>8. ASSUME NEW c \in Callers, Fetch(c) PROVE FlightsLed' /\ FlightHeld'
  <2>1. /\ caller[c].pc = "leading"
        /\ caller'[c].pc = "fetched" /\ caller'[c].flight = caller[c].flight
        /\ \A d \in Callers \ {c} : caller'[d] = caller[d]
        /\ UNCHANGED <<datasourceID, datasourceFly, flight>>
    <3>1. PICK id : /\ caller' = [caller EXCEPT ![c] = [@ EXCEPT !.pc = "fetched", !.id = id]]
                    /\ caller[c].pc = "leading"
                    /\ UNCHANGED <<datasourceID, datasourceFly, flight, answered>>
        BY <1>8 DEF Fetch, FetchOK, FetchFail
    <3>2. caller'[c] = [caller[c] EXCEPT !.pc = "fetched", !.id = id] /\ caller[c] \in Caller
        BY <3>1
    <3> QED
        BY <3>1, <3>2 DEF Caller
  <2>2. Leaders' = Leaders
      BY <2>1 DEF Leaders
  <2> QED
      BY <2>1, <2>2 DEF FlightsLed, FlightHeld, Leaders
<1>9. ASSUME UNCHANGED vars PROVE FlightsLed' /\ FlightHeld'
    BY <1>9 DEF vars, FlightsLed, FlightHeld, Leaders
<1> QED
    BY <1>1, <1>2, <1>3, <1>4, <1>5, <1>6, <1>7, <1>8, <1>9 DEF Next, Run

(* What is known stays, and agrees with what was told. *)
LEMMA KnowledgeStep ==
    IInv /\ [Next]_vars => (KnownEndsFlights /\ DoneAgrees /\ KnewIsKnown /\ OneSource)'
<1> USE DiscoveryAssumption
<1> DEFINE Good == KnownEndsFlights /\ DoneAgrees /\ KnewIsKnown /\ OneSource
<1> SUFFICES ASSUME IInv, [Next]_vars PROVE Good'
    OBVIOUS
<1> USE DEF IInv, TypeOK
<1>1. ASSUME NEW c \in Callers, Begin(c) PROVE Good'
    BY <1>1 DEF Begin, KnownEndsFlights, DoneAgrees, KnewIsKnown, OneSource, IdleCaller, Caller
<1>2. ASSUME NEW c \in Callers, CancelCtx(c) PROVE Good'
    BY <1>2 DEF CancelCtx, KnownEndsFlights, DoneAgrees, KnewIsKnown, OneSource, Caller
<1>3. ASSUME NEW c \in Callers, Known(c) PROVE Good'
    BY <1>3 DEF Known, Answer, KnownEndsFlights, DoneAgrees, KnewIsKnown, OneSource, IdleCaller, Caller
<1>4. ASSUME NEW c \in Callers, Follow(c) PROVE Good'
    BY <1>4 DEF Follow, KnownEndsFlights, DoneAgrees, KnewIsKnown, OneSource, FlightsLed, Caller
<1>5. ASSUME NEW c \in Callers, NEW f \in Flights, Lead(c, f) PROVE Good'
  <2>1. /\ caller'[c].pc = "leading" /\ ~caller[c].knew /\ ~caller'[c].knew
        /\ \A d \in Callers \ {c} : caller'[d] = caller[d] /\ caller[d].flight /= f
        /\ datasourceID = None /\ datasourceID' = None /\ answered' = answered
        /\ \A g \in Flights \ {f} : flight'[g] = flight[g]
      BY <1>5 DEF Lead, Unreferenced, Caller, KnewIsKnown
  <2>2. KnownEndsFlights' /\ KnewIsKnown' /\ OneSource'
      BY <2>1 DEF KnownEndsFlights, KnewIsKnown, OneSource
  <2>3. DoneAgrees'
      BY <2>1 DEF DoneAgrees, FlightHeld
  <2> QED
      BY <2>2, <2>3
<1>6. ASSUME NEW c \in Callers, Commit(c) PROVE Good'
  <2>1. /\ datasourceFly \in Flights /\ caller[c].flight = datasourceFly
        /\ datasourceID = None /\ caller[c].id \in Ids \cup {None}
      BY <1>6 DEF Commit, FlightsLed, Leaders, KnownEndsFlights, FlightHeld, Caller
  <2>2. /\ caller' = [caller EXCEPT ![c] = IdleCaller]
        /\ datasourceFly' = None
        /\ datasourceID' = caller[c].id
        /\ flight' = [flight EXCEPT ![datasourceFly] = [done |-> TRUE, id |-> caller[c].id]]
        /\ answered' = IF caller[c].id /= None THEN answered \cup {caller[c].id} ELSE answered
      BY <1>6, <2>1 DEF Commit, Answer, Fail
  <2>3. answered = {}
      BY <2>1 DEF OneSource
  <2>4. KnownEndsFlights' /\ OneSource'
      BY <2>2, <2>3 DEF KnownEndsFlights, OneSource
  <2>5. KnewIsKnown'
      BY <2>1, <2>2 DEF KnewIsKnown, IdleCaller
  <2>6. DoneAgrees'
    <3> SUFFICES ASSUME NEW d \in Callers, caller'[d].pc = "waiting",
                        flight'[caller'[d].flight].id /= None, flight'[caller'[d].flight].done
                 PROVE flight'[caller'[d].flight].id = datasourceID'
        BY DEF DoneAgrees
    <3>1. d /= c /\ caller'[d] = caller[d] /\ caller[d].flight \in Flights
        BY <2>2 DEF IdleCaller, FlightHeld
    <3>2. CASE caller[d].flight = datasourceFly
        BY <2>1, <2>2, <3>1, <3>2
    <3>3. CASE caller[d].flight /= datasourceFly
      <4>1. flight'[caller'[d].flight] = flight[caller[d].flight]
          BY <2>2, <3>1, <3>3
      <4>2. flight[caller[d].flight].id = None
          BY <2>1, <3>1, <4>1 DEF DoneAgrees, Flight
      <4> QED
          BY <4>1, <4>2
    <3> QED
        BY <3>2, <3>3
  <2> QED
      BY <2>4, <2>5, <2>6
<1>7. ASSUME NEW c \in Callers, FollowDone(c) PROVE Good'
  <2>1. /\ caller[c].pc = "waiting"
        /\ caller' = [caller EXCEPT ![c] = IdleCaller]
        /\ UNCHANGED <<datasourceID, datasourceFly, flight>>
        /\ answered' \in {answered, answered \cup {datasourceID}}
      BY <1>7 DEF FollowDone, Answer, Fail, DoneAgrees
  <2> QED
      BY <2>1 DEF KnownEndsFlights, DoneAgrees, KnewIsKnown, OneSource, IdleCaller, Caller
<1>8. ASSUME NEW c \in Callers, FollowCtx(c) PROVE Good'
    BY <1>8 DEF FollowCtx, Fail, KnownEndsFlights, DoneAgrees, KnewIsKnown, OneSource, IdleCaller, Caller
<1>9. ASSUME NEW c \in Callers, Fetch(c) PROVE Good'
  <2>1. /\ caller[c].pc = "leading"
        /\ caller'[c].pc = "fetched" /\ caller'[c].knew = caller[c].knew
        /\ \A d \in Callers \ {c} : caller'[d] = caller[d]
        /\ UNCHANGED <<datasourceID, datasourceFly, flight, answered>>
    <3>1. PICK id : /\ caller' = [caller EXCEPT ![c] = [@ EXCEPT !.pc = "fetched", !.id = id]]
                    /\ caller[c].pc = "leading"
                    /\ UNCHANGED <<datasourceID, datasourceFly, flight, answered>>
        BY <1>9 DEF Fetch, FetchOK, FetchFail
    <3>2. caller'[c] = [caller[c] EXCEPT !.pc = "fetched", !.id = id] /\ caller[c] \in Caller
        BY <3>1
    <3> QED
        BY <3>1, <3>2 DEF Caller
  <2> QED
      BY <2>1 DEF KnownEndsFlights, DoneAgrees, KnewIsKnown, OneSource
<1>10. ASSUME UNCHANGED vars PROVE Good'
    BY <1>10 DEF vars, KnownEndsFlights, DoneAgrees, KnewIsKnown, OneSource
<1> QED
    BY <1>1, <1>2, <1>3, <1>4, <1>5, <1>6, <1>7, <1>8, <1>9, <1>10 DEF Next, Run

(***************************************************************************)
(* The strengthened invariant holds in every reachable state.               *)
(***************************************************************************)
THEOREM DiscoveryInvariant == Spec => []IInv
<1>1. IInv /\ [Next]_vars => IInv'
    BY TypeStep, SharingStep, KnowledgeStep DEF IInv
<1> QED
    BY InitIInv, <1>1, PTL DEF Spec

(* Every variable keeps its type: no caller follows a flight that is none. *)
THEOREM TypeCorrect == Spec => []TypeOK
<1>1. IInv => TypeOK
    BY DEF IInv
<1> QED
    BY DiscoveryInvariant, <1>1, PTL

(* However many loaders ask at once, one discovery runs at a time, nobody   *)
(* joins one that has ended, and who waits for another finds it done.       *)
THEOREM OneDiscoveryAtATime == Spec => []FlightsLed
<1>1. IInv => FlightsLed
    BY DEF IInv
<1> QED
    BY DiscoveryInvariant, <1>1, PTL

(* Every caller that is told a data source is told the same one. *)
THEOREM AllQueriesOneSource == Spec => []OneSource
<1>1. IInv => OneSource
    BY DEF IInv
<1> QED
    BY DiscoveryInvariant, <1>1, PTL

(* Once the data source is known, no query waits for it or fails for want of it. *)
THEOREM KnownIsEnough == Spec => []KnownNeverWaits
<1>1. IInv => KnownNeverWaits
    BY DEF IInv, KnewIsKnown, KnownNeverWaits
<1> QED
    BY DiscoveryInvariant, <1>1, PTL

-----------------------------------------------------------------------------
(* TargetListing *)

(* Each step of the host loaders is a step of the discovery, or none. *)
LEMMA ListingStepsDiscover == [ListingNext]_listingVars => [Next]_vars
<1> SUFFICES ASSUME [ListingNext]_listingVars PROVE [Next]_vars
    OBVIOUS
<1>1. ASSUME NEW c \in HostLoaders, BeginListing(c) PROVE UNCHANGED vars
    BY <1>1 DEF BeginListing
<1>2. ASSUME NEW c \in HostLoaders, Page(c) PROVE UNCHANGED vars
    BY <1>2 DEF Page, NextPage, LastPage, ListingFails
<1>3. ASSUME NEW c \in HostLoaders, QueryHosts(c) PROVE Next
    BY <1>3, TargetsAssumption DEF QueryHosts, Next
<1>4. ASSUME NEW c \in Callers, QueryModule(c) \/ DiscoverRun(c) \/ DiscoverFetch(c) \/ DiscoverCancel(c)
      PROVE Next
    BY <1>4 DEF QueryModule, DiscoverRun, DiscoverFetch, DiscoverCancel, Next
<1>5. ASSUME UNCHANGED listingVars PROVE UNCHANGED vars
    BY <1>5 DEF listingVars
<1> QED
    BY <1>1, <1>2, <1>3, <1>4, <1>5 DEF ListingNext

(***************************************************************************)
(* Loaders that list targets before they query use the discovery as it is   *)
(* meant to be used: what is proved of it holds for them.                   *)
(***************************************************************************)
THEOREM ListingDiscovers == ListingSpec => Spec
<1>1. ListingInit => Init
    BY DEF ListingInit
<1> QED
    BY <1>1, ListingStepsDiscover, PTL DEF ListingSpec, Spec

ListsCounted ==
    \A c \in HostLoaders : listing[c].pc = "listed" =>
        Cardinality(listing[c].idents) = Cardinality(listing[c].counted)

ListingInv == listing \in [HostLoaders -> Listing] /\ ListsCounted

(* A step of a page: the total and the count are numbers, and a finished list *)
(* has as many targets as were counted.                                       *)
LEMMA PageStep ==
    ASSUME ListingInv, NEW c \in HostLoaders, Page(c)
    PROVE  ListingInv'
<1> USE TargetsAssumption
<1>1. \A set \in SUBSET Targets : Cardinality(set) \in Nat
    BY FS_Subset, FS_CardinalityType
<1>2. listing[c] \in Listing
    BY DEF ListingInv
<1>3. CASE ListingFails(c)
    BY <1>3, <1>2 DEF ListingInv, ListsCounted, ListingFails, NoListing, Listing
<1>4. ASSUME NEW counted \in SUBSET Targets, NEW list \in SUBSET Targets, NextPage(c, counted, list)
      PROVE ListingInv'
  <2> DEFINE next == [listing[c] EXCEPT !.page = @ + 1, !.want = Cardinality(counted),
                          !.count = @ + Cardinality(list), !.idents = @ \cup list]
  <2>1. listing' = [listing EXCEPT ![c] = next] /\ listing[c].pc = "paging" /\ listing[c].page < MaxPages
      BY <1>4 DEF NextPage, Acceptable
  <2>2. Cardinality(counted) \in Nat /\ Cardinality(list) \in Nat
      BY <1>1
  <2>3. /\ listing[c].page + 1 \in 0..MaxPages
        /\ listing[c].count + Cardinality(list) \in Nat
        /\ listing[c].idents \cup list \in SUBSET Targets
      BY <2>1, <2>2, <1>2 DEF Listing
  <2>4. next \in Listing /\ next.pc = "paging"
      BY <2>1, <2>2, <2>3, <1>2 DEF Listing
  <2> HIDE DEF next
  <2> QED
      BY <2>1, <2>4 DEF ListingInv, ListsCounted
<1>5. ASSUME NEW counted \in SUBSET Targets, NEW list \in SUBSET Targets, LastPage(c, counted, list)
      PROVE ListingInv'
  <2> DEFINE idents == listing[c].idents \cup list
             count == listing[c].count + Cardinality(list)
             next == IF idents = {} THEN NoListing
                     ELSE [NoListing EXCEPT !.pc = "listed", !.count = count,
                                            !.idents = idents, !.counted = counted]
  <2>1. /\ listing' = [listing EXCEPT ![c] = next]
        /\ count = Cardinality(counted) /\ Cardinality(idents) = count
      BY <1>5 DEF LastPage
  <2>2. next \in Listing
    <3>1. count \in Nat /\ idents \in SUBSET Targets
        BY <2>1, <1>1, <1>2 DEF Listing
    <3>2. NoListing \in Listing
        BY DEF Listing, NoListing
    <3> HIDE DEF idents, count
    <3> QED
        BY <3>1, <3>2 DEF Listing, NoListing
  <2>3. next.pc = "listed" => Cardinality(next.idents) = Cardinality(next.counted)
      BY <2>1 DEF NoListing
  <2> HIDE DEF next
  <2> QED
      BY <2>1, <2>2, <2>3 DEF ListingInv, ListsCounted
<1> QED
    BY <1>3, <1>4, <1>5 DEF Page

(* The lists keep their type and are as long as they were counted. *)
THEOREM ListingInvariant == ListingSpec => []ListingInv
<1> USE TargetsAssumption
<1>1. ListingInit => ListingInv
    BY DEF ListingInit, ListingInv, ListsCounted, Listing, NoListing
<1>2. ListingInv /\ [ListingNext]_listingVars => ListingInv'
  <2> SUFFICES ASSUME ListingInv, [ListingNext]_listingVars PROVE ListingInv'
      OBVIOUS
  <2>1. ASSUME NEW c \in HostLoaders, BeginListing(c) PROVE ListingInv'
    <3> DEFINE first == [NoListing EXCEPT !.pc = "paging", !.page = 1]
    <3>1. first \in Listing /\ first.pc = "paging"
      <4>1. 0 \in 0..MaxPages /\ 1 \in 0..MaxPages
          OBVIOUS
      <4>2. NoListing \in Listing
          BY <4>1 DEF Listing, NoListing
      <4> QED
          BY <4>1, <4>2 DEF Listing, NoListing
    <3>2. listing' = [listing EXCEPT ![c] = first]
        BY <2>1 DEF BeginListing
    <3> HIDE DEF first
    <3> QED
        BY <3>1, <3>2 DEF ListingInv, ListsCounted
  <2>2. ASSUME NEW c \in HostLoaders, Page(c) PROVE ListingInv'
      BY <2>2, PageStep
  <2>3. ASSUME NEW c \in HostLoaders, QueryHosts(c) PROVE ListingInv'
      BY <2>3 DEF QueryHosts, ListingInv, ListsCounted, Listing, NoListing
  <2>4. ASSUME NEW c \in Callers, DiscoverRun(c) PROVE ListingInv'
      BY <2>4 DEF DiscoverRun, ListingInv, ListsCounted, Listing, NoListing
  <2>5. ASSUME UNCHANGED listing PROVE ListingInv'
      BY <2>5 DEF ListingInv, ListsCounted
  <2> QED
      BY <2>1, <2>2, <2>3, <2>4, <2>5 DEF ListingNext, listingVars, QueryModule, DiscoverFetch, DiscoverCancel
<1> QED
    BY <1>1, <1>2, PTL DEF ListingSpec

(* Every variable of the host loaders and of the discovery keeps its type. *)
THEOREM ListingTypeCorrect == ListingSpec => []ListingTypeOK
<1>1. TypeOK /\ ListingInv => ListingTypeOK
    BY DEF ListingInv, ListingTypeOK
<1> QED
    BY ListingDiscovers, TypeCorrect, ListingInvariant, <1>1, PTL

(***************************************************************************)
(* However the inventory changes while it is paged, a list that succeeds     *)
(* lacks a target last counted only in exchange for one that was not: it is  *)
(* as long as the count, and no target is in it twice.                       *)
(***************************************************************************)
THEOREM NothingMissedUnnoticed == ListingSpec => []MissedForExchange
<1>1. ListingInv => MissedForExchange
  <2> SUFFICES ASSUME ListingInv, NEW c \in HostLoaders, listing[c].pc = "listed",
                      listing[c].idents \subseteq listing[c].counted
               PROVE  listing[c].counted \subseteq listing[c].idents
      BY DEF MissedForExchange
  <2>1. listing[c].counted \subseteq Targets
      BY DEF ListingInv, Listing
  <2>2. IsFiniteSet(listing[c].counted)
      BY <2>1, TargetsAssumption, FS_Subset
  <2>3. Cardinality(listing[c].idents) = Cardinality(listing[c].counted)
      BY DEF ListingInv, ListsCounted
  <2> QED
      BY <2>2, <2>3, FS_Subset
<1> QED
    BY ListingInvariant, <1>1, PTL
=============================================================================
