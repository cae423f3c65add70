---------------------------- MODULE TargetListing ----------------------------
(***************************************************************************)
(* Provider.ListHosts (internal/adapters/nightingale/provider.go): the       *)
(* loader of the host list pages through Nightingale's targets and then     *)
(* queries their figures, for which it needs the data source like all other  *)
(* loaders, so that DatasourceDiscovery runs underneath.                     *)
(*                                                                         *)
(* Nothing keeps the inventory still while it is paged.  Nightingale counts  *)
(* the targets and reads a page of them at two times, so a page may list any *)
(* few targets beside any total.                                             *)
(***************************************************************************)
EXTENDS DatasourceDiscovery, Naturals

CONSTANTS
    HostLoaders,    \* the loaders that list targets before they query
    Targets,        \* the targets an inventory may hold
    PageSize,       \* targetPageSize
    MaxPages        \* the page after which the code gives up, 10000

ASSUME TargetsAssumption ==
    /\ HostLoaders \subseteq Callers
    /\ IsFiniteSet(Targets)
    /\ PageSize \in Nat \ {0}
    /\ MaxPages \in Nat \ {0}
    /\ None \notin Nat

VARIABLE listing    \* listing[c]: the call of ListHosts by c

listingVars == <<vars, listing>>

Listing == [pc : {"none", "paging", "listed", "querying"}, page : 0..MaxPages,
            want : Nat \cup {None}, count : Nat, idents : SUBSET Targets,
            counted : SUBSET Targets]    \* history: those the last total counted

NoListing == [pc |-> "none", page |-> 0, want |-> None, count |-> 0, idents |-> {}, counted |-> {}]

ListingInit ==
    /\ Init
    /\ listing = [c \in HostLoaders |-> NoListing]

-----------------------------------------------------------------------------
BeginListing(c) ==
    /\ listing[c].pc = "none"
    /\ listing' = [listing EXCEPT ![c] = [NoListing EXCEPT !.pc = "paging", !.page = 1]]
    /\ UNCHANGED vars

(* A total that agrees with the pages before, and a page that is not empty too soon. *)
Acceptable(c, counted, list) ==
    /\ listing[c].pc = "paging"
    /\ listing[c].want \in {None, Cardinality(counted)}
    /\ Cardinality(list) <= PageSize
    /\ list = {} => listing[c].count >= Cardinality(counted)

(* Mutant: when the total has changed, the pages are read from the first again. *)
NextPageAgain(c, counted, list) ==
    LET total == Cardinality(counted)
        count == listing[c].count + Cardinality(list)
        changed == listing[c].want \notin {None, total}
    IN  /\ listing[c].pc = "paging"
        /\ Cardinality(list) <= PageSize
        /\ changed \/ (count < total /\ list /= {} /\ listing[c].page < MaxPages)
        /\ listing' = [listing EXCEPT ![c] =
                IF changed THEN [NoListing EXCEPT !.pc = "paging", !.page = 1]
                ELSE [@ EXCEPT !.page = listing[c].page + 1, !.want = total,
                               !.count = count, !.idents = listing[c].idents \cup list]]
        /\ UNCHANGED vars

NextPage(c, counted, list) ==
    LET total == Cardinality(counted)
        count == listing[c].count + Cardinality(list)
    IN  /\ Acceptable(c, counted, list)
        /\ count < total
        /\ listing[c].page < MaxPages
        /\ listing' = [listing EXCEPT ![c] = [@ EXCEPT !.page = listing[c].page + 1, !.want = total,
                              !.count = count, !.idents = listing[c].idents \cup list]]
        /\ UNCHANGED vars

(* Mutant: a target listed twice is kept once. *)
LastPageTwice(c, counted, list) ==
    LET count == listing[c].count + Cardinality(list)
        idents == listing[c].idents \cup list
    IN  /\ Acceptable(c, counted, list)
        /\ count = Cardinality(counted)
        /\ listing' = [listing EXCEPT ![c] = IF idents = {} THEN NoListing
                          ELSE [NoListing EXCEPT !.pc = "listed", !.count = count,
                                                 !.idents = idents, !.counted = counted]]
        /\ UNCHANGED vars

(* The total is reached, and no target was listed twice; without targets there *)
(* is nothing to query.                                                        *)
LastPage(c, counted, list) ==
    LET count == listing[c].count + Cardinality(list)
        idents == listing[c].idents \cup list
    IN  /\ Acceptable(c, counted, list)
        /\ count = Cardinality(counted)
        /\ Cardinality(idents) = count
        /\ listing' = [listing EXCEPT ![c] = IF idents = {} THEN NoListing
                          ELSE [NoListing EXCEPT !.pc = "listed", !.count = count,
                                                 !.idents = idents, !.counted = counted]]
        /\ UNCHANGED vars

(* No answer, or one of those the code does not take. *)
ListingFails(c) ==
    /\ listing[c].pc = "paging"
    /\ listing' = [listing EXCEPT ![c] = NoListing]
    /\ UNCHANGED vars

(* The figures of the hosts are queried; which hosts there are is settled. *)
QueryHosts(c) ==
    /\ listing[c].pc = "listed"
    /\ Begin(c)
    /\ listing' = [listing EXCEPT ![c] = [NoListing EXCEPT !.pc = "querying"]]

(* The loaders of the modules query at once. *)
QueryModule(c) == c \in Callers \ HostLoaders /\ Begin(c) /\ UNCHANGED listing

(* Steps of the discovery.  When it ends, the hosts are returned with the figures *)
(* that could be had, or the error is.                                            *)
DiscoverRun(c) ==
    /\ Run(c)
    /\ listing' = IF c \in HostLoaders /\ caller'[c].pc = "idle"
                  THEN [listing EXCEPT ![c] = NoListing] ELSE listing

DiscoverFetch(c) == Fetch(c) /\ UNCHANGED listing

DiscoverCancel(c) == CancelCtx(c) /\ UNCHANGED listing

Page(c) ==
    \/ ListingFails(c)
    \/ \E counted, list \in SUBSET Targets : NextPage(c, counted, list) \/ LastPage(c, counted, list)

ListingNext ==
    \/ \E c \in HostLoaders : BeginListing(c) \/ Page(c) \/ QueryHosts(c)
    \/ \E c \in Callers : QueryModule(c) \/ DiscoverRun(c) \/ DiscoverFetch(c) \/ DiscoverCancel(c)

ListingSpec == ListingInit /\ [][ListingNext]_listingVars

(* Goroutines run on, and an HTTP request ends, by the timeout of its context at the latest. *)
ListingFairness ==
    /\ \A c \in HostLoaders : WF_listingVars(Page(c)) /\ WF_listingVars(QueryHosts(c))
    /\ \A c \in Callers : WF_listingVars(DiscoverRun(c)) /\ WF_listingVars(DiscoverFetch(c))

FairListingSpec == ListingSpec /\ ListingFairness

-----------------------------------------------------------------------------
(* Properties *)

(* Every variable keeps its type. *)
ListingTypeOK == TypeOK /\ listing \in [HostLoaders -> Listing]

(***************************************************************************)
(* A list that succeeds lacks one of the targets last counted only in        *)
(* exchange for one that was not: what the pages repeat or skip while the    *)
(* inventory changes never shortens the list unnoticed (listTargetRecords,   *)
(* mapTargetRecords).                                                        *)
(***************************************************************************)
MissedForExchange ==
    \A c \in HostLoaders : listing[c].pc = "listed" =>
        (listing[c].counted \ listing[c].idents /= {} => listing[c].idents \ listing[c].counted /= {})

(* Every load of the host list ends, whether its pages, the data source or the *)
(* leader of a discovery hold it up.                                           *)
ListingsReturn == \A c \in HostLoaders : listing[c].pc /= "none" ~> listing[c].pc = "none"
=============================================================================
