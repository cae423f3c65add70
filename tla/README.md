# InfraView in TLA+

InfraView is a read-only monitoring page: a Go server that reads hosts and six kinds of
modules (disk, MySQL, Redis, Elasticsearch, RabbitMQ, Java) from Nightingale, keeps the
answers in an in-process cache, works out levels (normal, warning, critical, unknown), and
serves lists and details to a React front end behind a session login.  It persists nothing:
a restart forgets the cache, the trackers, the sessions and the table of failed logins.

This directory holds TLA+ modules translated from the source, TLC configurations that check
them on small instances, and proofs that hold for every value of the constants.  Paths below
are relative to the repository.  `PROJECT.json` maps every definition to the lines it models.

## 1. Inventory

### 1.1 Components with state and concurrency

**`cache.Store`** (`internal/cache/store.go`).  State: `entries` (value and time of storing per
key), `inFlight` (the running load per key), and per load a `call` with a waiter count, an
`abandoned` mark and a `done` channel.  Operations: `GetOrLoad`, and inside it `wait` (a `select`
between `done` and the request's context) and `load` (a goroutine).  Hard: misses are merged
into one load; the load does not stop with the request that started it but with its *last* waiter;
an abandoned load runs on beside its replacement; three clock reads and four critical sections
interleave.  Correct when: one load per key counts; the waiter count is exact; nobody sees
another's cancellation; an old value never replaces a newer one; stale answers are within
`maxStale` and are marked; everybody returns.

**Freshness tracker** (`internal/service/freshness.go`).  State: per source the time of the last
sample and when this process saw it advance.  Operations: `Observe`, `ObserveAt`, `Level`, each a
critical section; `Observe` reads the clock *before* it enters it.  Correct when: the age of a source starts at the first sighting of its newest
sample, or as shortly before as a loader is behind its reading of the clock, is not reset by hits, stale answers or retries, and ends in warning after two intervals and
critical after five.

**Snapshot loading of the services** (`internal/service/*.go`).  Each service has its cache keys,
its tracker, and loaders that call the provider and then observe every sample.  Host, MySQL, disk
and Redis read the tracker when a page is served; Elasticsearch and RabbitMQ capture progress
in the loader, in a second critical section, into the cached state; Java does too, and observes with
the time of the request that started the load.  Hard: several cache keys feed one tracker (host
list, host subsets, host detail); abandoned loaders still observe; another loader may come between a
loader's reading of the clock and its sample, which then carries a time from before the other's.

**`auth.Limiter`** (`internal/auth/limiter.go`).  State: a window (count, end) per address, at most
4096.  Operation: `Attempt`, which prunes, refuses at the limit, verifies *under the lock*, then
forgets or counts and evicts.  Correct when: racing logins never share a try; the table keeps its
capacity; an address is forgiven only by success, expiry or eviction for room.

**`auth.Manager`** (`internal/auth/manager.go`).  State: expiry per session token.  Operations:
`Login`, `Validate`, `Logout`, all pruning.  `Validate` and `Login` read the clock before the lock.
Correct when: a token refused once is never accepted again, and nobody loses a session to another's
request.

**HTTP login, logout, `requireAuthentication`** (`internal/httpapi`).  Stateless themselves, but they
fix the order in which limiter and manager are called, and what may happen between two calls.

**Data source discovery** (`internal/adapters/nightingale/client.go`).  State: `datasourceID`, the
`discovery` in flight.  Operation: `discoverDatasourceID`.  Hard: leader and followers have contexts of
their own; failure must leave no trace.  Correct when: one discovery at a time; one answer for all and
for ever; once known nobody waits; everybody returns.

**Process lifecycle** (`cmd/infraview/main.go`).  Wraps every provider in an upstream timeout (10 s),
waits for a signal or a server error, then shuts down within a grace period.

**Web session** (`web/src/auth/AuthProvider.tsx`, `web/src/api/client.ts`).  State: the browser's idea
of being logged in and the queries in flight.  Hard: a 401 that belongs to an earlier session arrives
after a new login; logout races with queries.

**Nightingale host provider** (`internal/adapters/nightingale/provider.go`).  Stateless, but a list of
hosts is read page by page from an inventory that changes meanwhile, and then needs the data source.
Correct when: a list that succeeds is as long as the targets were counted and names none twice; it ends.

### 1.2 Components that compute

**Lists, overviews, statuses** (`hosts.go`, `overview.go`, `disk_service.go`, `mysql_service.go`,
`redis_service.go`, `elasticsearch_service.go`, `rabbitmq_service.go`, `java_service.go`): from a snapshot and the
collection levels each service works out a status with its source per thing, alerts and counts, and a list with filters,
sorting and paging.  The services repeat one another with small differences: each has
comparators of its own, a guard of its own for pages that are too far on, and code of its own for statuses and for
alerts.  Hard: comparators must be total orders that put missing figures last in both
directions; a reader turns pages while samples age and snapshots come in another order; overview and list are
worked out separately; shard counts can overflow.  Correct when: status and alerts tell
the same story, counts and lists the same numbers, pages partition a list, no slice is out of
bounds, and a sample that only grows older never improves anything.

**Nightingale module providers** (`*_provider.go`): several query
results merged by identity, the series of each metric to one value, the inventory series of each instance
to one record.  A result is in no order, series may share a time, and each provider has merge rules of its
own.  Correct when what is shown is independent of that order and never a disputed value.

**Host metrics and trends** (`metrics.go`): the figures of one host over a range, behind the cache.

### 1.3 Components without behaviour to check

**Domain types** (as far as a status or an order depends on their fields they are the rows of the views),
**mock providers**, **configuration**, **static files**, **web pages**:
data types, fixed data, parsing at start, stateless rendering.  **Query handlers and routing**: which queries are
accepted belongs to the lists and is modelled there; routes and the shape of answers are stateless.

### 1.4 How they interact

    browser -> requireAuthentication -> Manager.Validate
            -> query handler -> service -> cache.Store.GetOrLoad
                                             `- load goroutine -> loader -> provider (timeout) -> Client
                                                                  |            |                   `- discovery (once)
                                                                  |            `- hosts: targets, page by page
                                                                  `-> tracker.Observe [, capture]
                                        <- snapshot, fresh or stale
                             service -> tracker.Level -> status, alerts -> list, overview
    browser -> login handler -> Limiter.Attempt( Manager.Login )

Everything meets in two places: the cache (requests and loads) and the tracker (loads of several keys).
The limiter calls the manager under its own lock.

## 2. Modules

| module | models | how it corresponds to the code |
|---|---|---|
| `CacheStore` | `internal/cache/store.go` | one action per stretch of a goroutine between two points where another may run: `Begin` reads the clock; `Hit`, `Join` and the start of a load are the critical section of `GetOrLoad`; the load goes through `loading` -> `fetched` (the upstream answered) -> `stamped` (`loadedAt` read) -> `closed`; a waiter leaves through `done` or through its context, which is a second critical section. The upstream is a counter, so old data is a smaller version. |
| `CacheContract` | what a caller is promised | one request at a time: data the upstream has had, none older than what had been answered when it began, an error of the load, or its own context's error; how long data may be kept, and when they are marked as stale, is `StaleMeansExpired`'s |
| `LoadSlot` | what the services may assume about loads | at most one load per key counts, it may be abandoned at any moment, only a load that counts replaces the entry |
| `CacheStoreRefines` | the refinement mappings | `KeepsContract`: `CacheStore` implements `CacheContract`; `LoadsOneAtATime`: it implements `LoadSlot` |
| `Freshness` | `freshness.go`, `collectionLevelAt` | operators on one tracker entry |
| `SnapshotService` | loading in all services | `LoadSlot` composed with the tracker: a load that has its data reads the clock (`ReadClock`; the Java request has done so before the load, in `Start`), observes with that reading under the tracker's lock (`Observe`), captures (except live kinds), returns, and is stored.  The history `firstSeen` records the moment of `Observe` itself, whatever time is given with the sample. The kind is chosen in the initial state. |
| `LoginLimiter` | `limiter.go` | operators on the table of failures |
| `AuthService` | manager, limiter, login / logout / authenticated requests | each client runs one request at a time through its clock readings and critical sections; holding the limiter's lock while the manager is called is explicit |
| `DatasourceDiscovery` | `discoverDatasourceID` | `Enter` decides under the lock between the known id, following and leading; `Answered` / `Failed` publish, remove the flight and wake followers in one step, as the code does under its lock |
| `TargetListing` | `ListHosts`, `listTargetRecords`, `mapTargetRecords` | composes with `DatasourceDiscovery`: one action per page, whose total and targets Nightingale reads at two times, so any total goes with any few targets; a list that is complete goes on to `Begin` of the discovery, like the queries of the other loaders |
| `SeriesMerge` | merging in all module providers | one entry and the series merged to it; `Arrive` is one turn of a merge loop, for any series; the merge rule is chosen in the initial state, see below |
| `Levels` | levels, their order, usages against their limits, collection levels of an age | a figure is a name for the side of a limit on which it lies |
| `Listing` | queries, comparators, `sort.SliceStable`, page offsets and slices | what the lists have in common; ints wrap at `MaxInt` |
| `DiskView`, `MySQLView`, `RedisView`, `ElasticsearchView`, `RabbitMQView`, `JavaView`, `HostView` | one service each | per row: its findings, `Summary` (status and source), `Alerts`; per snapshot: `Overview`; per query: whether it is accepted, the rows that match, their sort keys, the page |
| `ModuleViews` | a service, its snapshot and a reader | `Ask` and `Turn` answer a query; between them `Pass` lets samples age, `Reload` and `Change` replace the snapshot.  The kind is chosen in the initial state |
| `MC…` | | instances for TLC: symmetry, the sources of keys, the rows and queries |
| `…Proofs` | | the theorems, section 5 |

Operators whose comment begins with "Mutant" are not part of the model.  They are plausible slips in
the code, such as a join that is not counted; with one in place of the operator it imitates, TLC finds the
property named beside it in `PROJECT.json` violated.  This shows that the property depends on the code.

The rules of `SeriesMerge` and the code they stand for:

| rule | operator | code |
|---|---|---|
| `mysql` | `MergeMySQL` | `newestMySQLValue`, `mergeMySQLVersion`, `mergeMySQLBool` |
| `flagged` | `MergeFlagged` | `mergeDiskScalar` and its like in the disk and Redis providers, `mergeRabbitMQLatest` |
| `java`, `elasticsearch` | `MergeJava`, `MergeElasticsearch` | `mergeJavaLatest`, `mergeElasticsearchLatest` |
| `role` | `MergeRole` | `mergeRedisRole` |
| `disk_inventory` | `MergeDiskInventory`, `DiskRejects` | `buildDiskStates`; the id is the serial number or the WWN, which are treated alike |
| `java_inventory` | `MergeJavaInventory`, `JavaRejects` | `buildJavaInventory` |
| `elasticsearch_inventory`, `rabbitmq_inventory` | `Merge…Inventory` | `buildElasticsearchNodeInventory`, `buildRabbitMQInventory` |
| `single_inventory` | `SingleRejects` | the inventory loops of MySQL and Redis, which admit one series per instance |

A series' value is what the rule compares: a number, an address, an identity, a reported time.  The model has
no zero time: no sample is as old as Go's.  Which instance a series belongs to is given.

In the views a text is its number in the natural order with case folded, blank being 0, and a missing figure is 0.  The
age of a row says since when its sample is known: not followed (-2), never seen (-1), or the
intervals that have passed (0, 2 and 5 are the thresholds).

Abstractions common to all modules: time is a counter of ticks that only `Tick` (`Pass`) moves, so any
number of steps may share a time and any amount of time may pass between two steps; the clock never
goes back.  Payloads are version numbers, addresses, tokens and callers are model values.  Go's `select`
with two ready cases is a choice between two enabled actions.

## 3. Runs

| run | question | instance | why this is enough |
|---|---|---|---|
| `cache_safety` | sharing, leaving and restarting of loads; are both abstract views implemented | 2 callers, 2 calls, 1 key, ttl 1, `maxStale` 0 and 1, 2 versions | a caller who leaves and one who restarts; two calls are the abandoned one and its replacement; both tolerances give fresh, stale and failed answers.  Keys share nothing, the proofs cover any number of all of them |
| `cache_live` | does everybody return | 2 callers, 2 calls | one who starts or joins, one who leaves |
| `service_ages` | ages, all kinds | 2 loads, 1 key, clock to 5 for a live service, to 3 for Elasticsearch and Java, to 2 for RabbitMQ and for the host service with 2 keys; a loader at most 1 tick behind its reading | interval 1: a live service reaches all thresholds up to five intervals, the others the first; two host keys show samples to one tracker in any order; an abandoned load is overtaken by another, and a loader between its reading of the clock and its sample as well |
| `auth_safety` | racing logins, the table of failures, sessions | 2 clients, 3 addresses, capacity 2, limit 2, 2 tokens, ttl 2 | a full table and an address to evict another; one session to use and one to be innocent; the tries of two clients race, more are covered by the proof |
| `auth_live` | does every request return | 3 clients, 1 address | one in the limiter, one waiting for it, one in the manager |
| `discovery` | sharing and failure of discoveries; does the host list survive a changing inventory | 3 loaders, one of hosts, 3 flights, 2 ids; 2 targets, page size 1, 2 pages | a leader, a follower, and one who arrives between; two answers that could disagree; a list of two pages that repeats or exchanges a target.  `MaxPages` stands for 10000, no list of the instance reaches it |
| `series_merge` | does the order of series matter | 3 times, 2 values, 2 ids, every rule | an older, a newest and a still newer time; two values to dispute, blank as a third; series repeat, so no bound on their number |
| `views` | statuses, alerts, overviews and lists, all services | single rows in every condition that a status depends on; clusters in pairs; lists of 3 rows, page size 2, `MaxInt` 7, one change (`MaxNews`) while the reader turns pages | a status depends on one row; a list needs a page and a half, two rows that are equal under the chosen field and one without a figure; pages beyond the end, beyond what an int holds, and left out; one change falls before or between any two reads |
| `masked_stall`, `lost_progress`, `disk_model`, `address_order` | disagreements with the documents, section 6 | | |

Symmetry is used where a run checks no liveness: callers, calls, clients, tokens and addresses are only
compared.  `MaxTime` and `MaxVersion` bound the clock and the upstream in the guards of the actions
that move them.  Deadlock is checked wherever the system never stops, because a request or a hit is always
possible; not in `series_merge` and `disk_model`, where a loop ends when the snapshot is given up, nor in `views` and
`address_order`, where a reader ends with the last page and changes are bounded.

`LoadBound` is the bound on how far a loader may be behind a reading of the clock of its own: from the request's for the Java
service, from `Observe`'s for the others.  The upstream timeouts of `main.go` 201-213 bound the provider call; what follows
it does no I/O and holds locks for a moment only.  The proofs take any natural number for it.  `Level` too reads the clock
before the lock; a sample that comes in between makes the age it shows smaller, so what is worked out at one moment, as in
the model, is never shown sooner by it.

**Fairness.**  `CacheStore!FairSpec`: a goroutine that can go on does (weak fairness of each caller's steps
once it has begun, `CallerFairness`), and a load ends (`LoadFairness`), because `main.go` 201-348 gives every
provider an upstream timeout; neither the arrival of requests nor their cancellation nor the clock is
fair.  `CanceledRequestReturns` does not need the upstream to answer.  `AuthService!FairSpec`: weak fairness of every step, and strong
fairness of taking the limiter's lock, since `sync.Mutex` hands a lock over to a waiter after at most a
millisecond and so starves nobody.  `DatasourceDiscovery!FairSpec`: weak fairness, since each HTTP exchange ends
with its context.  `TargetListing!FairListingSpec` adds weak fairness of a page, for the same reason, and of
going on to the query; nothing is assumed of the totals and pages that come.

## 4. What the properties say

- *Cache.*  `SingleFlight`, `WaitersCounted`, `NoCancelLeak` (nobody is answered with the cancellation of a load
  it shared), `MonotonicReads` (a request never gets data older than what had been answered before it
  began), `EntriesMonotone` (a stored entry is replaced only by a newer one), `StaleMeansExpired`,
  `EveryRequestReturns`, `CanceledRequestReturns`, and the two refinements.
- *Services.*  `BaselineTrue`: while samples are shown in order, the age counts from the first sighting or from at most
  `LoadBound` before it, never from after.  `NoEarlyStall`: in any order, and for every kind of service, what has an age is
  shown as delayed or gone no sooner than two or five intervals after it was seen, less `LoadBound`.  The slack is real: a
  loader that is held up between `t.clock()` (freshness.go 35) and the lock (line 40) can put an older sample with an
  older time over a newer sighting, and the newer data are then shown as delayed that much too early; with `LoadBound`
  left out of the formula TLC finds this in every kind.  The Java loader is behind by the whole load.  Both
  say nothing of data that have lost their age (`lost_progress`, section 6), nor that a stall is shown
  in time (`masked_stall`).
- *Auth.*  `TriesBounded`, `CapacityKept`, `NotForgivenEarly`, `DeniedStaysDenied`, `LiveSessionsKept`, `RequestsReturn`.
- *Series.*  `NewestAgreed`: what is shown is what the newest valid series agree on, and nothing when they
  do not, in whatever order they came.  `EntryInv`: the entry remembers just what that takes, a dispute
  included, even in the MySQL rule, whose only mark of a dispute is the missing value.  `DiskIdentityExact`: no series'
  serial number is lost or overwritten.  `JavaFailsForCause`: an older record never makes a snapshot fail.
- *Discovery.*  `FlightsLed`, `OneSource`, `KnownNeverWaits`, `CallersReturn`.
- *Host list.*  `MissedForExchange`: whatever pages repeat or skip, a list that succeeds lacks a target last counted only
  if it has another that was not counted; so it is never short.  It may hold one target in place of another: the
  code cannot know better.  `ListingsReturn`: each load of the list ends, through pages and discovery.
- *Views.*  `AlertsExplainStatus`: no alert category of the overview counts a thing at a higher level than the thing is
  affected at, and some category counts it at that very level, though different code works them out.  The levels are those
  the code counts: what is unknown is a warning for MySQL, Redis and Elasticsearch, nothing in the categories of disks
  but a warning among the affected ones, and counted by itself for RabbitMQ and Java.  Two cases are left without an
  alert by the code and named in the formula: a disk whose status is unknown (`addDiskAlert` counts warning and critical only,
  as the disk design says) and an Elasticsearch node whose status comes from its collection, which has no
  category.  Without either exception TLC finds the formula violated.  `OverviewCountsLists`: the counts of the overview are the lengths of the filtered lists.
  `PagesPartition`: a reader sees every matching row once, while snapshots list the same rows in another order.
  `NoSlicePanic`: no page, however far on, makes a slice panic.  `MissingLast`: rows without a figure come last, ascending
  and descending.  `UnassignedExact`: the sum of unassigned shards is exact or the largest int, in any order of
  summing.  `OnlyNewsImproves`: a sample that only grows older lowers no status.

## 5. What is proved

The proofs hold for any number of callers, keys, calls, tokens, addresses and any bounds, from the
named assumptions in the modules (`ConstantsAssumption` and so on: the absent value is none of the others,
bounds are naturals).

- **`CacheStoreProofs`.**  `SharingInv` is inductive: it adds to the type that a request refers to a call
  exactly in its waiting steps and for the same key; that the call in flight for a key is active and not
  abandoned and loads that key; that its waiter count is the number of requests on it, and positive; and that a canceled
  call is an abandoned one.  Without the last two a step of `leave` could cancel a load that others wait
  for.  From it follow `TypeCorrect`, `OneLoadPerKey`, `WaitersExact`, `CancellationStaysPrivate`.
  The order of reads rests on `ReadsInv` beside `SharingInv`: entries lie in the past (`EntriesPast`); what has
  been served is in an entry or older (`ServedKnown`); the load in flight is ahead of the entry (`LoadsAhead`), also when an
  abandoned one ends beside it; who joined it is no further on than it is (`RequestAhead`); and an answer is right (`AnswerRight`).
  From it: `ReadsMonotone`, `StaleIsExpired` and the action property `EntriesForward`.
  Both refinements follow, step by step, from the same two: `StoreLoadsOneAtATime`, every step of the store is a step of
  `LoadSlot` or leaves the loads as they are; and `StoreKeepsContract`, every step is a step of `CacheContract` or leaves
  the callers as they are.  The second needs `RequestsInv` as well: no
  request has read the clock ahead of time (`StartsPast`), and only a request whose own context has ended stops waiting for
  its load (`LeaveEnded`), so that an answer with a context error is the caller's own.
- **`SnapshotServiceProofs`.**  The invariant is about sightings: loads that have shown something to the tracker, cached
  entries and the tracker's own are sighted (`LoadsPlaced`, `EntriesSighted`, `TrackerSighted`), sightings lie in the
  past, no loader is more than `LoadBound` behind its reading of the clock (`LoadsTimely`), so no age counts from longer than that
  before a sighting (`AgesNotEarly`), and while a source is shown in order the tracker has its newest sample and no age
  counts from after the first sighting (`AgesNotLate`).  From it: `ServiceTypeCorrect`, `NeverEarly`, `AgesTrue`, for any keys, sources and interleavings of loads.
  `ServiceLoadsThroughSlot` shows that a service does to loads and entries only what `LoadSlot` allows, which is what
  `StoreLoadsOneAtATime` shows the store to implement: the two models meet there.
- **`AuthServiceProofs`.**  The invariant joins the type, who holds the limiter's lock, that the holder's address has
  room for one more failure (`Headroom`), that clock readings lie in the past, that tokens are issued
  once, and that the live sessions are those issued and not denied (`SessionsTrue`).  From it: `TypeCorrect`,
  `TriesNeverShared`, `TableBounded`, and the action properties `FailuresForgottenForCause`, `DenialIsFinal` and `SessionsAreKept`.
- **`DatasourceDiscoveryProofs`.**  The invariant says that the flight in `discovery` is led and not
  done, that none is in flight once the id is known, that a done flight's answer agrees with the id, and
  that who knew the id at entry finds it known.  From it: `TypeCorrect`, `OneDiscoveryAtATime`, `AllQueriesOneSource`, `KnownIsEnough`.
  `ListingDiscovers` shows that `TargetListing` takes only steps of the discovery, so all of this holds under it;
  `ListsCounted`, that a finished list is as long as the last total, gives `NothingMissedUnnoticed`, as a finite set has
  no proper subset of its own size.
- **`SeriesMergeProofs`.**  The invariant is `EntryInv`: the entry has the newest time, and either it is calm and all newest series have
  its value, or it is marked and two of them differ.  `Law` says how one merge changes an entry that is older, newer or as
  old as the series; one lemma per rule shows that the rule obeys it, so the proof that a step keeps the
  invariant is the same for all.  The MySQL and Java rules do so only because they never merge a blank value, and
  Java's only because a missing value is always marked, which the invariant provides.  From it: `EntryCorrect`,
  `NewestShown`, `DiskIdentity`, `JavaCause`, for any set of times later than zero, any values and serial numbers.
- **`ListingProofs`.**  About the operators of `Listing`.  `ListsTotallyOrdered`: the comparison of rows under any field but the
  addresses of MySQL and Redis (section 6), in either direction, is a strict total order when ids differ.  `OneList`: in such an
  order the sorted list of the rows that match is the same in whatever order the rows came, for lists of any
  length.  `PagesWithinLists`: the slice of a page that was accepted or clamped lies in the list, for any `MaxInt`.
  What a fold computes takes an induction: a fold over a finite set or a list is a function on its subsets, which
  `FoldingExists` and `FoldLeftExists` construct with the well-founded induction of the library, and the property
  in question is a *set* of numbers that 0 is in and every next number (`NatSetInduction`).
- **`ModuleViewsProofs`.**  Every status is the highest of what does not depend on age and the collection level, and also of the
  findings behind the alerts (with the collection level, for Elasticsearch); one lemma per service shows both (`<Kind>Status`), and that either only rises with age
  (`<Kind>Rises`), as the collection level does (`CollectedRises`).  The invariant `Typed` says that rows have the type of their
  kind and ages are legal.  What the categories count is those findings with the unknown put elsewhere (`CountedRange`), and that
  keeps their order (`CountedExplains`).  From these: `AlertsExplain` and the action property `TimeNeverHeals`, for snapshots of any size with
  figures of any kind, from `ViewsAssumption` and `SnapshotsAssumption`.
- **`ModuleListsProofs`.**  What the services show of a snapshot, from `ListsAssumption` besides: a list and a page together are
  counted by an int, as everything that fits into memory is.  The lists of the seven services are put into one form (`PageIs`):
  the rows that match, in one order, of which a page is a slice.  Three invariants follow each other.  `Countable`: a
  snapshot lists each row once.  `Turning`: who turns a page was told that there are more, so that the next page is within an
  int although nothing looks at its number again.  `Seen`: the reader has seen the list just up to the present page; it is
  inductive as a snapshot with the same things in another order, or with older or newer samples, leaves the list
  what it was (`ListStays`, by `OneList`).  From the first: `OverviewAgreesWithLists` and, with the finiteness of the
  clusters, `UnassignedShardsExact`; from the second: `NoSliceOutOfBounds`; from the third: `PagesPartitionLists` and `MissingComesLast`.
  `PagesPartitionLists` has a hypothesis about the behaviour, `AddressesAlike`: while a list *sorted by addresses* is read, its
  addresses are all IP addresses or all none.  It cannot be dropped: others have no one order (section 6), and the list
  then does depend on the order of the snapshot.  For all other lists the hypothesis says nothing.

So each safety property of every passing run, the action properties and the two refinements included, is proved.
Model-checked only is all liveness (`EveryRequestReturns`, `CanceledRequestReturns`, `RequestsReturn`, `CallersReturn`,
`ListingsReturn`), as fairness and `ENABLED` are beyond the prover's backends.

## 6. Disagreements found

- **A stall can be masked** (run `masked_stall`).  `observeLocked` takes every sample time that *differs* from the last
  for an advance.  A slow loader of the host list that reports an old sample after a detail page has
  reported the newest makes the newest an advance again when it is next loaded, and a host that has not
  advanced for two intervals and the time of a load is shown as normal; `README.md` line 7 says it is shown as
  delayed.  The backward rebase itself is intended (`freshness_test.go`); that two keys feed one tracker
  out of order is what nobody tests.
- **Progress can be lost** (run `lost_progress`).  Elasticsearch observes and captures in two critical sections.
  If an abandoned loader observes another sample in between, nothing is captured and a cluster whose
  sample was just seen is shown as gone, against `docs/ARCHITECTURE.md` line 39.

- **A disk's model depends on the order of its series** (run `disk_model`).  When the newest series of a device has no model,
  `buildDiskStates` (line 164) fills it from another and keeps no time of it; a newer named series that comes later is not
  newer than the entry and is ignored.  The design (`docs/superpowers/specs/2026-07-30-host-disk-smart-module-design.md` line 146) prefers
  the newer of the models that are not missing, and the plan (`docs/superpowers/plans/2026-07-30-host-disk-smart-module.md` line
  266) wants independence of the order.

- **Addresses are not always in order** (run `address_order`).  `compareAddresses` (`mysql_service.go` line 351) compares two addresses as
  IP addresses if it can parse both and as texts otherwise, which is not transitive: with a host name among
  them, two IP addresses may be listed in the wrong order, depending on the order of the snapshot.
  `docs/datasources/NIGHTINGALE.md` line 60 says that the list is sorted naturally by IP and port.

Not a disagreement, but worth knowing: a follower of a discovery gets its leader's error, the leader's
cancellation included.  The cache promises its waiters more than that; no document promises it here.

## 7. Not modelled

- `Allow`, `RecordFailure` and `Reset` of the limiter: tests alone call them.
- Origin checks, client addresses behind proxies, request ids, headers and cookies' attributes; routes, the parsing of
  parameters, and the bodies of answers and errors.
- Clock steps backwards; panics in loaders (they end the process, which has nothing to recover).
- The growth of the cache's and the trackers' maps: nothing bounds them but the inventory.
- In the views: the wording of labels and what search matches in a text (a text matches or does not), floating point
  figures beyond the side of a limit they lie on, the filter `cluster_health` of the Elasticsearch nodes
  (`elasticsearch_service.go` lines 212 and 532; that list is sorted by it all the same), the uptime of a Java service as a
  function of the present (a start in the future gives none until then; in the model it is a fixed figure), the copying of snapshots (a copy is a value in the model, so shared
  memory is not looked at).
- Averages and trends: `metrics.go` and the trends of the overview are arithmetic on floating point numbers behind
  `GetOrLoad`, which is modelled.  The host page joins the host's answers with its disks.
- In the providers: which instance a series belongs to, conflicts of serial numbers between devices, sums over
  series, the discovery of RabbitMQ nodes from connections, the figures of the host list.
- The process lifecycle: signals, `http.Server.Shutdown` and its deadline are the library's work; the upstream
  timeouts it sets up are in the models as `LoadBound` and as fairness.
- The web session (`AuthProvider.tsx`): what the browser believes of being logged in; the server's side is `AuthService`.
- Everything in 1.3.

## 8. Where to go on

1. `WebSession`: login, logout and late 401s in the browser, composed with `AuthService`'s view of a token.  The question is
   whether a 401 that answers a query of an older session can end a newer one.
2. `RabbitMQDiscovery`: nodes found through inventory, history and connections, whose cluster may depend on the order
   of series; and conflicts of identity between devices, which `SeriesMerge` leaves out.
3. The clock set back: `Freshness` with a wall clock that steps.
4. Proofs: the safety of the modules above as they are written.
