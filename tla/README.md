# Formal model of GraphPost

GraphPost is a Go server that puts a GraphQL API in front of PostgreSQL. Beside
the API it delivers database changes to webhooks (event triggers), pushes them
to clients (subscriptions, live queries), caches results, and keeps analytical
aggregates up to date. This directory holds TLA+ modules of its stateful parts,
TLC configurations that check them on small instances, and proofs.

    tlc -workers 2 -config MCEventTriggers_one.cfg MCEventTriggers
    tlapm EventTriggersProofs.tla
    tlapm SubscriptionsProofs.tla

and so on for the runs of section 4 and the `*Proofs` modules of section 5.

Paths below are relative to `src/`.

## 1. The system

| component | state | operations | who touches it |
|---|---|---|---|
| Event triggers, `internal/events/triggers.go` | table `graphpost_events` in PostgreSQL, triggers installed there; per process the registry, `eventQueue`, `workerPool`, `stopChan` | Start, Stop, Register/UnregisterTrigger, pollEvents + fetchPendingEvents, processEvents + deliverEvent, InvokeEventTrigger, RedeliverEvent | every process that shares the database; one poller, one processor and a pool of workers in each |
| Table subscriptions, `Manager` of `internal/subscription/manager.go` and `Listener` of `internal/database/connection.go` | map of subscribers per table, one connection and goroutine per table | Start, Subscribe, Unsubscribe, handleNotifications, broadcastEvent, Stop | engine; client goroutines; PostgreSQL's NOTIFY |
| Live queries, `LiveQueryManager` of the same file | map of queries, `lastHash` per query | Subscribe, Unsubscribe, pollAllQueries, pollQuery | a ticker and one goroutine per query and tick |
| Memory cache, `internal/cache/memory.go` | map, LRU list, byte count, statistics | Get, Set, Delete, Clear, cleanup | callers and the cleanup goroutine, under one mutex |
| Cache manager, `internal/cache/cache.go` | counters of its own | GetQueryResult, SetQueryResult, GetSchema, SetSchema, InvalidateTable, Clear, over either backend | callers |
| Redis cache, `internal/cache/redis.go` | keys and tag sets in Redis | Get/Set/Delete, Clear and InvalidatePattern (SCAN page by page), SetWithTags, InvalidateTag | every process that shares Redis |
| Shutdown manager, `internal/engine/shutdown.go` | components, `shuttingDown`, `activeRequests`, three timers | RegisterComponent, Increment/DecrementRequests, Shutdown | signal handler, server, request goroutines |
| Engine, `internal/engine/engine.go` | `mu`, `ready`, tables, resolver, GraphQL schema | Initialize, ExecuteQuery, Reload, Stop | server, shutdown manager |
| Connection pool, `Connection` of `internal/database/connection.go` | pool, `shuttingDown`, `closeOnce`, `closed` | Query, Exec, Transaction, Close, GracefulClose, Shutdown | all of the above |
| Introspector, `internal/database/introspector.go` | none | reads tables, columns, keys, foreign keys, views and enums by queries of their own | Initialize and Reload, under `mu` |
| Schema generator, `internal/schema/generator.go` | types and inputs it has made, per call | from tables and foreign keys to object types, inputs and root fields | Initialize and Reload |
| HTTP server, `internal/engine/server.go` | none that outlives a request | handlers | clients |
| Aggregates, `internal/analytics/` `materialized.go`, `refresh.go`, `router.go` | definitions (in memory and in DuckDB) and stored values (in DuckDB) | create, delete, refresh (scheduled, on demand, on change, lazily), route a query to a stored value | scheduler and its workers, one goroutine per noticed change, callers |
| Change data capture, `internal/analytics/cdc_listener.go` | monitored tables, the counters seen last, a connection for LISTEN | Start, Stop, pollLoop, listenLoop | analytics engine; PostgreSQL's counters and notifications |
| Authentication and permissions, `internal/auth/auth.go` | a cache of the provider's keys (JWKS), permission rules | authenticate a request by secret, webhook or token; check, filter | request goroutines; `authMiddleware` of the server |
| Resolver, `internal/resolver/resolver.go` | none | builds SQL with numbered arguments, runs it | request goroutines |
| Configuration, telemetry, logging, console | | | |

No `main` package is in the repository: nothing calls `ShutdownManager`,
`LiveQueryManager`, `cache.Manager`, `AnalyticsEngine`, `CheckPermission`,
`ApplyRowFilter`, `Connection.Transaction` or `Connection.trackQuery`. Their modules
take callers to do whatever the exported interface allows. The engine calls
`TriggerManager` and `subscription.Manager`.

How they interact:

- The engine makes and stops the other parts under `mu`: `subManager.Stop`,
  `triggerManager.Stop`, `db.GracefulClose`, in this order.
- The event-trigger processes know of each other through the table only. The
  poller talks to PostgreSQL on two connections at a time (the open result and
  the claims), the processor to workers through a token channel.
- The poller and Reload keep one connection of the pool for the rows they range over
  and ask for a second one in the body of the loop; statements and transactions need
  one. Reload does so with `mu` locked.
- Subscribers get events over channels of limited capacity that the manager
  never waits for.
- A change that the listener notices starts a refresh of every CDC aggregate in
  goroutines nobody waits for. Stopping the analytics engine waits for the scheduler
  and for the listener, then closes DuckDB under the refreshes in flight.
- A permission rule's filter and the caller's become one filter, which the resolver
  turns into SQL.
- The shutdown manager stops components one at a time, the connection and the
  engine perhaps both; each of them closes the pool.

What is hard here, in the order of the plan: claims that are not atomic with the
SELECT that found the rows, across processes, crashes and failed statements;
retries decided on a stale count; maps iterated without their lock; values
dropped when a channel is full; two data structures that must agree; sweeps over
keys that others store; a catalog read query by query while DDL runs; connections
held while waiting for more; fields written in the random order of a map; shutdown
under timers, with callers racing; multi-statement writes that no transaction
holds together; a key cache that expires under many requests; argument positions
counted through nested conditions. The list, line by line, is `hazards` in `PROJECT.json`.

What correctness means for each:

- *Event triggers*: one delivery of an event at a time; at most
  `num_retries + 1` requests; no request after a 2xx answer; the final status
  tells what happened; every event gets a final status.
- *Subscriptions*: order, no duplicates, no loss but what a full or closed
  channel explains; no channel closed twice; a slow client delays nobody.
- *Live queries*: a result is sent when it has changed, and the last one arrives.
- *Caches*: a hit is the last value written and not expired; a miss has a
  reason; counts are exact; the evicted value is the least recently used;
  invalidation reaches what it names.
- *Shutdown*: each component once, in reverse order, after the drain; the first
  error is reported; it ends, and is not killed when it ended in time.
- *Schema*: a reload of a database that stands still installs it exactly; whatever was
  read, each table is served by fields of its own, alike in queries, mutations and
  subscriptions, in whatever order maps are ranged over.
- *Connection pool*: whoever asks for a connection gets one, and it comes back.
- *Engine*: a query sees an engine nobody stops; whoever is told
  the pool is closed finds it closed; Stop ends.
- *Aggregates*: a stored number that is served was true when it was computed, and that was not long ago; an undisturbed
  refresh leaves the groups its query found; what is due is refreshed.
- *Change data capture*: a change is followed by a refresh; Stop ends.
- *Authentication*: a session is earned; a withdrawn key is soon useless; every
  request is answered.
- *Permissions*: the rows an operation reads or writes satisfy the rule and the
  caller's filter.
- *Resolver*: the SQL with its arguments does what the filter, page or edit means.

## 2. Plan

| step | modules | what it adds | state |
|---|---|---|---|
| 1 | `EventTriggers`, abstract `EventDelivery` | the part with most at stake; refinement | done |
| 2 | `Subscriptions`, `LiveQueries` | delivery to clients | done |
| 3 | `MemoryCache`, `RedisCache`, `CacheManager` (over both) | caches | done |
| 4 | `Shutdown`, `EngineLifecycle` | start and end of the program | done |
| 5 | `Aggregates`, `CDCListener`, composed by `Analytics` | refresh against readers, deletion and change events; the scheduler's semaphore and its Stop; Stop of the listener while it reconnects | done |
| 6 | `Resolver`, `Permissions` (extends it), `Authenticator` | numbering of SQL arguments and row filters against a reference meaning, over bounded inputs; the shared key cache | done |
| 7 | `ConnectionPool`, `SchemaGenerator`, `SchemaReload` (extends both) | Reload query by query against DDL, and against the other users of the pool; what is generated from it | done |
| 8 | `EventTriggersProofs` | types, all five invariants and the refinement of `EventDelivery` | done |
| 9 | `SubscriptionsProofs`, `LiveQueriesProofs`, `CacheManagerProofs`, `ShutdownProofs` (with `EngineLifecycle`), `AuthenticatorProofs`, `AnalyticsProofs` | the safety properties of the other components | done |
| 10 | `CacheManagerProofs`, `SchemaReloadProofs` | the manager's accounts, the order of eviction, what a reload installs, what is generated from it, who keeps connections | done |

Composition: `CacheManager` extends `MemoryCache`, takes `RedisCache` as an instance,
and conjoins the operations of the backend chosen with the manager's counters.
`SchemaReload` extends `ConnectionPool`, whose other users run beside it, and
`SchemaGenerator`, whose operators it evaluates on what it has read. `EngineLifecycle` models engine and connection
together, since the interesting states are pairs of theirs. `EventDelivery` is
the abstract specification `EventTriggers` implements (`DeliversAsPromised`).
Between `Shutdown` and the parts it stops there is a contract: `StopsInReverse`
says that a component is stopped once at most, and this is what
`TriggerManager.Stop` and `Manager.Stop` rely on (each closes channels without
looking whether they are closed). `Analytics` extends `Aggregates` and
`CDCListener`: a noticed change and the refreshes it starts are one step, and its
Start and Stop run through both. `Permissions` extends `Resolver`: the filter it
makes is run as SQL.

## 3. The modules and the code

Every definition that models code has its lines in `map` of `PROJECT.json`.
Definitions whose name ends in an underscore and a word (`Claim_NoMark`) are
faulty variants of the one that follows them: with the variant in its place the
property named for it in `mutants` fails.

**EventTriggers.** `status`, `retries`, `error` are the columns of the table;
`phase`, `registered`, `queue`, `held`, `jobs` the fields and goroutines of a
process. The poller is a program counter: `Fetch` (the SELECT), `Claim` (the
UPDATE of the next row), `Enqueue` or `QueueFull` then `Release`, `FetchEnds`.
The row locks of `FOR UPDATE` live as long as the statement, that is, until the
server has sent the last row (`SelectEnds`). It cannot while more rows are unread
than the client side buffers (`StreamRows`), and until then every UPDATE of such
a row waits, also the claim of the same process: a hang in the code whenever a
result larger than the buffers is returned, and one that `EveryEventSettles`
excludes by `StreamRows` being no smaller than the batch. `Take`,
`StartJob`, `Lookup`, `Post`, `Mark` are `processEvents` and `deliverEvent`.
Any statement may fail (`Fails`) wherever the code ignores its error; a process
may end at any point (`Exit`), and may be created again. `posts`, `acked` and
`dirty` are history variables. An event is *dirty* once a claim did not take the
row as it had been read, because the statement failed or another process came
first: from there on two copies may exist, and the code promises nothing. A row is on its way
(`OnItsWay`) while a copy of it is claimed, held, with a worker, or in a queue that somebody
still reads: after Stop nobody does, and `NoOrphan` names that among the ways to strand a row.

**EventDelivery.** What a client of event triggers may count on, in six actions.

**Subscriptions.** One action per step of a table's goroutine: `Receive` reads a
notification and begins the iteration, `Visit` serves any one entry (Go's map
order), `BroadcastEnds`. `Subscribe` and `Unsubscribe` while the iteration runs
either kill the process (`fault`) or let it go on with an entry that may or may
not be produced. A broken connection is not replaced (`ConnectionBreaks`).

**LiveQueries.** `Tick` takes the snapshot, `Launch` starts a goroutine,
`Resolve`, `Compare`, `Store`, `Send` are `pollQuery`. Results stand for their
hashes. Two unprotected writers of the string may leave neither's hash.

**MemoryCache, RedisCache, CacheManager.** Every operation of the memory cache holds
the mutex throughout and is one action. Of the Redis cache each command is one, and
other callers' commands come between them. `Clear` and `InvalidatePattern` are sweeps:
`Scan` brings a page of keys, `DelPage` deletes them, until the cursor is back at 0;
what SCAN promises is that a key there from beginning to end is among the pages
(`owed`). `SetTagged`, `SAdd`, `Expire`, `Stored` are the pipeline of `SetWithTags`,
`DelKeys` and `DelTag` the end of `InvalidateTag`; a connection may break at any point
(`Breaks`), and the clock moves between any two commands. Any caller may tag. `promised`
keeps the values and tags of calls that have returned nil (of a key others have set
anew meanwhile the call promises nothing: `mine`), and `parted` those that Redis has
separated although every call succeeded. The manager's backend is chosen in `Init`; it
counts in a second step (`Count`), but not a hit whose value does not decode (`Lookup`). `ReadsLastWrite` is one property of both backends. A value set with a ttl of
0 or less has no end in Redis (`Expiry`), since go-redis then sends no expiry.
`ManagerAssumption` keeps a cached value apart from the two answers that are none, a
miss and a failed command, as the code does by its second result, and takes a tagged
call's ttl not to be negative (go-redis reads -1 as "keep the old expiry"). `list` is
the linked list of the memory cache, least recent last; what it becomes is said in closed form:
`Without` and `ToFront` put the places that stay in `Ascending` order, and the bytes in use are
the number of `Octets`, pairs of an entry and a number below its size.

**Shutdown.** A caller's program counter goes through Begin (the swap of `shuttingDown`) or
Refuse, `Arm` (after the hook `onShutdownStart`, the timers are set), the drain loop, the copy
of the component list, and the components. Hooks and components are the caller's code: any of
them may hang, the first hook also before there is a timer, and then nothing ends the call. `now` is the time
since the timers were set, `timer` the one that kills the process. `ForceExit` is the function
of that timer, which runs beside the call that may be about to stop it.
`TimersAssumption` has the force timer positive, since a 0 is replaced by the default; `ResultsAssumption` keeps the names of components apart from "no error yet"
and nil, which are different types in the code.

**EngineLifecycle.** `holder` and `pending` are the RWMutex: a waiting writer
keeps new readers out. `CloseBegins`, `QueriesWaited`, `OnceEnter`, `PoolClosed`,
`Watched` are GracefulClose and Close. `ActiveQueries` is 0 because nothing calls
`trackQuery`. The first call on an engine is taken to be Initialize. pgxpool is
external: Close refuses new connections at once and returns when all are back. What
Reload reads is the part of `SchemaReload`. `WritersAssumption` says that a goroutine
that reloads is not the one that initialises or stops the engine. Its specification is
`EngineSpec`, since a module that proves about it extends `Shutdown` too.

**ConnectionPool.** `held` are the users that keep a connection: `poll` and `rows` are
the poller's progress through its result, `tx` a caller's transaction, which stays open as
long as the function that the caller has passed pleases. A statement by
itself takes a free connection and gives it back in one step. The listener of change
events hijacks its connection (`cdc_listener.go:226`), which then is no longer the
pool's. `FnEnds` is the end of a transaction by return, error or panic.

**SchemaReload.** `at` is the query the reload is about to make, `todo` the names among
the open rows it has not seen, `work` the Schema it builds. `Db` is the catalog of
PostgreSQL at that moment; DDL replaces it between any two queries (`AlterDatabase`).
`ReadKey` and `ReadForeign` are the joins of the code, by the constraint's name alone:
a name that two tables use mixes their columns, in any way the rows may be sorted.
`begun` and `installed` are history: which catalog was seen, or "torn". `Sorted` is ORDER BY, a
function from a set of names to their sequence. `CatalogsAssumption` says what PostgreSQL
keeps (`WellFormed`): tables and views share no name, nor do the columns of one, a key is made
of columns of its table, the udt_name of an array is an underscore and a type, and ORDER BY
lists each name once.

**SchemaGenerator.** Operators only. A name is the sequence of its words, so that names
that meet (`users_by_pk` as a table) and names with one Pascal form are there. The name of a
root field is a table's name between a verb and an ending (`Root`), and `QueryRoots`,
`MutationRoots` and `SubscriptionRoots` are what a table gives each root object. The fields
of an object are merged from those of its parts, of which the last to write a name stays
(`Merged`), as in a Go map; the orders in which maps are ranged over are arguments of
`Generate`. `OrderBy` is the cache of
sort inputs under the Pascal name: the first to ask gives it its columns. Scalars are
modelled by name. Queries, mutations and subscriptions are enabled.

**Aggregates.** `rows` and `values` are the two DuckDB tables, `defs` the map in
memory. A refresh is a record in `work` that goes through `ClearAggregateValues`,
`ExecuteAggregation` (the query on PostgreSQL), one `StoreAggregateValue` per group
and `UpdateLastRefreshed`; each may fail (`RefreshFails`), also because its deadline
is over. `then` holds the aggregates that RefreshAll still has to do. The scheduler
is a program counter: `SchedulerTick` finds what is due, `SchedulerSpawn` starts it
under the semaphore, `SchedulerWait` is `wg.Wait`. What a query may be answered with
is a predicate (`Served`), since routing changes nothing; only a lazy aggregate that
has to be computed takes two steps. An identifier is a hash of the definition's
content, so that two definitions with one identifier differ in strategy only.
`COUNT` stands for all the functions. Who starts a refresh decides what deadline it has
(`Timeout`): `RefreshTimeout` if the scheduler or a change did, the fixed five minutes of
`router.go:309` (`FirstTimeout`) if it is the first of a new aggregate. One that a client asks
for, and the computation of a lazy request, run under the caller's context and have none
(`router.go:326`, `refresh.go:517`). A refresh without a deadline may take any time, and
nothing assumes that it returns. A lazy request turns its key back into a condition with
'%v' (`refresh.go:632`), so that it may count other rows than those of the group it was
asked for: `ReadAs` says which groups the condition of a key finds, for each group one of its own
choice, and the number is stored under the key that was asked for (`LazyNumber`). In the run one
of the two groups is that of NULL, whose condition `= '<nil>'` finds none.
Three things are history: `lastHad` (for each group and each number it has had, the last time it
had it), and in each stored value who stored it and when that refresh or request began (`by`,
`since`). `HitIsRecent` asks them whether a served number was true then or later, and how old it
is where there was a deadline; it excepts a number that a lazy request stored under a key it
reads as another (`Misread`). `values` has an entry for the keys that are stored and no other.
The refresh log is left out.

**CDCListener.** `poller` and `listener` are the two goroutines. `Connect` is the look at the
stop channel and the call of `pgx.Connect`, `Connected` its answer; in between `l.conn` is nil
and Stop finds nothing to close, so that the connection may open after it. With them, `Listen`,
`Select`, `Notification` and `WaitFails` are `connectAndListen`; `TestConnection`
and `CloseConnection` are the two reads of `l.conn` in Stop, which takes no lock
for them. One table is watched.

**Analytics.** Start, Stop, row changes, and what a noticed change starts. `setup` is the
configuration, chosen at the beginning; `SetupsAssumption` says that it speaks of
aggregates there are.

**Resolver.** A Go map is the sequence in which `range` happens to yield it. SQL
text is a tree in which placeholders are numbers, next to the list of arguments;
`Eval` and `Run` are what PostgreSQL makes of them (three-valued logic, primary key),
`Meaning` says independently what a filter means. `ResolveAggregate` is three
statements with writes of other clients between them. `_eq`, `_neq` and `_gt` stand
for all operators of one argument. Ordering and DISTINCT ON are left out.

**Permissions.** Rules are added in any order; `GetPermissions`, `CheckPermission`,
`ApplyRowFilter` and the substitution of session variables are functions.

**Authenticator.** A request goes through secret, webhook and token
(`AuthenticateRequest`, `WebhookAnswers`, `BeginToken`), the key cache (`ReadCache`,
`Lock`, `ProviderAnswers`, `StoreKeys` or `FetchFails`), `Verify` and `CheckClaims`.
A signature is the key it was made with. `lock` is the write lock of `jwksMu`, held
during the fetch. The provider may take back or add a key at any time (`Rotate`).
`AuthenticatorAssumption` keeps "no client", "no key" and "no time" apart from clients,
keys and times (nil pointers and zero times in the code), a configured key apart from
those of the provider, and takes a token's allowed roles to be a list.

## 4. What is checked

| run | shows | states |
|---|---|---|
| `events_one` | one process, two events, a manual one, retry limit 1, queue and pool of 1, a crash and a redelivery: which steps may strand a row, and it implements EventDelivery | 1.2 M |
| `events_two` | two processes on one event, with a failed statement and a crash: what survives sharing, up to the moment the claim of the event is disturbed | 251 k |
| `events_live` | liveness: events settle and manual calls return while nothing fails or stops | 107 k |
| `subscriptions` | three subscribers of one table, two with the same ID, a channel of 1, two notifications, broken connections, Stop | 254 k |
| `live_queries` | two queries with one ID, two overlapping polls of the first, a result that changes and changes back, one failed execution | 952 k |
| `caches` | either backend under two callers and a clock: two queries and a schema, a memory cache of two places with values of two sizes, Redis with sweeps in pages, one tag which both callers use with two lifetimes, one broken connection, values that do not decode | 1.6 M |
| `schema` | reloads, a poller and transactions on three connections; five catalogs, of which DDL makes one of another at any query; any query may fail, any function panic | 66 k |
| `shutdown` | two callers, two requests, three components, any of which may hang, as may the hooks; drain, total and force timers at 1, 2, 3 | 607 k |
| `engine` | two queries, two reloads, a task that uses the pool without the lock, three ways to close it | 188 k |
| `requests` | every table of up to two rows, six filters nested two deep (two in both orders of the map), pages, edits and batches; two permission rules and three sessions; one aggregate with writes between its statements | 1.2 k |
| `authenticator` | two requests of seven kinds at a time, four configurations, an RSA and an EC key of which the provider takes back or adds one, fetches that fail | 251 k |
| `analytics` | eight configurations, each with its strategies and calls: on demand, created and deleted, lazy, scheduled, and CDC by polling, by notification, by both and by callback; Stop at any moment, also during a connect | 184 k |

The properties, by module, each with its comment in the module:

- EventTriggers: `SingleCopy`, `CopyOwnsRow`, `NoOrphan`, `RetryBudget`,
  `StatusTellsOutcome`, `DeliversAsPromised`;
  `EveryEventSettles`. `DeliversAsPromised` says of one process, without the
  condition "clean", what `RetryBudget` and `StatusTellsOutcome` say of two.
- Subscriptions: `InOrder`, `NoSilentGap`, `ClosedOnceBeforeStop`,
  `EveryNotificationHandled`.
- LiveQueries: `NoRepeat`, `EventuallyCurrent`.
- MemoryCache and CacheManager: `AccountsAgree`, `EvictsLeastRecent`; over both backends
  `ReadsLastWrite`; RedisCache: `TagsCover`.
- SchemaReload: `ReloadIsFaithful`, `RootsServeTables`, `EveryCallServed`.
- Shutdown: `StopsInReverse`, `ReturnIsFinal`, `ShutdownEnds`.
- EngineLifecycle: `QueriesSeeEngine`, `NilMeansClosed`, `StopEnds`.
- Aggregates: `HitIsRecent`, `AloneIsExact`; Analytics: `ChangeIsPickedUp`,
  `DueIsRefreshed`, `StopEnds`.
- Resolver: `QueryAnswersFilter`, `WritesAsAsked`, `AggregateAgrees`; Permissions:
  `RowFilterHolds`. The first, second and fourth quantify over all inputs in every
  state, so that the states are the tables and the sets of rules.
- Authenticator: `SessionEarned`, `FetchesApart`, `WithdrawnKeyDies`,
  `EveryRequestAnswered`.

### Bounds

- Queue, pool and channels of capacity 1 make "full" and "all busy" ordinary
  states; a second event or notification is what finds them so.
- Retry limit 1 has the three attempts that matter: the first, the one after a
  retry, the one that would be too many. Trigger `u` of `events_live` has limit 0.
- `events_one` has no failing statement, since `EventDelivery` allows none: that a failed UPDATE may
  strand a row, and what it may not do, is part of the theorem `NoneStranded` only.
- In `events_two` exploration stops at states where a claim has been disturbed
  (`Undisturbed`): the properties say nothing of a disturbed event, and with one
  event nothing else is left to see. Processes are interchangeable there, and no
  liveness is checked under that symmetry.
- `MaxFaults`, `MaxExits`, `MaxRedeliver`, `MaxNotify`, `MaxChanges`,
  `MaxErrors`, `MaxDDL`, `MaxRows`, `MaxTime`, `MaxCalls`, `Overlap` bound what the
  surroundings do, never what the code does once it has been asked. One crash
  already comes at every step, one failed statement at every statement.
- `caches`: the memory cache has two places for three keys, so that recency decides; two
  sizes tell a byte count that adds from one that replaces. A page of SCAN holds one
  key, so that stores and deletions come between pages. Query results live one tick,
  the schema two, and time stops at two. `MaxCalls` and `MaxAsked` (one each) bound
  what a caller asks for in all.
- `schema`: three connections are one more than the two nested users, the least with
  which nobody waits for ever (with two, TLC finds the standstill in ten steps). The
  catalogs: users and posts with a foreign key, an enum, a point and a view; users alone,
  the point become a number of the key; users
  turned into a view; a key of two columns with a foreign key of two and one to itself;
  names that meet and a constraint name used twice. One change per behaviour: each
  reload sees two catalogs at most, and every pair of neighbouring queries falls on
  either side of it. One caller of Reload suffices, since `mu` lets one in at a time;
  `engine` has two.
- The timers keep the order of the defaults in the code (drain < total < force);
  their ratio does not matter to the properties.
- `analytics`: two groups of one row at most, so that groups vanish and appear; two
  refreshes in flight, the least that overlap; a deadline of one tick for refreshes of the
  scheduler and of changes, one that ends with the tick it began in for first refreshes, none for
  the others; a staleness and a TTL of one tick, and up to two ticks, so that values
  age beyond all of these. Each configuration of `MCSetups` has its own bounds on
  ticks, edits and changes, just large enough for its calls to collide.
- `authenticator`: keys live two ticks and a fetch takes one at most, so that a key
  withdrawn during a fetch outlives it; one rotation, three ticks.
- `requests`: ids 1 and 2, a nullable column with 0, 1 and NULL. Aggregates and rules
  share nothing and are not explored together (constraint `Apart`).
- Runs with CHECK_DEADLOCK FALSE model parts that really end: a stopped manager,
  a finished shutdown, a closed engine, clients that go away.

### Fairness

Weak fairness of goroutines: a runnable one runs. Beyond that:

- EventTriggers: the one-second ticker fires, PostgreSQL answers, the HTTP client
  has a timeout of its own (60 s), a process is created and started. Nothing is
  assumed of the application that writes, of registrations, of stops or crashes.
- Subscriptions: only the listener goroutines. Clients need not read.
- LiveQueries: the ticker fires and executions end. Nothing else is assumed of
  clients; that a client keeps room is a premise of `EventuallyCurrent`.
- Shutdown: the timers fire and the function of the force timer ends the process. Nothing is
  assumed of requests, components and hooks, nor of the calls of Shutdown themselves:
  `ShutdownEnds` says that what has set its timer returns or is cut off.
- SchemaReload: strong fairness of each reload, poller and transaction, since pgxpool and
  `mu` serve their callers in turn. The function of a transaction is taken to end, which is the
  caller's affair; one that does not keeps its connection for ever. Nobody must reload, poll or begin; a query that
  fails is never counted on to end a wait.
- EngineLifecycle: strong fairness of getting the write lock, since Go's RWMutex
  lets a waiting writer in ahead of new readers and serves writers in turn;
  queries end and connections are given back. Without that last assumption
  Engine.Stop waits for ever: its wait for the lock has no context.
- Authenticator: requests go on, the HTTP clients give up in time, and RWMutex keeps
  no goroutine out for ever (strong fairness of `ReadCache` and `Lock`).
- Analytics: goroutines run, the poller's queries return, tickers never cease, and a refresh
  that has a deadline ends; nothing is assumed of one that has none. Strong fairness
  where Go's `select` chooses at random among ready cases (a tick, the stop channel)
  and where a step waits for a free place in `work`, which is a bound of the model.
  A closed connection ends the wait on it and a LISTEN; a connection need not break otherwise.
  The connect and the LISTEN of the listener have no deadline: that the server answers them
  (`Unanswered`) is a premise of `StopEnds`, not an assumption of fairness.

## 5. What is proved

Eight modules of theorems; `ShutdownProofs` is about `Shutdown` and `EngineLifecycle`, the others
about one component each. Each theorem holds for every value of the
constants that satisfies the named assumptions of its module (section 3): any number of
processes, goroutines, clients, keys and messages, any capacities and timeouts, and any
value of the bounds of section 4, so that nothing rests on them. Each follows one
pattern: an inductive invariant `Inv`, a lemma that `Init` implies it, one lemma per
action or group of actions that it is kept, and a theorem that joins them by
propositional temporal logic. The invariants were checked by TLC on the instance of
the run before they were proved. A theorem about an action property has in addition a
lemma that every step allowed by `Inv` satisfies it.

**EventTriggersProofs**, under `ConstantsAssumption`.

- `TypeCorrect`: `TypeOK`, inductive by itself.
- `OneCopy` and `RowIsCopys`: `SingleCopy` and `CopyOwnsRow`. Neither is inductive
  alone: that a claim adds no second copy follows from `CopyOwnsRow` (a row that was
  read as pending has no copy on its way), and that a worker's UPDATE hits nobody
  else's row follows from `SingleCopy`. `Inv` adds to them the types, `TokensHeldOnce`
  (workers hold different tokens) and `QueueFits` (no copy lies beyond the positions
  `Places` names). A step that moves copies is described by a function that maps each
  place of the new state to the place its copy came from; lemma `Carry` says that both
  properties survive if that function keeps occupied places apart and the rows of the
  copies stay as they are. `CarryInPlace` is the case in which nothing moves.
- `AttemptsBounded` and `OutcomeTold`: `RetryBudget` and `StatusTellsOutcome`, from
  `Told`: the history of an undisturbed event (how often it was posted, whether
  anybody answered 2xx) can be read off its row and off its one copy, wherever the
  copy is and however far its worker has come. That the copy's `retry` counts the
  posts is what the code relies on when it decides on a stale value.
- `NoneStranded`: the action property `NoOrphan`, for any faults and exits: a row in
  `processing` stops being on its way only in the step in which its process ends or an UPDATE
  fails, or because its copy is in a queue that its processor has left. `Kept` is what every other step does: each copy is afterwards
  at a place that counts, or its row has left `processing`. It rests on `OneInHand` (the poller
  has a copy in hand exactly between claim and next row).
- `KeepsPromise`: `Spec => DeliversAsPromised`, the refinement, `ASSUME Sole`: one
  process, no failing statement, but any crashes, restarts and redeliveries. Both parts of
  `Sole` are needed, since a claim that fails or comes second posts a row that is
  somebody else's, which `EventDelivery` forbids and section 6 records. `BatchAsRead`
  says that under `Sole` the rows a poller has read stay as they were; each action is
  then shown to be the action of `EventDelivery` with its name, or a stutter.

**SubscriptionsProofs**, under `SubsAssumption`: `ClosesOnce`
(`ClosedOnceBeforeStop`), `KeepsOrder` (`InOrder`), `NoGaps` (`NoSilentGap`). `Inv`
says where a notification can be: raised after the one in hand and in order
(`InboxAhead`), or already in the stream of a subscriber, behind the one in hand
(`StreamBehind`: who is still to be visited has not had that one); what is owed was
sent, skipped, or is in hand with the subscriber ahead (`Accounted`). That nobody is
closed twice is `ClosedAreGone`: Done is closed on the way out of the map.

**LiveQueriesProofs**, under `LiveAssumption`: `SendsChangesOnly`, the action property
`NoRepeat`. Where no two polls have overlapped there is one at most and it has stored
what it is about to send (`OnePoll`); where nothing was dropped the hash is that of
what was sent last (`HashIsLatest`).

**CacheManagerProofs**, under `CacheAssumption` and `ManagerAssumption`.

- `LookupsReadLastWrite`: `ReadsLastWrite` over either backend. The memory cache
  holds what was last set, and what is missing was evicted or has expired
  (`MemoryHolds`). For Redis (`RedisHolds`) the invariant follows every sweep: a key
  of its pattern that is still there is to come, on the page, or was set since the
  sweep began (`Ahead`), so that nothing survives a Clear that has ended.
- `TagsReach`: `TagsCover`, for any number of tagging and invalidating callers, any
  lifetimes and a clock that moves between any two commands. `Tagged` is the strengthening: a pair of value and tag whose lifetime has been
  written (`Live`) is named by its set, which ends no earlier than the value, unless it is in
  `parted`; one that was only added (`Pending`) is named; an invalidation has in hand what its
  set holds but for what was added since it read it (`Read`), so that what its last command
  takes along is in `parted`.
- `CountsAgree`: `AccountsAgree`. `InStep` keeps the list, the entries and their number together
  (`Ordered`) and the bytes with what is stored (`Weighed`), through replacement, eviction
  and expiry; `Tallied` keeps the manager's counters with what callers have had, the hits that did
  not decode (which the cache counts and the manager does not) and what a
  caller in the middle still owes them (`Owing`), also while those who owe come and go, of whom
  there are finitely many at any time.
- `OldestGivesWay`: the action property `EvictsLeastRecent`, from the order `Ordered` keeps.

**ShutdownProofs**. Of `Shutdown`, under `TimersAssumption` and `ResultsAssumption`: `ReverseOrder`
(`StopsInReverse`), `ReturnsComplete` (`ReturnIsFinal`). One call at most passes the
swap of `shuttingDown` (`OnePasses`); what it has stopped and what its copy of the list
still holds are together the first components of the registry, the stopped ones in
reverse (`Remaining`); the counter counts the open requests (`Counted`); the
error it holds is the first (`FirstError`); `Timers` relates the force timer to the call.

Of `EngineLifecycle`, under `WritersAssumption`: `QueriesExclude` (`QueriesSeeEngine`), `NilIsTrue`
(`NilMeansClosed`), and `ChannelClosedOnce`: the channel of the connection is closed
once at most, a second time would panic. `QueriesSeeEngine` speaks of Initialize, Stop
and Reload alike. `Excluded` ties the lock to who is between Lock and Unlock, `PoolOnce` ties the pool to `closeOnce`, and `StopCloses`
says that Stop passes over the connection only where there is none.

**AuthenticatorProofs**, under `AuthenticatorAssumption`: `OneFetchPerLifetime`
(`FetchesApart`), `KeysDie` (`WithdrawnKeyDies`), `Sessions` (`SessionEarned`).
`LockHeld`: who fetches has the lock and found the cache expired; `FetchIsFresh` and
`CacheIsFresh`: the keys in hand were published when the fetch began, and the
cache outlives that moment by one lifetime and one fetch; `Passed`: a token on its way has
passed the checks so far.

**AnalyticsProofs**, under `AggregatesAssumption` and `SetupsAssumption`:
`HitsAreRecent` (`HitIsRecent`), `UndisturbedIsExact` (`AloneIsExact`), for every
configuration, any deadlines and any `ReadAs`, with all of CDC beside. `Stored`: a stored number
was true when its refresh or request began, or later (`Fits`), and if there was a deadline it was
no longer before it was stored than that allows, unless the key was misread; `Asked` says the
first of a lazy request under way, `Working` of what a refresh has found and not yet
stored, and that an undisturbed one has stored what it found but for what is left.

**SchemaReloadProofs**, under `CatalogsAssumption`: `InstallsWhatItSaw` (`ReloadIsFaithful`),
for any catalogs, any DDL between any two queries, any users of the pool. While one catalog
has been seen only, what is built is what that catalog has in the part that was read, and
what is ahead are the names that are left (`SoFar`, one lemma per query); the last query
installs it whole (`Installed`). `ReadFaithfully` then shows of each database that what is read
of it is faithful to it, which is where the joins by a constraint's name matter.

`TablesServed` (`RootsServeTables`) is about `SchemaGenerator`, and needs no catalog to have been
seen whole. `AllBuilt` says what every schema has, torn or not, and each query keeps: the
columns of a table differ in name, and those of its key and no others are marked. From such a
schema (`Shaped`) the lemmas follow the generator. `RootSplits` and `RootIsOwn`: if no name of
another table continues to the same words, a root field of the table's name is its own, since
verbs have one length; `MergedValue`: fields that agree on a name survive in whatever order
they are written; `RootsServed` joins them, once for each root object. `OwnOrderBy` finds the
first to ask for the sort input among the table's own requests; `OnlyRelation` does for a
relationship whose name is claimed once what `RootsServed` does for a root field. `KeysServed`,
`ColumnsServed` and `RelationsServed` are the three parts of the property, `TableServed` the whole.

`SomebodyGives`, `ASSUME Roomy` (more connections than pollers and one; the default is 50 for one
poller): a full pool always has a transaction that is open, so that not all who have a
connection wait for a second one, however many goroutines reload. What that transaction then
does is its caller's function; that it ends is assumed by `FairSpec`, not said by the theorem.
`Keepers` names those who may have a connection. It is the part of `EveryCallServed` that needs no
fairness.

### Only model-checked

- `QueryAnswersFilter`, `WritesAsAsked`, `AggregateAgrees` and `RowFilterHolds`: filters are
  trees, so that `Resolver`, and with it `Permissions`, declares RECURSIVE operators, in
  modules with which the provers do not work. No other module does.
- Liveness: `EveryEventSettles`, `EveryNotificationHandled`, `EventuallyCurrent`,
  `EveryCallServed`, `ShutdownEnds`, both `StopEnds`, `ChangeIsPickedUp`, `DueIsRefreshed`
  and `EveryRequestAnswered`. They rest on fairness, and so on ENABLED, which is
  beyond the prover.

Attempts at proof have changed the models: a ttl of 0 has no expiry in
Redis; the history `lastHad` holds only numbers that a group has had; the values
that stand for nil, for a miss or for nobody are assumed different from
the values they must not be confused with; what the catalog of PostgreSQL promises is stated; and
the list of the memory cache, its bytes and the fields of generated objects have closed forms,
since the provers know neither `SelectSeq` nor folds. One property was false: `KeysAgree` asked
for the same types of key arguments without exception, where a reload that reads columns and key
from different catalogs may put a geometry column into a key. No catalog of `schema` had such a
column; two have it now, and the property excepts it (section 6).

## 6. Where the code and its documents disagree

Met while modelling; the models contain the behaviour, and the properties are
stated so as to leave it out or the runs do not reach it:

- `broadcastEvent` (`manager.go:163`) ranges over the subscriber map after it has
  given the lock back; `docs/architecture.md:255` says the RWMutex protects the maps.
- `InvalidateTable` (`cache.go:242`) deletes a key nothing ever sets; its comment
  (line 234) says it invalidates all cached queries for the table.
- `InvalidateTag` (`redis.go:234`) deletes the tag set with a member it has not read:
  a value another client adds in between can no longer be invalidated by its tag.
  `TagsCover` excepts that value, and those of the next two cases of tags (`parted`).
- A process that ends after a claim strands the row in `processing`; nothing
  selects it again (`triggers.go:345`). After `Stop` the copies in the queue, and those the poller
  still adds to it, stay in `processing` too: their reader has returned (`triggers.go:148`, `361`). So does a failed UPDATE to `pending` when
  the queue was full, although `triggers.go:351` says it will be retried later.
- `FOR UPDATE SKIP LOCKED` outside a transaction does not keep two processes from
  delivering one event.
- A subscriber that comes after `Stop` is accepted and never served or told.
- A listener whose connection breaks never gets another (`connection.go:438`;
  `docs/architecture.md:262` promises automatic reconnection) and its loop spins.
- Overlapping polls of a live query repeat a result, or leave the older one last
  (`manager.go:343`).
- `redis.go:209` says that tags expire slightly after values. `SetWithTags` with a short
  ttl shortens the life of a tag set that names values with longer ones, and with a ttl
  of 0 gives the set an hour and the value no end. `caches` tags with both. `Clear`
  leaves the tag sets behind.
- The pipeline of `SetWithTags` is no transaction: a tag set that expires between the SADD
  and the EXPIRE of a call takes the new value's name with it, and the call returns nil.
- A hit whose value does not decode is a miss to the caller and neither to the manager,
  whose rates leave it out (`cache.go:204-207`).
- With no more connections than nested users the pool stands still for ever, with the
  engine's lock held if a reload is among them (`introspector.go:249`, `triggers.go:345`).
  The default of 50 is far from that; nothing keeps a configuration from it, nor
  `MinConns` (5) from exceeding `MaxConns`.
- The introspector opens no transaction: a table dropped after its name was read is
  installed without columns, and `by_pk` takes those columns of a key that were read.
- Primary and foreign keys are joined by the constraint's name (`introspector.go:394`,
  `435`), which PostgreSQL keeps apart per table only: constraints that share one become
  one foreign key. One of two columns yields the product of its columns, of which the
  generator uses the first. Materialized views are never listed, since
  `information_schema.views` has none; of overloaded functions the last stays.
- The generator reads geometry as JSON and writes it as String (`generator.go:380`, `505`). A
  key holds no such column in PostgreSQL, but one made of two catalogs may: then `by_pk` and
  `delete_by_pk` ask for JSON where `update_by_pk` asks for String. Besides,
  fields `where` keep the empty placeholder that "will be properly filled in later"
  (line 525), which is made anew for each field under one name: the GraphQL
  specification allows neither empty inputs nor two types of one name. The model lets
  graphql-go accept or refuse. Views have nothing to sort by. `EnableAggregations` is not
  consulted, generated fields resolve nothing, and `FilterGenerator` is called by nobody.
- A failed generation leaves the old GraphQL schema beside the new tables and resolver
  (`engine.go:190`).
- Tables whose names meet (`users_by_pk` beside `users`, or `_users` and `users`) get each
  other's fields or sort columns, depending on the order of a map.
- The hook `onShutdownStart` is called before the force timer is set (`shutdown.go:207`, `216`):
  one that blocks holds up a shutdown that nothing then cuts off.
- A second `Shutdown` returns nil at once, while the first is under way
  (`shutdown.go:198`).
- `Connection.shuttingDown` is never looked at by `Query` or `Exec`
  (`connection.go:277`).
- `Engine.Stop` waits for its lock whatever its context says (`engine.go:101`).
- Overlapping refreshes may store the older snapshot last, or leave groups that have
  vanished, until the next refresh; values of an aggregate deleted during a refresh
  remain as orphans (`refresh.go:381`, `materialized.go:468`).
- A lazy request compares its column with the '%v' of the decoded key (`refresh.go:632`): the
  group of NULL is asked for as `'<nil>'`, and large numbers change form. The count of other
  rows, or of none, is stored and served as that group's.
- `docs/configuration.md:611` has one timeout for a single refresh; the first refresh has a fixed one of five
  minutes (`router.go:309`), refreshes on demand and lazy computations none of their own.
- `findMatchingAggregate` lets a request without a filter be answered by an aggregate
  that has one (`router.go:173`).
- Changes before the first poll are never noticed (`cdc_listener.go:348`); an
  aggregate created at run time is not monitored, since only Start calls `AddTable`;
  notifications sent while the listener is disconnected are lost.
- `Stop` of the listener reads `l.conn` twice without its lock: it may be nil at the
  second (`cdc_listener.go:186`). The comment at line 256 announces a timeout that
  `WaitForNotification` is not given. Nor have the connect (line 223) and the LISTEN a deadline:
  `Stop` waits for a listener that the server does not answer (`StopEnds`).
- DuckDB is closed under refreshes that change events have started.
- An EC key of the provider is built without a curve, and verifying with it panics
  (`auth.go:553`, `auth.go:446`); the request ends as `Aborted`.
- A session variable without a value takes its operator out of the rule
  (`auth.go:884`), and an empty `_in` adds no condition: both match more rows, not fewer.
  `RowFilterHolds` leaves such rules out.
- A batch insert stores the columns of its first object only.
- A cron schedule for aggregates is documented and never read. Session variables of
  rules are documented as `X-GraphPost-*` (`docs/authentication.md:427`), the code
  reads `X-Hasura-*` (`auth.go:875`); the request header `X-GraphPost-Role` of
  `docs/authentication.md:234` is not read at all.

## 7. What is not modelled

- Analytics: the refresh log, statistics, import and free queries on DuckDB, which
  read or pass data through. `analytics/cdc_listener.go` names package `pgx` without
  importing it, and `materialized.go:178` and `router.go:444` hold imports after
  declarations, so that the package does not compile as it stands; what it means to
  do is clear and is modelled.
- Authentication: signature arithmetic, paths inside claims, column permissions.
- Redis: `Has` and `Ping`, which only read; the server itself is external.
- Schema generator: `filters.go`, which nothing calls; the literals of `scalars.go`;
  what graphql-go refuses.
- Connection pool: lifetimes and health checks of connections, batches and statistics,
  which are pgxpool's.
- HTTP server: but for `authMiddleware`, handlers keep no state; their calls are the
  operations above. The metadata operations are stubs, `run_sql` executes nothing, and
  a subscription over WebSocket is executed once, as a query (`server.go:158`).
- Configuration, console, telemetry, logging:
  conversions and I/O without state that several steps share.
- Analytics without cgo: stubs. Benchmarks: no part of the program.
