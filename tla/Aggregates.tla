----------------------------- MODULE Aggregates -----------------------------
(***************************************************************************)
(* Materialized aggregates: the store of internal/analytics/               *)
(* materialized.go, the refreshes and the scheduler of refresh.go, and the *)
(* routing of router.go.                                                   *)
(*                                                                         *)
(* One source table, whose rows fall into groups; the aggregates count     *)
(* them, group by group or all together.  An aggregate's identifier is the *)
(* hash of its contents, so that only its strategy may differ between two  *)
(* definitions with the same identifier.  DuckDB executes one statement at *)
(* a time, and any of them may fail.                                       *)
(***************************************************************************)
EXTENDS Integers, FiniteSets, FiniteSetsExt

CONSTANTS
  Ids,              \* identifiers of aggregates
  Grouped,          \* those with a GROUP BY
  Strategies,       \* "scheduled", "on_demand", "cdc", "lazy"
  Groups, Total,    \* group keys; Total is "_total_"
  Workers,          \* bound: refreshes in flight, 1..n
  None, Zero,       \* a missing record, the zero time
  Interval,         \* RefreshInterval of the scheduled aggregates
  RefreshTimeout,   \* deadline of a refresh that the scheduler or a change starts
  FirstTimeout,     \* that of the first one of a new aggregate, 5 minutes
  ReadAs,           \* the groups that the key of a group stands for in a lazy request
  Staleness, LazyTTL, MaxConcurrentRefreshes,
  MaxRows           \* bound: rows of a group

ASSUME AggregatesAssumption ==
  /\ Grouped \subseteq Ids /\ Total \notin Groups /\ Zero \notin Nat
  /\ Strategies \subseteq {"scheduled", "on_demand", "cdc", "lazy"}
  /\ Interval \in Nat /\ RefreshTimeout \in Nat /\ FirstTimeout \in Nat
  /\ ReadAs \in [Groups -> SUBSET Groups]
  /\ Staleness \in Nat \ {0} /\ LazyTTL \in Nat
  /\ MaxConcurrentRefreshes \in Nat \ {0} /\ MaxRows \in Nat /\ Workers \subseteq Nat

VARIABLES
  now,
  source,    \* group -> number of rows in PostgreSQL
  lastHad,   \* history: key -> when it last had each number of rows that it has had
  rows,      \* aggregate_definitions: id -> [strategy, next]
  defs,      \* the definitions in memory
  values,    \* aggregate_values: id -> stored keys -> [n, at], and as history who stored
             \* the number and since when they had been at it: [by, since]
  closed,    \* whether DuckDB is closed
  work,      \* what the refreshes in flight are doing
  request,   \* the request that computes a lazy aggregate
  scheduler, \* [pc, pending]
  unseen,    \* history: aggregates whose source changed and that no refresh has queried
             \* since, nor capture of the change has started one for
  edits      \* definitions created or deleted

data == <<now, source, lastHad>>
store == <<rows, defs, values, edits>>
aggvars == <<data, store, closed, work, request, scheduler, unseen>>

Keys == Groups \cup {Total}
KeysOf(id) == IF id \in Grouped THEN Groups ELSE {Total}
Number(src, k) == IF k = Total THEN MapThenSumSet(LAMBDA g : src[g], Groups) ELSE src[k]

With(f, x, y) == [z \in DOMAIN f \cup {x} |-> IF z = x THEN y ELSE f[z]]

Idle == [pc |-> "idle", by |-> "nobody"]
NoRequest == [pc |-> "idle"]
Defined == {id \in Ids : defs[id] # None}
HasStrategy(id, s) == defs[id] # None /\ defs[id].strategy = s

\* CreateAggregate computes the first NextRefresh from the interval.
Definition(s) == [strategy |-> s,
                  next |-> IF s = "scheduled" /\ Interval > 0 THEN now + Interval ELSE Zero]

\* NewMaterializedStore loads what an earlier run left in DuckDB: saved.
AggInit(saved) ==
  /\ source \in [Groups -> 0..MaxRows]
  /\ lastHad = [k \in Keys |-> [n \in {Number(source, k)} |-> 0]]
  /\ rows = saved /\ defs = saved
  /\ values = [id \in Ids |-> << >>]
  /\ closed = FALSE
  /\ work = [w \in Workers |-> Idle]
  /\ request = NoRequest
  /\ scheduler = [pc |-> "off", pending |-> {}]
  /\ unseen = {} /\ edits = 0

-----------------------------------------------------------------------------
(* The world *)

Noted(had, src, t) == [k \in Keys |-> With(had[k], Number(src, k), t)]

Clock ==
  /\ now' = now + 1
  /\ lastHad' = Noted(lastHad, source, now')
  /\ UNCHANGED <<source, store, closed, work, request, scheduler, unseen>>

\* The table's new contents.
Becomes(src) ==
  /\ source' = src
  /\ lastHad' = Noted(lastHad, src, now)
  /\ unseen' = Ids
  /\ UNCHANGED <<now, store, closed, work, request, scheduler>>

-----------------------------------------------------------------------------
(* Refreshes *)

Free == {w \in Workers : work[w] = Idle}

\* The next n refreshes take the first free places.
FirstFree(n) == CHOOSE W \in SUBSET Free :
                  Cardinality(W) = n /\ \A v \in W, w \in Free \ W : v < w

\* A refresh of id, to be followed by those of the aggregates in then.
Refresh(by, id, then) == [pc |-> "clear", by |-> by, id |-> id, then |-> then,
                          since |-> now, snap |-> <<>>, left |-> {}, alone |-> FALSE]

\* n refreshes of each aggregate in S start.
Spawn(by, S, n) ==
  IF S = {} \/ n = 0 THEN UNCHANGED work
  ELSE LET W == FirstFree(n * Cardinality(S)) IN
       \E id \in [W -> S] :
         /\ \A i \in S : Cardinality({w \in W : id[w] = i}) = n
         /\ work' = [w \in Workers |-> IF w \in W THEN Refresh(by, id[w], {}) ELSE work[w]]

HasRoom(S, n) == Cardinality(Free) >= n * Cardinality(S)

\* RefreshAll and RefreshByTable go on to the next aggregate, whatever came of this
\* one.
After(r) ==
  IF r.then = {} THEN Idle
  ELSE LET id == CHOOSE i \in r.then : TRUE IN Refresh(r.by, id, r.then \ {id})

\* The deadlines of the contexts that refreshes run under; the context of a call of the
\* application has none.
Timeout == [by \in {"scheduler", "cdc", "create"} |->
              IF by = "create" THEN FirstTimeout ELSE RefreshTimeout]

\* Faulty variant: no refresh has a deadline.
InTime_NoDeadline(r) == TRUE

InTime(r) == r.by \in DOMAIN Timeout => now <= r.since + Timeout[r.by]

\* Whether a DuckDB statement of refresh r can succeed.
Executes(r) == ~closed /\ InTime(r)

\* The refreshes once w (or a request) has written values of id; w goes on as r.
Written(w, id, r) ==
  [v \in Workers |->
     IF v = w THEN r
     ELSE IF work[v] # Idle /\ work[v].id = id THEN [work[v] EXCEPT !.alone = FALSE]
     ELSE work[v]]

Goes(w, r) == work' = [work EXCEPT ![w] = r]
Others == UNCHANGED <<data, closed, request, scheduler>>

\* Faulty variant: the old values stay until they are replaced.
ClearAggregateValues_Kept(w) ==
  LET r == work[w] IN
  /\ r.pc = "clear" /\ defs[r.id] # None /\ Executes(r)
  /\ work' = Written(w, r.id, [r EXCEPT !.pc = "query", !.alone = TRUE])
  /\ Others /\ UNCHANGED <<store, unseen>>

\* GetAggregate, then the statement that clears.
ClearAggregateValues(w) ==
  LET r == work[w] IN
  /\ r.pc = "clear" /\ defs[r.id] # None /\ Executes(r)
  /\ values' = [values EXCEPT ![r.id] = << >>]
  /\ work' = Written(w, r.id, [r EXCEPT !.pc = "query", !.alone = TRUE])
  /\ Others /\ UNCHANGED <<rows, defs, edits, unseen>>

\* The rows of buildAggregationQuery: a GROUP BY has none for an empty group.
Snapshot(id) ==
  LET ks == {k \in KeysOf(id) : k = Total \/ source[k] > 0}
  IN [k \in ks |-> Number(source, k)]

\* With no row to store, the refresh goes straight to its last statement.
Stage(r) == [r EXCEPT !.pc = IF r.left = {} THEN "touch" ELSE "store"]

ExecuteAggregation(w) ==
  LET r == work[w] IN
  /\ r.pc = "query" /\ InTime(r)
  /\ Goes(w, Stage([r EXCEPT !.snap = Snapshot(r.id), !.left = DOMAIN Snapshot(r.id)]))
  /\ unseen' = unseen \ {r.id}
  /\ Others /\ UNCHANGED store

\* What is stored, stamped with the time of the statement.
Value(n, by, since) == [n |-> n, at |-> now, by |-> by, since |-> since]

\* INSERT OR REPLACE, one row at a time.
StoreAggregateValue(w) ==
  LET r == work[w] IN
  /\ r.pc = "store" /\ Executes(r)
  /\ \E k \in r.left :
       /\ values' = [values EXCEPT ![r.id] = With(@, k, Value(r.snap[k], r.by, r.since))]
       /\ work' = Written(w, r.id, Stage([r EXCEPT !.left = @ \ {k}]))
  /\ Others /\ UNCHANGED <<rows, defs, edits, unseen>>

\* Faulty variant: the goroutine of a refresh that fails never counts as done.
RefreshFails_NotDone(w) ==
  LET r == work[w] IN
  /\ r.pc \in {"clear", "query", "store"}
  /\ Goes(w, [r EXCEPT !.pc = "lost"])
  /\ Others /\ UNCHANGED <<store, unseen>>

\* A statement fails, or the aggregate is not there: what was stored stays.
RefreshFails(w) ==
  LET r == work[w] IN
  /\ r.pc \in {"clear", "query", "store"}
  /\ Goes(w, After(r))
  /\ Others /\ UNCHANGED <<store, unseen>>

NextRefresh(d) == [d EXCEPT !.next =
                     IF d.strategy = "scheduled" /\ Interval > 0 THEN now + Interval ELSE @]

\* The definition in memory is updated even when the statement fails.
UpdateLastRefreshed(w) ==
  LET r == work[w] IN
  /\ r.pc = "touch"
  /\ IF defs[r.id] = None THEN UNCHANGED <<defs, rows>>
     ELSE /\ defs' = [defs EXCEPT ![r.id] = NextRefresh(@)]
          /\ \/ Executes(r) /\ rows' = [rows EXCEPT ![r.id] = defs'[r.id]]
             \/ UNCHANGED rows
  /\ Goes(w, After(r))
  /\ Others /\ UNCHANGED <<values, edits, unseen>>

\* RefreshAggregate
RefreshStep(w) ==
  \/ ClearAggregateValues(w) \/ ExecuteAggregation(w) \/ StoreAggregateValue(w)
  \/ RefreshFails(w) \/ UpdateLastRefreshed(w)

\* On demand: one aggregate, or all of them (RefreshAll, RefreshByTable).
OnDemand(id) ==
  /\ HasRoom({id}, 1)
  /\ \E w \in FirstFree(1) :
       \/ Goes(w, Refresh("api", id, {}))
       \/ Defined # {} /\ Goes(w, After(Refresh("api", id, Defined)))
  /\ Others /\ UNCHANGED <<store, unseen>>

-----------------------------------------------------------------------------
(* The definitions *)

\* CreateMaterializedAggregate: an id in use is a primary key violation; unless the
\* aggregate is lazy, a first refresh starts.
CreateAggregate(id, s) ==
  /\ ~closed /\ rows[id] = None /\ HasRoom({id}, 1)
  /\ edits' = edits + 1
  /\ rows' = [rows EXCEPT ![id] = Definition(s)]
  /\ defs' = [defs EXCEPT ![id] = Definition(s)]
  /\ Spawn("create", {id}, IF s = "lazy" THEN 0 ELSE 1)
  /\ UNCHANGED <<data, values, closed, request, scheduler, unseen>>

\* Two statements, then the map; either statement may fail and end the call.
DeleteAggregate(id) ==
  /\ ~closed
  /\ edits' = edits + 1
  /\ values' = [values EXCEPT ![id] = << >>]
  /\ work' = Written(None, id, Idle)
  /\ \/ UNCHANGED <<rows, defs>>
     \/ rows' = [rows EXCEPT ![id] = None] /\ defs' = [defs EXCEPT ![id] = None]
  /\ UNCHANGED <<data, closed, request, scheduler, unseen>>

-----------------------------------------------------------------------------
(* Routing *)

\* getFromMaterialized has an answer.
Materialized(id, k) ==
  /\ ~closed /\ k \in DOMAIN values[id]
  /\ now - values[id][k].at <= Staleness

\* GetOrComputeLazy has one without computing it.
FreshLazily(id, k) ==
  /\ ~closed /\ k \in DOMAIN values[id] /\ HasStrategy(id, "lazy")
  /\ now - values[id][k].at < LazyTTL

\* What RouteAggregateQuery may answer with, for an aggregate that matches.
Served(id, k) == Materialized(id, k) \/ FreshLazily(id, k)

\* buildSingleValueQuery decodes the key and compares its column with '%v' of what came
\* out: the key of the NULL group asks for the text '<nil>', and a number may have
\* changed its form.  A query that fails has no result.
ReadsAsItself(k) == k = Total \/ ReadAs[k] = {k}

LazyNumber(k) ==
  IF ReadsAsItself(k) THEN Number(source, k)
  ELSE MapThenSumSet(LAMBDA g : source[g], ReadAs[k])

\* computeSingleAggregate, under the context of the request, also when reading the
\* value failed the first time: a group that has no rows counts 0.
ComputeLazily(id, k) ==
  /\ request = NoRequest /\ HasStrategy(id, "lazy") /\ ~closed /\ ~FreshLazily(id, k)
  /\ request' = [pc |-> "store", id |-> id, key |-> k, n |-> LazyNumber(k), since |-> now]
  /\ UNCHANGED <<data, store, closed, work, scheduler, unseen>>

\* The answer is given whether the statement succeeds or not.
StoreLazily ==
  /\ request.pc = "store"
  /\ \/ /\ ~closed
        /\ values' = [values EXCEPT ![request.id] =
                         With(@, request.key, Value(request.n, "lazy", request.since))]
        /\ work' = Written(None, request.id, Idle)
     \/ UNCHANGED <<values, work>>
  /\ request' = NoRequest
  /\ UNCHANGED <<data, rows, defs, edits, closed, scheduler, unseen>>

-----------------------------------------------------------------------------
(* The scheduler *)

Scheduled == {w \in Workers : work[w].by = "scheduler"}

Due(id) == HasStrategy(id, "scheduled") /\ defs[id].next \in {Zero} \cup 0..(now - 1)

SchedulerBecomes(pc, pending) ==
  /\ scheduler' = [pc |-> pc, pending |-> pending]
  /\ UNCHANGED <<data, store, closed, request, unseen>>

\* A tick: GetPendingScheduledRefreshes.
SchedulerTick ==
  /\ scheduler.pc = "select"
  /\ \E id \in Ids : Due(id)
  /\ SchedulerBecomes("spawn", {id \in Ids : Due(id)})
  /\ UNCHANGED work

\* The semaphore lets MaxConcurrentRefreshes run at a time.
SchedulerSpawn ==
  /\ scheduler.pc = "spawn" /\ scheduler.pending # {}
  /\ Cardinality(Scheduled) < MaxConcurrentRefreshes
  /\ \E id \in scheduler.pending :
       /\ HasRoom({id}, 1)
       /\ Spawn("scheduler", {id}, 1)
       /\ SchedulerBecomes("spawn", scheduler.pending \ {id})

\* wg.Wait()
SchedulerWait ==
  /\ scheduler.pc = "spawn" /\ scheduler.pending = {} /\ Scheduled = {}
  /\ SchedulerBecomes("select", {})
  /\ UNCHANGED work

SchedulerStops ==
  /\ scheduler.pc = "select"
  /\ SchedulerBecomes("off", {})
  /\ UNCHANGED work

-----------------------------------------------------------------------------
Longest(id) == IF HasStrategy(id, "lazy") /\ LazyTTL > Staleness THEN LazyTTL ELSE Staleness

\* A lazy request computed the value of another group's rows.
Misread(v, k) == v.by = "lazy" /\ ~ReadsAsItself(k)

\* "StalenessThreshold defines when materialized data is considered stale" (router.go):
\* whatever refreshes, lazy requests and deletions overlap, the number the router
\* hands out is one the key really had since whoever stored it set to work; if that was
\* a refresh with a deadline, no longer ago than the deadline and the threshold (or, for
\* a lazy aggregate, its TTL) together.  Nothing is said of what a lazy request stores
\* under a key that it reads as another one.
HitIsRecent ==
  \A id \in Defined : \A k \in KeysOf(id) :
    Served(id, k) /\ ~Misread(values[id][k], k) =>
      LET v == values[id][k]
      IN /\ v.n \in DOMAIN lastHad[k] /\ v.since <= lastHad[k][v.n]
         /\ v.by \in DOMAIN Timeout =>
              now - lastHad[k][v.n] <= Longest(id) + Timeout[v.by]

\* A refresh that stored its rows while nobody else wrote values of its aggregate
\* (RefreshAggregate clears, queries and stores without a transaction) leaves the
\* groups its query found and no others.
AloneIsExact ==
  \A w \in Workers :
    work[w].pc = "touch" /\ work[w].alone =>
      LET stored == values[work[w].id]
      IN /\ DOMAIN stored = DOMAIN work[w].snap
         /\ \A k \in DOMAIN stored : stored[k].n = work[w].snap[k]
=============================================================================
