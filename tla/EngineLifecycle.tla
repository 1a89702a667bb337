-------------------------- MODULE EngineLifecycle --------------------------
(***************************************************************************)
(* The life of an engine: Engine of internal/engine/engine.go and          *)
(* Connection of internal/database/connection.go.                          *)
(*                                                                         *)
(* Queries hold e.mu for reading; Initialize, Reload and Stop hold it for  *)
(* writing, Stop until the pool is closed.  Goroutines of the event        *)
(* triggers and the health check use the pool without the lock.  The pool  *)
(* (pgxpool, external) refuses connections from the moment Close is called *)
(* and Close waits for those that are out.  What a Reload reads and makes  *)
(* is SchemaReload's part.                                                 *)
(***************************************************************************)
EXTENDS Integers, FiniteSets

CONSTANTS
  Queries,   \* calls of ExecuteQuery
  Reloads,   \* calls of Reload
  Tasks      \* users of the pool that do not hold the lock

\* Callers of GracefulClose: Stop and, as a shutdown component of its own, the
\* connection; "close" is a caller of Close.
Closers == {"stop", "component", "close"}

\* Who holds the lock for writing is told by name.
ASSUME WritersAssumption == Reloads \cap {"none", "initialize", "stop"} = {}

VARIABLES
  holder, pending,   \* e.mu: the writer that has it, the writers that ask for it
  query,             \* progress of every ExecuteQuery
  init, reload, stop,
  ready,
  pool,
  held,              \* users with a connection of the pool
  dbDown,            \* Connection.shuttingDown
  once,              \* Connection.closeOnce
  closed,            \* how often close(c.closed) ran
  closer,            \* progress of every call that closes the connection
  ctxDone            \* the ctx of the shutdown is over

lock == <<holder, pending>>
conn == <<pool, dbDown, once, closed, closer>>
enginevars == <<lock, query, init, reload, stop, ready, conn, held, ctxDone>>

EngineInit ==
  /\ holder = "none" /\ pending = {}
  /\ query = [q \in Queries |-> "idle"]
  /\ init = "idle" /\ reload = [r \in Reloads |-> "idle"] /\ stop = "idle"
  /\ ready = FALSE
  /\ pool = "none" /\ held = {}
  /\ dbDown = FALSE /\ once = "free" /\ closed = 0
  /\ closer = [c \in Closers |-> "idle"]
  /\ ctxDone = FALSE

-----------------------------------------------------------------------------
(* e.mu: a writer that waits keeps new readers out *)

Running == {q \in Queries : query[q] = "running"}

Lock(w) ==
  /\ holder = "none" /\ w \in pending /\ Running = {}
  /\ holder' = w /\ pending' = pending \ {w}
Asks(w) == pending' = pending \cup {w} /\ UNCHANGED holder
Unlock == holder' = "none" /\ UNCHANGED pending

-----------------------------------------------------------------------------
(* The surroundings *)

TimeOut ==
  /\ stop # "idle" /\ ~ctxDone
  /\ ctxDone' = TRUE
  /\ UNCHANGED <<lock, query, init, reload, stop, ready, conn, held>>

\* Exec, Query, Ping ...: nothing looks at shuttingDown.
Acquire(t) ==
  /\ init = "done" /\ pool = "open" /\ t \notin held
  /\ held' = held \cup {t}
  /\ UNCHANGED <<lock, query, init, reload, stop, ready, conn, ctxDone>>

Release(t) ==
  /\ t \in held
  /\ held' = held \ {t}
  /\ UNCHANGED <<lock, query, init, reload, stop, ready, conn, ctxDone>>

-----------------------------------------------------------------------------
(* Initialize *)

\* The first call there is: it finds the lock free.
Initialize ==
  /\ init = "idle" /\ holder = "none"
  /\ init' = "connecting"
  /\ holder' = "initialize"
  /\ UNCHANGED <<pending, query, reload, stop, ready, conn, held, ctxDone>>

\* database.NewConnection
InitConnect(ok) ==
  /\ init = "connecting"
  /\ init' = IF ok THEN "introspecting" ELSE "failed"
  /\ pool' = IF ok THEN "open" ELSE pool
  /\ IF ok THEN UNCHANGED lock ELSE Unlock
  /\ UNCHANGED <<query, reload, stop, ready, dbDown, once, closed, closer, held, ctxDone>>

InitIntrospect(ok) ==
  /\ init = "introspecting"
  /\ init' = IF ok THEN "generating" ELSE "failed"
  /\ IF ok THEN UNCHANGED lock ELSE Unlock
  /\ UNCHANGED <<query, reload, stop, ready, conn, held, ctxDone>>

\* Generate and what cannot fail after it; ready is the last thing to be set.
InitGenerate(ok) ==
  /\ init = "generating"
  /\ ready' = ok
  /\ init' = IF ok THEN "done" ELSE "failed"
  /\ Unlock
  /\ UNCHANGED <<query, reload, stop, conn, held, ctxDone>>

-----------------------------------------------------------------------------
(* ExecuteQuery *)

ExecuteQuery(q) ==
  /\ query[q] = "idle"
  /\ query' = [query EXCEPT ![q] = "asking"]
  /\ UNCHANGED <<lock, init, reload, stop, ready, conn, held, ctxDone>>

\* Faulty variant: ready is read before the lock is taken.
ReadLock_ReadyBefore(q) ==
  /\ query[q] = "asking"
  /\ holder = "none" /\ pending = {}
  /\ query' = [query EXCEPT ![q] = IF init = "done" THEN "running" ELSE "refused"]
  /\ UNCHANGED <<lock, init, reload, stop, ready, conn, held, ctxDone>>

\* Under the read lock: "engine not ready", or the query runs.
ReadLock(q) ==
  /\ query[q] = "asking"
  /\ holder = "none" /\ pending = {}
  /\ query' = [query EXCEPT ![q] = IF ready THEN "running" ELSE "refused"]
  /\ UNCHANGED <<lock, init, reload, stop, ready, conn, held, ctxDone>>

Answer(q) ==
  /\ query[q] = "running"
  /\ query' = [query EXCEPT ![q] = "answered"]
  /\ UNCHANGED <<lock, init, reload, stop, ready, conn, held, ctxDone>>

-----------------------------------------------------------------------------
(* Reload: the server calls it once it is up, maybe during or after Stop *)

Reload(r) ==
  /\ reload[r] = "idle" /\ init = "done"
  /\ reload' = [reload EXCEPT ![r] = "asking"]
  /\ Asks(r)
  /\ UNCHANGED <<query, init, stop, ready, conn, held, ctxDone>>

\* The introspector takes a connection; a pool that is closed refuses it.
ReloadConnects(r) ==
  /\ reload[r] = "asking"
  /\ \/ holder # r /\ Lock(r) /\ UNCHANGED <<reload, held>>
     \/ /\ holder = r
        /\ IF pool = "open"
           THEN /\ held' = held \cup {r}
                /\ reload' = [reload EXCEPT ![r] = "introspecting"]
                /\ UNCHANGED lock
           ELSE /\ reload' = [reload EXCEPT ![r] = "failed"]
                /\ UNCHANGED held
                /\ Unlock
  /\ UNCHANGED <<query, init, stop, ready, conn, ctxDone>>

\* Faulty variant: an early return without Unlock.
ReloadIntrospects_KeepsLock(r, ok) ==
  /\ reload[r] = "introspecting"
  /\ held' = held \ {r}
  /\ reload' = [reload EXCEPT ![r] = IF ok THEN "generating" ELSE "failed"]
  /\ UNCHANGED <<lock, query, init, stop, ready, conn, ctxDone>>

ReloadIntrospects(r, ok) ==
  /\ reload[r] = "introspecting"
  /\ held' = held \ {r}
  /\ reload' = [reload EXCEPT ![r] = IF ok THEN "generating" ELSE "failed"]
  /\ IF ok THEN UNCHANGED lock ELSE Unlock
  /\ UNCHANGED <<query, init, stop, ready, conn, ctxDone>>

ReloadGenerates(r, ok) ==
  /\ reload[r] = "generating"
  /\ reload' = [reload EXCEPT ![r] = IF ok THEN "done" ELSE "failed"]
  /\ Unlock
  /\ UNCHANGED <<query, init, stop, ready, conn, held, ctxDone>>

-----------------------------------------------------------------------------
(* Connection.GracefulClose and Close *)

Moves(c, to) == closer' = [closer EXCEPT ![c] = to]

\* trackQuery, which alone would count, has no caller.
ActiveQueries == 0

\* Faulty variant: a later caller is told nil without waiting.
CloseBegins_NilAtOnce(c) ==
  /\ closer[c] = "idle" /\ pool # "none"
  /\ Moves(c, IF c = "close" THEN "once" ELSE IF dbDown THEN "nil" ELSE "waiting")
  /\ dbDown' = IF c = "close" THEN dbDown ELSE TRUE
  /\ UNCHANGED <<pool, once, closed>>

\* CompareAndSwap(false, true); Close goes straight to closeOnce.
CloseBegins(c) ==
  /\ closer[c] = "idle" /\ pool # "none"
  /\ Moves(c, IF c = "close" THEN "once" ELSE IF dbDown THEN "watching" ELSE "waiting")
  /\ dbDown' = IF c = "close" THEN dbDown ELSE TRUE
  /\ UNCHANGED <<pool, once, closed>>

\* waitForQueries, which the timeout ends as well
QueriesWaited(c) ==
  /\ closer[c] = "waiting" /\ (ActiveQueries = 0 \/ ctxDone)
  /\ Moves(c, "once")
  /\ UNCHANGED <<pool, dbDown, once, closed>>

\* closeOnce.Do: the first runs pool.Close, the others wait for it.
OnceEnter(c) ==
  /\ closer[c] = "once" /\ once # "busy"
  /\ IF once = "free"
     THEN /\ Moves(c, "closing") /\ once' = "busy" /\ pool' = "closing"
          /\ dbDown' = IF c = "close" THEN TRUE ELSE dbDown
     ELSE /\ Moves(c, "nil")
          /\ UNCHANGED <<pool, dbDown, once>>
  /\ UNCHANGED closed

\* pool.Close returns when every connection is back; then close(c.closed).
PoolClosed(c) ==
  /\ closer[c] = "closing" /\ held = {}
  /\ pool' = "closed" /\ once' = "done"
  /\ closed' = closed + 1
  /\ Moves(c, "nil")
  /\ UNCHANGED dbDown

\* A later caller waits for c.closed or for its context.
Watched(c) ==
  /\ closer[c] = "watching" /\ (closed > 0 \/ ctxDone)
  /\ \/ closed > 0 /\ Moves(c, "nil")
     \/ ctxDone /\ Moves(c, "err")
  /\ UNCHANGED <<pool, dbDown, once, closed>>

CloseRuns(c) ==
  /\ QueriesWaited(c) \/ OnceEnter(c) \/ PoolClosed(c) \/ Watched(c)
  /\ UNCHANGED <<lock, query, init, reload, stop, ready, held, ctxDone>>

\* The connection is stopped by itself, beside or after the engine.
CloseByOthers(c) ==
  /\ c # "stop"
  /\ CloseBegins(c)
  /\ UNCHANGED <<lock, query, init, reload, stop, ready, held, ctxDone>>

-----------------------------------------------------------------------------
(* Stop *)

Stop ==
  /\ stop = "idle" /\ init # "idle"
  /\ stop' = "asking"
  /\ Asks("stop")
  /\ UNCHANGED <<query, init, reload, ready, conn, held, ctxDone>>

\* The lock, whose wait knows no context; then subManager.Stop, triggerManager.Stop.
StopParts ==
  /\ \/ stop = "asking" /\ Lock("stop") /\ stop' = "subscriptions"
     \/ stop = "subscriptions" /\ stop' = "triggers" /\ UNCHANGED lock
  /\ UNCHANGED <<query, init, reload, ready, conn, held, ctxDone>>

\* GracefulClose, if Initialize got as far as a connection.
StopConnection ==
  /\ stop = "triggers"
  /\ stop' = "closing"
  /\ IF pool # "none" THEN CloseBegins("stop") ELSE UNCHANGED conn
  /\ UNCHANGED <<lock, query, init, reload, ready, held, ctxDone>>

StopReturns ==
  /\ stop = "closing" /\ closer["stop"] \in {"idle", "nil", "err"}
  /\ stop' = "done" /\ ready' = FALSE
  /\ Unlock
  /\ UNCHANGED <<query, init, reload, conn, held, ctxDone>>

-----------------------------------------------------------------------------
InitRuns == \E ok \in BOOLEAN : InitConnect(ok) \/ InitIntrospect(ok) \/ InitGenerate(ok)
ReloadRuns(r) ==
  \/ ReloadConnects(r)
  \/ \E ok \in BOOLEAN : ReloadIntrospects(r, ok) \/ ReloadGenerates(r, ok)
StopRuns == StopParts \/ StopConnection \/ StopReturns

EngineNext ==
  \/ TimeOut
  \/ \E t \in Tasks : Acquire(t) \/ Release(t)
  \/ Initialize \/ InitRuns
  \/ \E q \in Queries : ExecuteQuery(q) \/ ReadLock(q) \/ Answer(q)
  \/ \E r \in Reloads : Reload(r) \/ ReloadRuns(r)
  \/ \E c \in Closers : CloseByOthers(c) \/ CloseRuns(c)
  \/ Stop \/ StopRuns

EngineSpec == EngineInit /\ [][EngineNext]_enginevars

\* Goroutines run, e.mu is fair to writers, and queries end and give their
\* connections back.  Nobody must initialize, reload or stop.
EngineFairSpec ==
  /\ EngineSpec
  /\ WF_enginevars(InitRuns) /\ WF_enginevars(StopRuns)
  /\ SF_enginevars(StopParts)
  /\ \A r \in Reloads : WF_enginevars(ReloadRuns(r)) /\ SF_enginevars(ReloadConnects(r))
  /\ \A c \in Closers : WF_enginevars(CloseRuns(c))
  /\ \A t \in Tasks : WF_enginevars(Release(t))
  /\ \A q \in Queries : WF_enginevars(ReadLock(q)) /\ WF_enginevars(Answer(q))

-----------------------------------------------------------------------------
\* A query runs only on an engine that is ready, whose parts nobody has begun to
\* stop, and whose tables, resolver and GraphQL schema no Reload is replacing: Stop
\* and Reload exclude ExecuteQuery through e.mu.
QueriesSeeEngine ==
  Running # {} =>
    /\ ready /\ stop \notin {"subscriptions", "triggers", "closing", "done"}
    /\ \A r \in Reloads : reload[r] \notin {"introspecting", "generating"}

\* Of all the ways to close the connection, whoever is told nil finds it closed,
\* and however far Initialize got, Stop leaves no pool behind: the only way out is
\* the end of its context while another caller closes it.
NilMeansClosed ==
  /\ \A c \in Closers : closer[c] = "nil" => pool = "closed"
  /\ stop = "done" => pool \in {"none", "closed"} \/ closer["stop"] = "err"

\* Stop, and each caller that closes the connection, ends.
StopEnds ==
  /\ stop = "asking" ~> stop = "done"
  /\ \A c \in Closers : closer[c] # "idle" ~> closer[c] \in {"nil", "err"}
=============================================================================
