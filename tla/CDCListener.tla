---------------------------- MODULE CDCListener ----------------------------
(***************************************************************************)
(* Change data capture: internal/analytics/cdc_listener.go, for the table  *)
(* the aggregates are computed from.                                       *)
(*                                                                         *)
(* One goroutine waits for notifications on a connection of its own, one   *)
(* polls pg_stat_user_tables; Stop reads l.conn without the mutex, and the *)
(* connection may have been given up between the test and the call.        *)
(***************************************************************************)
EXTENDS Integers

CONSTANT Unseen  \* no entry in prevStats

VARIABLES
  mode,            \* "polling", "realtime", "both"; "off" without a listener
  createTriggers,  \* config.CreateTriggers
  running,
  quit,       \* the channel l.stop is closed
  monitored,  \* the table is in monitoredTables
  trigger,    \* the table has its trigger
  stats,      \* pg_stat_user_tables: [ins, upd, del]
  prev,       \* prevStats
  poller,     \* pollLoop: "off", "select"
  listener,   \* listenLoop: "off", "top", "connecting", "listen", "select", "wait", "sleep"
  conn,       \* l.conn: "nil", "open", "closed"
  notes,      \* notifications on their way to the connection
  stopper     \* Stop: "idle", "test", "close", "join", "returned", "panicked"

configured == <<mode, createTriggers, monitored>>
listening == <<listener, conn, notes>>
stopping == <<running, quit, stopper>>
cdcvars == <<configured, listening, stopping, trigger, stats, prev, poller>>

Ops == {"ins", "upd", "del"}

CdcInit(m, triggers) ==
  /\ mode = m /\ createTriggers = triggers
  /\ running = FALSE /\ quit = FALSE /\ monitored = FALSE /\ trigger = FALSE
  /\ stats = [op \in Ops |-> 0] /\ prev = Unseen
  /\ poller = "off" /\ listener = "off" /\ conn = "nil" /\ notes = 0
  /\ stopper = "idle"

\* AddTable for the table of a CDC aggregate, then Start; creating the trigger may
\* fail, which is only logged.
CdcStart(table) ==
  /\ ~running /\ mode # "off"
  /\ running' = TRUE /\ monitored' = table
  /\ trigger' \in {FALSE, table /\ createTriggers}
  /\ poller' = IF mode \in {"polling", "both"} THEN "select" ELSE "off"
  /\ listener' = IF mode \in {"realtime", "both"} THEN "top" ELSE "off"
  /\ UNCHANGED <<mode, createTriggers, quit, stopper, conn, notes, stats, prev>>

-----------------------------------------------------------------------------
(* PostgreSQL *)

Listens == listener \in {"select", "wait"} /\ conn = "open"

\* A row changes: the counters count it, and its trigger notifies those who LISTEN.
RowChanges(op) ==
  /\ stats' = [stats EXCEPT ![op] = @ + 1]
  /\ notes' = IF trigger /\ Listens THEN notes + 1 ELSE notes
  /\ UNCHANGED <<configured, stopping, trigger, prev, poller, listener, conn>>

-----------------------------------------------------------------------------
(* Polling *)

\* Faulty variant: only insertions count.
Increases_InsertsOnly == {op \in {"ins"} : stats[op] > prev[op]}

Increases == {op \in Ops : stats[op] > prev[op]}

\* One callback for each kind of change; the first poll has nothing to compare with.
Noticed == IF prev = Unseen THEN {} ELSE Increases

\* pollChanges, when its query succeeds; otherwise nothing changes.
PollChanges ==
  /\ poller = "select" /\ monitored
  /\ prev' = stats
  /\ UNCHANGED <<configured, listening, stopping, trigger, stats, poller>>

PollerStops ==
  /\ poller = "select" /\ quit
  /\ poller' = "off"
  /\ UNCHANGED <<configured, listening, stopping, trigger, stats, prev>>

-----------------------------------------------------------------------------
(* Listening *)

ListenerBecomes(pc, c, n) ==
  /\ listener' = pc /\ conn' = c /\ notes' = n
  /\ UNCHANGED <<configured, stopping, trigger, stats, prev, poller>>

\* The deferred function of connectAndListen.
Leaves(pc) == ListenerBecomes(pc, "nil", 0)

\* listenLoop before and after connectAndListen.
ListenLoop ==
  \/ listener \in {"top", "sleep"} /\ quit /\ ListenerBecomes("off", conn, notes)
  \/ listener = "sleep" /\ ~quit /\ ListenerBecomes("top", conn, notes)

\* A look at the stop channel, and the connect begins; l.conn is nil until it ends.
Connect ==
  /\ listener = "top" /\ ~quit
  /\ ListenerBecomes("connecting", conn, notes)

\* pgx.Connect, or Acquire and Hijack, returns; the context has no deadline, and Stop
\* may have been called in the meantime.
Connected ==
  /\ listener = "connecting"
  /\ ListenerBecomes("listen", "open", 0) \/ ListenerBecomes("sleep", "nil", 0)

\* The LISTEN statement, under the same context.
Listen ==
  /\ listener = "listen"
  /\ \/ conn = "open" /\ ListenerBecomes("select", conn, 0)
     \/ Leaves("sleep")

\* A look at the stop channel before every wait.
Select ==
  /\ listener = "select"
  /\ IF quit THEN Leaves("top") ELSE ListenerBecomes("wait", conn, notes)

\* WaitForNotification has no deadline of its own: it takes a notification, or the
\* connection is closed or breaks.
Notification ==
  /\ listener = "wait" /\ conn = "open" /\ notes > 0
  /\ ListenerBecomes("select", conn, notes - 1)

WaitFails ==
  /\ listener = "wait"
  /\ Leaves("sleep")

-----------------------------------------------------------------------------
(* Stop *)

StopperBecomes(pc) ==
  /\ stopper' = pc
  /\ UNCHANGED <<configured, listener, notes, running, quit, trigger, stats, prev, poller>>

CdcStop ==
  /\ stopper = "idle" /\ running
  /\ running' = FALSE /\ quit' = TRUE /\ stopper' = "test"
  /\ UNCHANGED <<configured, listening, trigger, stats, prev, poller>>

TestConnection ==
  /\ stopper = "test"
  /\ StopperBecomes(IF conn = "nil" THEN "join" ELSE "close")
  /\ UNCHANGED conn

\* Faulty variant: Stop only waits for the listener.
CloseConnection_Kept ==
  /\ stopper = "close"
  /\ StopperBecomes("join")
  /\ UNCHANGED conn

\* l.conn is read again: nil by now, its Close panics.
CloseConnection ==
  /\ stopper = "close"
  /\ IF conn = "nil" THEN StopperBecomes("panicked") /\ UNCHANGED conn
     ELSE StopperBecomes("join") /\ conn' = "closed"

Join ==
  /\ stopper = "join" /\ poller = "off" /\ listener = "off"
  /\ StopperBecomes("returned")
  /\ UNCHANGED conn
=============================================================================
