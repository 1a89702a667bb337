----------------------------- MODULE Analytics -----------------------------
(***************************************************************************)
(* The analytics engine: aggregates, scheduler and change data capture     *)
(* together (AnalyticsEngine of router.go, RefreshManager of refresh.go).  *)
(*                                                                         *)
(* A change that the listener notices starts a refresh of each CDC         *)
(* aggregate in a goroutine that nobody waits for: RefreshManager.Stop     *)
(* waits for the scheduler and for the listener, and DuckDB is closed      *)
(* under the refreshes that are still in flight.                           *)
(***************************************************************************)
EXTENDS Aggregates, CDCListener

CONSTANT Setups  \* configurations, [mode, triggers, scheduler], each with the aggregate
                 \* and the strategies explored, the calls the application makes, and the
                 \* bounds on the clock, on the edits and on the changes: [id, strategies,
                 \* calls, time, edits, changes]

ASSUME SetupsAssumption == \A s \in Setups : s.id \in Ids

VARIABLES setup,
          engine  \* "new", "running", "scheduler", "listener", "stopped"

vars == <<aggvars, cdcvars, setup, engine>>
Aggregating == UNCHANGED <<cdcvars, setup, engine>>
Capturing == UNCHANGED <<aggvars, setup, engine>>
Running == UNCHANGED <<setup, engine>>

Init ==
  /\ setup \in Setups /\ engine = "new"
  /\ now = 0
  /\ \E d \in {None} \cup {Definition(s) : s \in setup.strategies} :
       AggInit([id \in Ids |-> IF id = setup.id THEN d ELSE None])
  /\ CdcInit(setup.mode, setup.triggers)

\* The aggregates a change refreshes.
CDCAggregates == {id \in Ids : HasStrategy(id, "cdc")}

\* handleCDCEventNew for each of n events.
HandleCDCEvents(n) ==
  /\ HasRoom(CDCAggregates, n)
  /\ Spawn("cdc", CDCAggregates, n)
  /\ unseen' = IF n = 0 THEN unseen ELSE unseen \ CDCAggregates
  /\ UNCHANGED <<data, store, closed, request, scheduler>>

-----------------------------------------------------------------------------
(* Start and stop *)

Start ==
  /\ engine = "new" /\ "start" \in setup.calls
  /\ engine' = "running"
  /\ scheduler' = [scheduler EXCEPT !.pc = IF setup.scheduler THEN "select" ELSE "off"]
  /\ IF mode = "off" THEN UNCHANGED cdcvars ELSE CdcStart(CDCAggregates # {})
  /\ UNCHANGED <<data, store, closed, work, request, unseen, setup>>

Stop ==
  /\ engine = "running" /\ "stop" \in setup.calls
  /\ engine' = "scheduler"
  /\ UNCHANGED <<aggvars, cdcvars, setup>>

SchedulerStopped == engine = "scheduler" /\ SchedulerStops /\ Aggregating

StopListener ==
  /\ engine = "scheduler" /\ scheduler.pc = "off"
  /\ engine' = "listener"
  /\ IF running THEN CdcStop ELSE UNCHANGED cdcvars
  /\ UNCHANGED <<aggvars, setup>>

CloseDuckDB ==
  /\ engine = "listener" /\ (stopper = "returned" \/ mode = "off")
  /\ engine' = "stopped" /\ closed' = TRUE
  /\ UNCHANGED <<data, store, work, request, scheduler, unseen, cdcvars, setup>>

-----------------------------------------------------------------------------
(* Steps of both *)

Time == now < setup.time /\ Clock

\* INSERT, UPDATE and DELETE of a row of the application.
ChangeRow ==
  /\ stats["ins"] + stats["upd"] + stats["del"] < setup.changes
  /\ Running
  /\ \E g \in Groups :
       \/ source[g] < MaxRows /\ Becomes([source EXCEPT ![g] = @ + 1]) /\ RowChanges("ins")
       \/ source[g] > 0 /\ Becomes([source EXCEPT ![g] = @ - 1]) /\ RowChanges("del")
       \/ \E h \in Groups \ {g} :
            /\ source[g] > 0 /\ source[h] < MaxRows
            /\ Becomes([source EXCEPT ![g] = @ - 1, ![h] = @ + 1]) /\ RowChanges("upd")

Poll ==
  /\ PollChanges /\ Running
  /\ HandleCDCEvents(Cardinality(Noticed))

\* handleNotification
Notified ==
  /\ Notification /\ Running
  /\ HandleCDCEvents(IF monitored THEN 1 ELSE 0)

\* The callback that Start registered for a table change reported by the application.
NotifyCDC ==
  /\ "notify" \in setup.calls /\ running /\ Running
  /\ HandleCDCEvents(1) /\ UNCHANGED cdcvars

Call ==
  \/ "refresh" \in setup.calls /\ OnDemand(setup.id)
  \/ edits < setup.edits /\ DeleteAggregate(setup.id)
  \/ edits < setup.edits /\ \E s \in setup.strategies : CreateAggregate(setup.id, s)
  \/ \E id \in Ids : \E k \in KeysOf(id) : ComputeLazily(id, k)

Schedule == SchedulerTick \/ SchedulerSpawn \/ SchedulerWait

Listener == ListenLoop \/ Connect \/ Connected \/ Listen \/ Select \/ WaitFails

Stopper == TestConnection \/ CloseConnection \/ Join

\* A panic ends the process.
Next ==
  /\ stopper # "panicked"
  /\ \/ Start \/ Stop \/ SchedulerStopped \/ StopListener \/ CloseDuckDB
     \/ ChangeRow \/ Poll \/ Notified \/ NotifyCDC
     \/ (Time \/ Call \/ StoreLazily \/ Schedule) /\ Aggregating
     \/ (\E w \in Workers : RefreshStep(w)) /\ Aggregating
     \/ (PollerStops \/ Listener \/ Stopper) /\ Capturing

Spec == Init /\ [][Next]_vars

-----------------------------------------------------------------------------
(* Fairness.  The statements of a refresh that has a deadline return, and   *)
(* those of the poller; the connect of the listener and its LISTEN have     *)
(* none, so that they return only when they do, LISTEN also when its        *)
(* connection is closed.  The runtime schedules every goroutine, and the    *)
(* ticks of the scheduler and of the poller never cease; where select has a *)
(* choice it is random (strong fairness), and strong fairness also makes up *)
(* for a spawn that here must wait for a free place in work.                *)

Closed == conn = "closed"
HasDeadline(w) == work[w].by \in DOMAIN Timeout

Fairness ==
  /\ \A w \in Workers : WF_vars(HasDeadline(w) /\ RefreshStep(w) /\ Aggregating)
  /\ WF_vars(SchedulerTick /\ Aggregating) /\ SF_vars(SchedulerSpawn /\ Aggregating)
  /\ WF_vars(SchedulerWait /\ Aggregating) /\ SF_vars(SchedulerStopped)
  /\ SF_vars(Poll) /\ SF_vars(PollerStops /\ Capturing)
  /\ WF_vars((ListenLoop \/ Connect \/ Select) /\ Capturing)
  /\ WF_vars(Closed /\ (Listen \/ WaitFails) /\ Capturing)
  /\ WF_vars(StopListener \/ (Stopper /\ Capturing) \/ CloseDuckDB)

FairSpec == Spec /\ Fairness

Stopping == engine \in {"scheduler", "listener", "stopped"}

\* The CDC strategy "refreshes on source data changes" (docs/configuration.md): in the
\* modes that poll, every change after the first poll starts a refresh, or a refresh
\* under way queries the table after it, unless the engine is stopped or the aggregate
\* deleted, however changes, polls, refreshes and reconnections interleave.
ChangeIsPickedUp ==
  \A id \in Ids :
    (HasStrategy(id, "cdc") /\ monitored /\ poller = "select" /\ prev # Unseen
       /\ stats # prev /\ id \in unseen)
      ~> (id \notin unseen \/ ~HasStrategy(id, "cdc") \/ Stopping)

\* "How often to check for pending refreshes" (docs/configuration.md): an aggregate that
\* is due gets a refresh from the scheduler, and again after every one that failed.
DueIsRefreshed ==
  \A id \in Ids :
    (Due(id) /\ engine = "running")
      ~> (~Due(id) \/ Stopping \/ \E w \in Scheduled : work[w].id = id /\ work[w].pc = "clear")

\* The server has not answered the connect or the LISTEN of the listener.
Unanswered == listener = "connecting" \/ (listener = "listen" /\ conn = "open")

\* Stopping the engine ends, wherever Stop finds the scheduler and the listener, in the
\* middle of a connect too: Stop waits for both, and closes the connection the listener
\* waits on.  There are two ways out: a connect, or a LISTEN on a connection opened too
\* late for Stop to close it, that never returns, for neither has a deadline; and the
\* panic of a connection that was given up between the test and the call.
StopEnds ==
  []<>(~Unanswered) => (Stopping ~> (engine = "stopped" \/ stopper = "panicked"))
=============================================================================
