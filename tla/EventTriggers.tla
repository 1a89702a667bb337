--------------------------- MODULE EventTriggers ---------------------------
(***************************************************************************)
(* Event triggers: internal/events/triggers.go.                            *)
(*                                                                         *)
(* A database trigger writes one row of graphpost_events per change.  Each *)
(* server process ("instance") runs a poller that SELECTs pending rows,    *)
(* claims them one by one and puts a copy of each on a bounded channel; a  *)
(* processor that takes copies off the channel and starts one worker per   *)
(* token of a pool; and workers that POST the copy to a webhook and write  *)
(* the outcome back to the row.  Every write is an UPDATE of its own,      *)
(* guarded by the id alone, whose error is ignored.                        *)
(***************************************************************************)
EXTENDS Integers, Sequences, FiniteSets

CONSTANTS
  Instances,      \* server processes sharing one database
  Events,         \* possible rows of graphpost_events, ranked by created_at
  Manual,         \* events made by InvokeEventTrigger: they have no row
  Triggers,       \* names of event triggers
  TriggerOf,      \* the trigger_name of every event, captured or manual
  RetryLimit,     \* RetryConfig.NumRetries of a trigger, or config.RetryLimit
  ManualEnabled,  \* triggers with EnableManual or config.EnableManualTrigger
  PoolSize,       \* config.HTTPPoolSize
  QueueCap,       \* capacity of eventQueue (10000 in the code)
  BatchLimit,     \* LIMIT of the poll query (100 in the code)
  StreamRows,     \* result rows the driver and the socket can buffer
  MaxFaults,      \* bound: database statements that fail
  MaxExits,       \* bound: crashes or ends of a process
  MaxRedeliver    \* bound: calls of RedeliverEvent

Ids == Events \cup Manual

ASSUME ConstantsAssumption ==
  /\ Events \subseteq Nat
  /\ Events \cap Manual = {}
  /\ TriggerOf \in [Ids -> Triggers]
  /\ RetryLimit \in [Triggers -> Int]
  /\ ManualEnabled \subseteq Triggers
  /\ PoolSize \in Nat /\ QueueCap \in Nat /\ BatchLimit \in Nat /\ StreamRows \in Nat
  /\ MaxFaults \in Nat /\ MaxExits \in Nat /\ MaxRedeliver \in Nat

VARIABLES
  status, retries, error,  \* columns of graphpost_events
  dbTriggers,  \* triggers installed in PostgreSQL
  phase,       \* life of a process: down, created, up, stopping
  registered,  \* tm.triggers of each process
  pollPc,      \* where its poller goroutine is
  batch,       \* rows the poll query returned that are still to be claimed
  selecting,   \* processes whose query still holds its FOR UPDATE locks
  claim,       \* the copy between its claim and the channel send, if any
  queue,       \* eventQueue
  procDone,    \* processes whose processEvents has returned
  held,        \* the copy processEvents holds while it waits for a token
  jobs,        \* running workers
  callers,     \* InvokeEventTrigger calls blocked in their channel send
  invoked,     \* manual events that have been requested
  posts,       \* history: POSTs of an event since it last became pending anew
  acked,       \* history: events answered with 2xx since then
  dirty,       \* history: events whose claim did not take what was read
  faults, exits, redelivers

table   == <<status, retries, error>>
db      == <<table, dbTriggers>>
polling == <<pollPc, batch, selecting, claim>>
working == <<queue, procDone, held, jobs>>
manual  == <<callers, invoked>>
history == <<posts, acked, dirty>>
counts  == <<faults, exits, redelivers>>
vars == <<db, phase, registered, polling, working, manual, history, counts>>

Statuses == {"none", "pending", "processing", "delivered", "failed", "retrying"}
Reasons  == {"", "post", "trigger not found", "bad request"}
Copies   == [id : Ids, retry : Nat]
RowCopies == [id : Events, retry : Nat]
Jobs     == [slot : 1..PoolSize, copy : Copies,
             pc : {"lookup", "missing", "post", "bad", "ok", "giveup", "retry"}]

TypeOK ==
  /\ status \in [Events -> Statuses]
  /\ retries \in [Events -> Nat]
  /\ error \in [Events -> Reasons]
  /\ dbTriggers \subseteq Triggers
  /\ phase \in [Instances -> {"down", "created", "up", "stopping"}]
  /\ registered \in [Instances -> SUBSET Triggers]
  /\ pollPc \in [Instances -> {"idle", "rows", "send", "release", "done"}]
  /\ batch \in [Instances -> SUBSET RowCopies]
  /\ selecting \subseteq Instances
  /\ claim \in [Instances -> SUBSET RowCopies]
  /\ queue \in [Instances -> Seq(Copies)]
  /\ procDone \subseteq Instances
  /\ held \in [Instances -> SUBSET Copies]
  /\ jobs \in [Instances -> SUBSET Jobs]
  /\ callers \in [Instances -> SUBSET Manual]
  /\ invoked \subseteq Manual
  /\ posts \in [Ids -> Nat]
  /\ acked \subseteq Ids
  /\ dirty \subseteq Events
  /\ faults \in 0..MaxFaults /\ exits \in 0..MaxExits
  /\ redelivers \in 0..MaxRedeliver

\* A process that does not run holds nothing.
Init ==
  /\ status = [e \in Events |-> "none"]
  /\ retries = [e \in Events |-> 0]
  /\ error = [e \in Events |-> ""]
  /\ dbTriggers = {}
  /\ phase = [i \in Instances |-> "down"]
  /\ registered = [i \in Instances |-> {}]
  /\ pollPc = [i \in Instances |-> "idle"]
  /\ batch = [i \in Instances |-> {}]
  /\ selecting = {}
  /\ claim = [i \in Instances |-> {}]
  /\ queue = [i \in Instances |-> << >>]
  /\ procDone = {}
  /\ held = [i \in Instances |-> {}]
  /\ jobs = [i \in Instances |-> {}]
  /\ callers = [i \in Instances |-> {}]
  /\ invoked = {}
  /\ posts = [e \in Ids |-> 0]
  /\ acked = {} /\ dirty = {}
  /\ faults = 0 /\ exits = 0 /\ redelivers = 0

SetStatus(e, s) == status' = [status EXCEPT ![e] = s]

Fails == faults < MaxFaults /\ faults' = faults + 1
Works == UNCHANGED faults

-----------------------------------------------------------------------------
(* Life of a process *)

\* NewTriggerManager: the registry starts empty, whatever PostgreSQL holds.
Create(i) ==
  /\ phase[i] = "down"
  /\ phase' = [phase EXCEPT ![i] = "created"]
  /\ UNCHANGED <<db, registered, polling, working, manual, history, counts>>

Start(i) ==
  /\ phase[i] = "created"
  /\ phase' = [phase EXCEPT ![i] = "up"]
  /\ UNCHANGED <<db, registered, polling, working, manual, history, counts>>

\* Stop closes stopChan.  A loop returns only when its select picks that case;
\* a fetch or a wait for a token that has begun goes on.
Stop(i) ==
  /\ phase[i] = "up"
  /\ phase' = [phase EXCEPT ![i] = "stopping"]
  /\ UNCHANGED <<db, registered, polling, working, manual, history, counts>>

PollerReturn(i) ==
  /\ phase[i] = "stopping" /\ pollPc[i] = "idle"
  /\ pollPc' = [pollPc EXCEPT ![i] = "done"]
  /\ UNCHANGED <<db, phase, registered, batch, selecting, claim, working, manual,
                 history, counts>>

ProcessorReturn(i) ==
  /\ phase[i] = "stopping" /\ i \notin procDone /\ held[i] = {}
  /\ procDone' = procDone \cup {i}
  /\ UNCHANGED <<db, phase, registered, polling, queue, held, jobs, manual,
                 history, counts>>

\* The process crashes, or ends after Stop: only the database survives, and
\* nothing gives back the rows it had claimed.
Exit(i) ==
  /\ phase[i] # "down" /\ exits < MaxExits
  /\ exits' = exits + 1
  /\ phase' = [phase EXCEPT ![i] = "down"]
  /\ registered' = [registered EXCEPT ![i] = {}]
  /\ pollPc' = [pollPc EXCEPT ![i] = "idle"]
  /\ batch' = [batch EXCEPT ![i] = {}]
  /\ selecting' = selecting \ {i}
  /\ claim' = [claim EXCEPT ![i] = {}]
  /\ queue' = [queue EXCEPT ![i] = << >>]
  /\ procDone' = procDone \ {i}
  /\ held' = [held EXCEPT ![i] = {}]
  /\ jobs' = [jobs EXCEPT ![i] = {}]
  /\ callers' = [callers EXCEPT ![i] = {}]
  /\ UNCHANGED <<db, invoked, history, faults, redelivers>>

-----------------------------------------------------------------------------
(* The trigger registry: the lock is held across the database call *)

\* RegisterTrigger fills the map first: a failed CREATE TRIGGER leaves the entry.
Register(i, t) ==
  /\ phase[i] # "down"
  /\ registered' = [registered EXCEPT ![i] = @ \cup {t}]
  /\ \/ Works /\ dbTriggers' = dbTriggers \cup {t}
     \/ Fails /\ UNCHANGED dbTriggers
  /\ UNCHANGED <<table, phase, polling, working, manual, history, exits, redelivers>>

\* UnregisterTrigger: a failed DROP TRIGGER changes nothing.
Unregister(i, t) ==
  /\ phase[i] # "down" /\ t \in registered[i]
  /\ registered' = [registered EXCEPT ![i] = @ \ {t}]
  /\ dbTriggers' = dbTriggers \ {t}
  /\ UNCHANGED <<table, phase, polling, working, manual, history, counts>>

\* The installed trigger records a change.  created_at is the start of the
\* writing transaction, so rows may appear out of that order.
Capture(e) ==
  /\ status[e] = "none" /\ TriggerOf[e] \in dbTriggers
  /\ SetStatus(e, "pending")
  /\ UNCHANGED <<retries, error, dbTriggers, phase, registered, polling, working,
                 manual, history, counts>>

\* Faulty variant: the UPDATE of RedeliverEvent without its status test.
Redeliver_AnyStatus(e) ==
  /\ redelivers < MaxRedeliver /\ status[e] \notin {"none", "pending"}
  /\ redelivers' = redelivers + 1
  /\ SetStatus(e, "pending")
  /\ retries' = [retries EXCEPT ![e] = 0]
  /\ posts' = [posts EXCEPT ![e] = 0]
  /\ acked' = acked \ {e}
  /\ UNCHANGED <<error, dbTriggers, phase, registered, polling, working, manual,
                 dirty, faults, exits>>

\* RedeliverEvent: the one UPDATE that looks at the status.
Redeliver(e) ==
  /\ redelivers < MaxRedeliver /\ status[e] = "failed"
  /\ redelivers' = redelivers + 1
  /\ SetStatus(e, "pending")
  /\ retries' = [retries EXCEPT ![e] = 0]
  /\ posts' = [posts EXCEPT ![e] = 0]
  /\ acked' = acked \ {e}
  /\ UNCHANGED <<error, dbTriggers, phase, registered, polling, working, manual,
                 dirty, faults, exits>>

-----------------------------------------------------------------------------
(* The poller: pollEvents and fetchPendingEvents *)

LockedBy(i) == IF i \in selecting THEN {c.id : c \in batch[i]} ELSE {}
Unlocked(e) == \A i \in Instances : e \notin LockedBy(i)

Eligible == {e \in Events : status[e] \in {"pending", "retrying"} /\ Unlocked(e)}

\* The oldest rows, at most BatchLimit of them.
Oldest(E) == {e \in E : Cardinality({f \in E : f < e}) < BatchLimit}

\* SELECT ... ORDER BY created_at LIMIT n FOR UPDATE SKIP LOCKED outside any
\* transaction block.  A poll that finds no row changes nothing.
Fetch(i) ==
  /\ phase[i] \in {"up", "stopping"} /\ pollPc[i] = "idle"
  /\ Oldest(Eligible) # {}
  /\ batch' = [batch EXCEPT ![i] =
                 {[id |-> e, retry |-> retries[e]] : e \in Oldest(Eligible)}]
  /\ selecting' = selecting \cup {i}
  /\ pollPc' = [pollPc EXCEPT ![i] = "rows"]
  /\ UNCHANGED <<db, phase, registered, claim, working, manual, history, counts>>

\* The server has sent every row: the implicit transaction ends, the locks go.
\* It cannot while the rows exceed what the client side buffers.
SelectEnds(i) ==
  /\ i \in selecting /\ Cardinality(batch[i]) <= StreamRows
  /\ selecting' = selecting \ {i}
  /\ UNCHANGED <<db, phase, registered, pollPc, batch, claim, working, manual,
                 history, counts>>

\* rows.Next: the next row in created_at order.
NextRow(i) == {c \in batch[i] : \A d \in batch[i] : c.id <= d.id}

AsRead(c) == /\ status[c.id] \in {"pending", "retrying"}
             /\ retries[c.id] = c.retry

\* Faulty variant: the row is queued without being marked as processing.
Claim_NoMark(i) ==
  /\ pollPc[i] = "rows"
  /\ \E c \in NextRow(i) :
       /\ batch' = [batch EXCEPT ![i] = @ \ {c}]
       /\ claim' = [claim EXCEPT ![i] = {c}]
  /\ pollPc' = [pollPc EXCEPT ![i] = "send"]
  /\ UNCHANGED <<db, phase, registered, selecting, working, manual, history, counts>>

\* UPDATE ... SET status = 'processing' WHERE id = $1, error ignored: it does
\* not check that the row still is what the SELECT returned.
Claim(i) ==
  /\ pollPc[i] = "rows"
  /\ \E c \in NextRow(i) :
       /\ \/ /\ Works /\ Unlocked(c.id)
             /\ SetStatus(c.id, "processing")
             /\ dirty' = IF AsRead(c) THEN dirty ELSE dirty \cup {c.id}
          \/ /\ Fails
             /\ UNCHANGED status
             /\ dirty' = dirty \cup {c.id}
       /\ batch' = [batch EXCEPT ![i] = @ \ {c}]
       /\ claim' = [claim EXCEPT ![i] = {c}]
  /\ pollPc' = [pollPc EXCEPT ![i] = "send"]
  /\ UNCHANGED <<retries, error, dbTriggers, phase, registered, selecting, working,
                 manual, posts, acked, exits, redelivers>>

\* select { case tm.eventQueue <- &event:
Enqueue(i) ==
  /\ pollPc[i] = "send" /\ Len(queue[i]) < QueueCap
  /\ \E c \in claim[i] : queue' = [queue EXCEPT ![i] = Append(@, c)]
  /\ claim' = [claim EXCEPT ![i] = {}]
  /\ pollPc' = [pollPc EXCEPT ![i] = "rows"]
  /\ UNCHANGED <<db, phase, registered, batch, selecting, procDone, held, jobs,
                 manual, history, counts>>

\* default:
QueueFull(i) ==
  /\ pollPc[i] = "send" /\ Len(queue[i]) >= QueueCap
  /\ pollPc' = [pollPc EXCEPT ![i] = "release"]
  /\ UNCHANGED <<db, phase, registered, batch, selecting, claim, working, manual,
                 history, counts>>

\* Faulty variant: a full queue drops the copy and leaves the row claimed.
Release_Dropped(i) ==
  /\ pollPc[i] = "release"
  /\ claim' = [claim EXCEPT ![i] = {}]
  /\ pollPc' = [pollPc EXCEPT ![i] = "rows"]
  /\ UNCHANGED <<db, phase, registered, batch, selecting, working, manual, history,
                 counts>>

\* UPDATE ... SET status = 'pending', error ignored.
Release(i) ==
  /\ pollPc[i] = "release"
  /\ \E c \in claim[i] :
       \/ Works /\ Unlocked(c.id) /\ SetStatus(c.id, "pending")
       \/ Fails /\ UNCHANGED status
  /\ claim' = [claim EXCEPT ![i] = {}]
  /\ pollPc' = [pollPc EXCEPT ![i] = "rows"]
  /\ UNCHANGED <<retries, error, dbTriggers, phase, registered, batch, selecting,
                 working, manual, history, exits, redelivers>>

\* rows.Next is FALSE: no row is left, or the connection broke on the way.
FetchEnds(i) ==
  /\ pollPc[i] = "rows"
  /\ IF batch[i] = {} THEN Works ELSE Fails
  /\ batch' = [batch EXCEPT ![i] = {}]
  /\ selecting' = selecting \ {i}
  /\ pollPc' = [pollPc EXCEPT ![i] = "idle"]
  /\ UNCHANGED <<db, phase, registered, claim, working, manual, history, exits,
                 redelivers>>

-----------------------------------------------------------------------------
(* The processor and its workers: processEvents and deliverEvent *)

Take(i) ==
  /\ phase[i] \in {"up", "stopping"} /\ i \notin procDone
  /\ held[i] = {} /\ queue[i] # << >>
  /\ held' = [held EXCEPT ![i] = {Head(queue[i])}]
  /\ queue' = [queue EXCEPT ![i] = Tail(@)]
  /\ UNCHANGED <<db, phase, registered, polling, procDone, jobs, manual, history,
                 counts>>

Idle(i) == {s \in 1..PoolSize : \A j \in jobs[i] : j.slot # s}

\* tm.workerPool <- struct{}{}: tokens are alike, so the least free one is taken.
StartJob(i) ==
  /\ \E c \in held[i], s \in Idle(i) :
       /\ \A t \in Idle(i) : s <= t
       /\ jobs' = [jobs EXCEPT ![i] =
                     @ \cup {[slot |-> s, copy |-> c, pc |-> "lookup"]}]
  /\ held' = [held EXCEPT ![i] = {}]
  /\ UNCHANGED <<db, phase, registered, polling, queue, procDone, manual, history,
                 counts>>

Advance(i, j, pc) ==
  jobs' = [jobs EXCEPT ![i] = (@ \ {j}) \cup {[slot |-> j.slot, copy |-> j.copy, pc |-> pc]}]

Lookup(i, j) ==
  /\ j.pc = "lookup"
  /\ Advance(i, j, IF TriggerOf[j.copy.id] \in registered[i] THEN "post"
                                                             ELSE "missing")
  /\ UNCHANGED <<db, phase, registered, polling, queue, procDone, held, manual,
                 history, counts>>

\* Faulty variant: one retry too many.
AfterFailure_OffByOne(c) == IF c.retry > RetryLimit[TriggerOf[c.id]] THEN "giveup" ELSE "retry"

\* handleDeliveryFailure decides with the retry count read when the row was
\* claimed.
AfterFailure(c) == IF c.retry >= RetryLimit[TriggerOf[c.id]] THEN "giveup" ELSE "retry"

\* The request is built, sent and answered, or the client gives up on it.
Post(i, j) ==
  /\ j.pc = "post"
  /\ \/ /\ Advance(i, j, "bad")
        /\ UNCHANGED <<posts, acked>>
     \/ /\ posts' = [posts EXCEPT ![j.copy.id] = @ + 1]
        /\ \/ /\ Advance(i, j, "ok")
              /\ acked' = acked \cup {j.copy.id}
           \/ /\ Advance(i, j, AfterFailure(j.copy))
              /\ UNCHANGED acked
  /\ UNCHANGED <<db, phase, registered, polling, queue, procDone, held, manual,
                 dirty, counts>>

\* Faulty variant: a failed delivery is written with a status nothing else knows.
NewStatus_Unknown(pc) == CASE pc = "ok" -> "delivered" [] pc = "retry" -> "retrying" [] OTHER -> "error"

\* Faulty variant: a delivered event is put back for another delivery.
NewStatus_Redo(pc) == CASE pc = "ok" -> "pending" [] pc = "retry" -> "retrying" [] OTHER -> "failed"

\* What the worker writes: markEventDelivered, markEventFailed or the retry.
NewStatus(pc) == CASE pc = "ok" -> "delivered" [] pc = "retry" -> "retrying" [] OTHER -> "failed"

NewError(pc) ==
  CASE pc = "missing" -> "trigger not found" [] pc = "bad" -> "bad request" [] OTHER -> "post"

Record(e, pc) ==
  /\ SetStatus(e, NewStatus(pc))
  /\ retries' = IF pc = "retry" THEN [retries EXCEPT ![e] = @ + 1] ELSE retries
  /\ error' = IF pc = "ok" THEN error ELSE [error EXCEPT ![e] = NewError(pc)]

\* Faulty variant: the worker returns without giving its token back.
Mark_LeaksToken(i, j) ==
  /\ j.pc \notin {"lookup", "post"} /\ Works
  /\ IF j.copy.id \in Events THEN Record(j.copy.id, j.pc) ELSE UNCHANGED table
  /\ Advance(i, j, "post")
  /\ UNCHANGED <<dbTriggers, phase, registered, polling, queue, procDone, held,
                 manual, history, exits, redelivers>>

\* The UPDATE is by id only; no row has the id of a manual event.  The token is
\* given back whatever happens.
Mark(i, j) ==
  /\ j.pc \notin {"lookup", "post"}
  /\ \/ /\ Works
        /\ IF j.copy.id \in Events
             THEN Unlocked(j.copy.id) /\ Record(j.copy.id, j.pc)
             ELSE UNCHANGED table
     \/ Fails /\ UNCHANGED table
  /\ jobs' = [jobs EXCEPT ![i] = @ \ {j}]
  /\ UNCHANGED <<dbTriggers, phase, registered, polling, queue, procDone, held,
                 manual, history, exits, redelivers>>

-----------------------------------------------------------------------------
(* InvokeEventTrigger *)

Invoke(i, m) ==
  /\ phase[i] # "down" /\ m \notin invoked
  /\ TriggerOf[m] \in registered[i] \cap ManualEnabled
  /\ invoked' = invoked \cup {m}
  /\ callers' = [callers EXCEPT ![i] = @ \cup {m}]
  /\ UNCHANGED <<db, phase, registered, polling, working, history, counts>>

\* A blocking send: after Stop, or before Start, nobody makes room.
SendManual(i, m) ==
  /\ m \in callers[i] /\ Len(queue[i]) < QueueCap
  /\ queue' = [queue EXCEPT ![i] = Append(@, [id |-> m, retry |-> 0])]
  /\ callers' = [callers EXCEPT ![i] = @ \ {m}]
  /\ UNCHANGED <<db, phase, registered, polling, procDone, held, jobs, invoked,
                 history, counts>>

-----------------------------------------------------------------------------
Poller(i) == Fetch(i) \/ Claim(i) \/ Enqueue(i) \/ QueueFull(i) \/ Release(i) \/ FetchEnds(i)
Processor(i) == Take(i) \/ StartJob(i)
Worker(i, j) == Lookup(i, j) \/ Post(i, j) \/ Mark(i, j)
Process(i) == Create(i) \/ Start(i) \/ Stop(i) \/ PollerReturn(i) \/ ProcessorReturn(i)
              \/ Exit(i)

Next ==
  \/ \E i \in Instances :
       \/ Process(i) \/ Poller(i) \/ SelectEnds(i) \/ Processor(i)
       \/ \E j \in jobs[i] : Worker(i, j)
       \/ \E t \in Triggers : Register(i, t) \/ Unregister(i, t)
       \/ \E m \in Manual : Invoke(i, m) \/ SendManual(i, m)
  \/ \E e \in Events : Capture(e) \/ Redeliver(e)

Spec == Init /\ [][Next]_vars

-----------------------------------------------------------------------------
(* Where a copy of an event can be *)

Places ==
  [kind : {"claim", "held"}, inst : Instances, n : {0}]
  \cup [kind : {"queue"}, inst : Instances, n : 1..QueueCap]
  \cup [kind : {"job"}, inst : Instances, n : 1..PoolSize]

At(p) ==
  CASE p.kind = "claim" -> claim[p.inst]
    [] p.kind = "held"  -> held[p.inst]
    [] p.kind = "queue" -> {queue[p.inst][k] : k \in {p.n} \cap DOMAIN queue[p.inst]}
    [] p.kind = "job"   -> {j.copy : j \in {k \in jobs[p.inst] : k.slot = p.n}}

Clean == Events \ dirty

-----------------------------------------------------------------------------
(* Safety *)

\* An event whose claims all took the row as it had been read is in one place at
\* most: no second worker can be delivering it, whatever fails or restarts.
SingleCopy ==
  \A p, q \in Places : \A c \in At(p), d \in At(q) :
    c.id = d.id /\ c.id \in Clean => p = q /\ c = d

\* While a copy is on its way its row says "processing" and has the retry count
\* the copy was made with: the unguarded UPDATEs overwrite nobody else's state.
CopyOwnsRow ==
  \A p \in Places : \A c \in At(p) :
    c.id \in Clean =>
      status[c.id] = "processing" /\ retries[c.id] = c.retry

Queued(i) == {queue[i][k] : k \in DOMAIN queue[i]}

\* A copy of the event is where somebody goes on with it, or will take it off a queue.
OnItsWay(e) ==
  \E i \in Instances :
    \E c \in claim[i] \cup held[i] \cup {j.copy : j \in jobs[i]}
           \cup (IF i \in procDone THEN {} ELSE Queued(i)) : c.id = e

\* A copy of the event is in a queue that nobody reads any more.
LeftBehind(e) == \E i \in procDone : \E c \in Queued(i) : c.id = e

\* A row that says "processing" comes to nobody's attention in three ways only: its
\* process ends, an UPDATE fails, or its copy is in the queue when processEvents
\* returns after Stop or gets there later.  A full queue strands no row, nor does a
\* stale claim, a retry, a redelivery or what else has failed or ended before.
NoOrphan ==
  [][\A e \in Events :
       (status[e] = "processing" /\ ~OnItsWay(e))' =>
         \/ status[e] = "processing" /\ ~OnItsWay(e)
         \/ exits' # exits \/ faults' # faults \/ LeftBehind(e)']_vars

Budget(e) == IF RetryLimit[TriggerOf[e]] > 0 THEN RetryLimit[TriggerOf[e]] + 1 ELSE 1

\* A webhook sees an event at most RetryLimit + 1 times, and the event is given
\* up for failed requests only after exactly that many.
RetryBudget ==
  \A e \in Clean :
    /\ posts[e] <= Budget(e)
    /\ status[e] = "failed" /\ error[e] = "post" => posts[e] = Budget(e)

\* "delivered" is written for acknowledged events only; an acknowledged event never
\* ends as "failed" or waits for another attempt, and no copy of it is left that
\* would be posted again: a webhook that has answered 2xx hears no more of it.
StatusTellsOutcome ==
  \A e \in Clean :
    /\ status[e] = "delivered" => e \in acked
    /\ status[e] \in {"failed", "pending", "retrying"} => e \notin acked
    /\ e \in acked =>
         \A p \in Places : \A c \in At(p) :
           c.id = e => p.kind = "job" /\ \A j \in jobs[p.inst] : j.copy = c => j.pc = "ok"

-----------------------------------------------------------------------------
(* Liveness.  The ticker fires, PostgreSQL answers, the HTTP client gives up    *)
(* after 60 seconds and goroutines are scheduled: no fairness is assumed of     *)
(* the application, of the registry or of the end of a process.                 *)

Fairness ==
  \A i \in Instances :
    /\ WF_vars(Create(i)) /\ WF_vars(Start(i))
    /\ WF_vars(Poller(i)) /\ WF_vars(SelectEnds(i))
    /\ WF_vars(Take(i)) /\ WF_vars(StartJob(i))
    /\ \A s \in 1..PoolSize : WF_vars(\E j \in jobs[i] : j.slot = s /\ Worker(i, j))
    /\ WF_vars(\E m \in Manual : SendManual(i, m))

FairSpec == Spec /\ Fairness

NeverStopped == [](\A i \in Instances : phase[i] # "stopping")

\* While nothing fails or stops, every captured event ends as delivered or failed,
\* and a manual invocation gets its place in the queue and returns.
EveryEventSettles ==
  NeverStopped =>
    /\ \A e \in Events : status[e] # "none" ~> status[e] \in {"delivered", "failed"}
    /\ \A i \in Instances, m \in Manual : m \in callers[i] ~> m \notin callers[i]

-----------------------------------------------------------------------------
(* The promise of EventDelivery *)

OutcomeOf(e) ==
  CASE status[e] \in {"none", "delivered"} -> status[e]
    [] status[e] = "failed" -> IF error[e] = "post" THEN "exhausted" ELSE "rejected"
    [] OTHER -> "open"

Delivery == INSTANCE EventDelivery WITH
  Limit    <- [e \in Events |-> Budget(e)],
  outcome  <- [e \in Events |-> OutcomeOf(e)],
  tries    <- [e \in Events |-> posts[e]],
  answered <- acked \cap Events

\* One process whose statements work delivers as EventDelivery promises, across
\* crashes, restarts, full queues and redeliveries.
DeliversAsPromised == Delivery!Spec
=============================================================================
