--------------------------- MODULE Subscriptions ---------------------------
(***************************************************************************)
(* Subscriptions over LISTEN/NOTIFY: Manager of                            *)
(* internal/subscription/manager.go and Listener of                        *)
(* internal/database/connection.go.                                        *)
(*                                                                         *)
(* One listener goroutine per table reads notifications from a connection  *)
(* of its own and offers each to the subscribers of the table without      *)
(* blocking.  It iterates over the very map that Subscribe and Unsubscribe *)
(* write, after it has given the read lock back.                           *)
(***************************************************************************)
EXTENDS Integers, Sequences, FiniteSets

CONSTANTS
  Tables,     \* tables of the schema
  Subs,       \* Subscriber values, each passed to Subscribe once at most
  TableOf,    \* TableName of a subscriber
  IdOf,       \* ID of a subscriber: the key in its table's map
  ChanCap,    \* capacity of every subscriber's Channel
  MaxNotify   \* bound: notifications per table

ASSUME SubsAssumption ==
  /\ TableOf \in [Subs -> Tables]
  /\ DOMAIN IdOf = Subs
  /\ ChanCap \in Nat /\ MaxNotify \in Nat

VARIABLES
  toStart,    \* tables whose listener Start has still to set up
  startPc,    \* progress of Manager.Start
  listener,   \* what the goroutine of a table's listener is doing
  conn,       \* state of the listener's connection
  inbox,      \* notifications sent on that connection and not read
  sent,       \* notifications raised for a table so far, numbered from 1
  current,    \* the notification being broadcast
  toVisit,    \* map entries the running iteration has still to produce
  members,    \* subscribers in m.subscribers
  used,       \* subscribers that have been passed to Subscribe
  chan,       \* content of a subscriber's Channel
  done,       \* subscribers whose Done is closed
  got,        \* history: what the client has received
  skipped,    \* history: what was not sent as Channel was full or Done closed
  owed,       \* history: what was broadcast while the subscriber was a member
  stopped,    \* TRUE once Manager.Stop has run
  fault       \* how the process died, if it did

lvars == <<toStart, startPc, listener, conn>>
nvars == <<inbox, sent, current, toVisit>>
svars == <<members, used, chan, done>>
hvars == <<got, skipped, owed>>
vars  == <<lvars, nvars, svars, hvars, stopped, fault>>

Events == 1..MaxNotify

Init ==
  /\ toStart = Tables /\ startPc = "new"
  /\ listener = [t \in Tables |-> "none"] /\ conn = [t \in Tables |-> "none"]
  /\ inbox = [t \in Tables |-> << >>]
  /\ sent = [t \in Tables |-> 0] /\ current = [t \in Tables |-> 0]
  /\ toVisit = [t \in Tables |-> {}]
  /\ members = {} /\ used = {} /\ done = {}
  /\ chan = [s \in Subs |-> << >>] /\ got = [s \in Subs |-> << >>]
  /\ skipped = [s \in Subs |-> {}] /\ owed = [s \in Subs |-> {}]
  /\ stopped = FALSE /\ fault = "none"

Dies(how) ==
  fault' = how /\ UNCHANGED <<lvars, nvars, svars, hvars, stopped>>

-----------------------------------------------------------------------------
(* Start: one connection, LISTEN and goroutine per table, no lock held *)

StartTable(t) ==
  /\ startPc \in {"new", "starting"} /\ t \in toStart
  /\ toStart' = toStart \ {t}
  /\ startPc' = IF toStart' = {} THEN "started" ELSE "starting"
  /\ listener' = [listener EXCEPT ![t] = "waiting"]
  /\ conn' = [conn EXCEPT ![t] = "open"]
  /\ UNCHANGED <<nvars, svars, hvars, stopped, fault>>

\* The first error ends Start; the listeners started before it keep running.
StartFails ==
  /\ startPc \in {"new", "starting"}
  /\ startPc' = "failed"
  /\ UNCHANGED <<toStart, listener, conn, nvars, svars, hvars, stopped, fault>>

-----------------------------------------------------------------------------
(* PostgreSQL (external): graphpost_notify_trigger and the connection *)

\* Only an open connection is told.
Notify(t) ==
  /\ sent[t] < MaxNotify
  /\ sent' = [sent EXCEPT ![t] = @ + 1]
  /\ inbox' = IF conn[t] = "open" THEN [inbox EXCEPT ![t] = Append(@, sent'[t])]
                                  ELSE inbox
  /\ UNCHANGED <<lvars, current, toVisit, svars, hvars, stopped, fault>>

\* What had not been read is lost.  WaitForNotification now fails at once and
\* handleNotifications goes round its loop: nothing opens a new connection.
ConnectionBreaks(t) ==
  /\ conn[t] = "open"
  /\ conn' = [conn EXCEPT ![t] = "broken"]
  /\ inbox' = [inbox EXCEPT ![t] = << >>]
  /\ UNCHANGED <<toStart, startPc, listener, sent, current, toVisit, svars, hvars,
                 stopped, fault>>

-----------------------------------------------------------------------------
(* handleNotifications and broadcastEvent *)

MembersOf(t) == {s \in members : TableOf[s] = t}

\* Faulty variant: the notification is broadcast again and again.
Receive_Again(t) ==
  /\ listener[t] = "waiting" /\ conn[t] = "open" /\ inbox[t] # << >> /\ ~stopped
  /\ current' = [current EXCEPT ![t] = Head(inbox[t])]
  /\ listener' = [listener EXCEPT ![t] = IF MembersOf(t) = {} THEN @ ELSE "iterating"]
  /\ toVisit' = [toVisit EXCEPT ![t] = MembersOf(t)]
  /\ owed' = [s \in Subs |-> owed[s] \cup {current'[t] : u \in MembersOf(t) \cap {s}}]
  /\ UNCHANGED <<toStart, startPc, conn, inbox, sent, svars, got, skipped, stopped,
                 fault>>

\* A notification is read, the map is fetched under the read lock, the lock is
\* given back and the iteration begins, if there is anyone.  A stop that came while
\* the goroutine waited is seen only at the top of the loop.
Receive(t) ==
  /\ listener[t] = "waiting" /\ conn[t] = "open" /\ inbox[t] # << >>
  /\ current' = [current EXCEPT ![t] = Head(inbox[t])]
  /\ inbox' = [inbox EXCEPT ![t] = Tail(@)]
  /\ listener' = [listener EXCEPT ![t] = IF MembersOf(t) = {} THEN @ ELSE "iterating"]
  /\ toVisit' = [toVisit EXCEPT ![t] = MembersOf(t)]
  /\ owed' = [s \in Subs |-> owed[s] \cup {current'[t] : u \in MembersOf(t) \cap {s}}]
  /\ UNCHANGED <<toStart, startPc, conn, sent, svars, got, skipped, stopped, fault>>

Room(s) == Len(chan[s]) < ChanCap

Skip(s, t) ==
  skipped' = [skipped EXCEPT ![s] = @ \cup {current[t]}] /\ UNCHANGED chan

Send(s, t) ==
  chan' = [chan EXCEPT ![s] = Append(@, current[t])] /\ UNCHANGED skipped

\* Faulty variant: a subscriber that cannot take the event ends the iteration.
Visit_StopsAtFull(t) ==
  /\ listener[t] = "iterating"
  /\ \E s \in toVisit[t] :
       \/ /\ Room(s) /\ Send(s, t)
          /\ toVisit' = [toVisit EXCEPT ![t] = @ \ {s}]
       \/ /\ s \in done \/ ~Room(s)
          /\ Skip(s, t)
          /\ toVisit' = [toVisit EXCEPT ![t] = {}]
  /\ UNCHANGED <<lvars, inbox, sent, current, members, used, done, got, owed,
                 stopped, fault>>

\* Faulty variant: the send waits for room.
Visit_Blocks(t) ==
  /\ listener[t] = "iterating"
  /\ \E s \in toVisit[t] :
       /\ \/ Room(s) /\ Send(s, t)
          \/ s \in done /\ Skip(s, t)
       /\ toVisit' = [toVisit EXCEPT ![t] = @ \ {s}]
  /\ UNCHANGED <<lvars, inbox, sent, current, members, used, done, got, owed,
                 stopped, fault>>

\* One turn of the loop: select takes any ready case, the default when none is.
Visit(t) ==
  /\ listener[t] = "iterating"
  /\ \E s \in toVisit[t] :
       /\ \/ Room(s) /\ Send(s, t)
          \/ (s \in done \/ ~Room(s)) /\ Skip(s, t)
       /\ toVisit' = [toVisit EXCEPT ![t] = @ \ {s}]
  /\ UNCHANGED <<lvars, inbox, sent, current, members, used, done, got, owed,
                 stopped, fault>>

BroadcastEnds(t) ==
  /\ listener[t] = "iterating" /\ toVisit[t] = {}
  /\ listener' = [listener EXCEPT ![t] = "waiting"]
  /\ UNCHANGED <<toStart, startPc, conn, nvars, svars, hvars, stopped, fault>>

\* The loop sees that stopChan is closed.
Return(t) ==
  /\ listener[t] = "waiting" /\ stopped
  /\ listener' = [listener EXCEPT ![t] = "returned"]
  /\ UNCHANGED <<toStart, startPc, conn, nvars, svars, hvars, stopped, fault>>

-----------------------------------------------------------------------------
(* Subscribe and Unsubscribe: the write lock is held, the iteration is not    *)
(* excluded.  The Go runtime may detect the race and kill the process; if it  *)
(* does not, an entry added meanwhile may or may not be produced.             *)

Racing(t) == listener[t] = "iterating"

SameKey(s) == {u \in MembersOf(TableOf[s]) : IdOf[u] = IdOf[s]}

\* A subscriber with the same ID is replaced; its Done is not closed.
Subscribe(s) ==
  /\ s \notin used
  /\ \/ /\ used' = used \cup {s}
        /\ members' = (members \ SameKey(s)) \cup {s}
        /\ LET t == TableOf[s]
               old == SameKey(s)
               rest == toVisit[t] \ old
           IN /\ toVisit' \in
                   {[toVisit EXCEPT ![t] = v] :
                      v \in IF ~Racing(t) \/ old \cap (members \ toVisit[t]) # {}
                              THEN {rest}
                            ELSE IF old # {} THEN {rest \cup {s}}
                            ELSE {rest, rest \cup {s}}}
              /\ owed' = [u \in Subs |-> IF u \in old THEN owed[u] \ {current[t]}
                                                        ELSE owed[u]]
        /\ UNCHANGED <<lvars, inbox, sent, current, chan, done, got, skipped,
                       stopped, fault>>
     \/ Racing(TableOf[s]) /\ Dies("map race")

\* Faulty variant: the entry stays in the map.
Unsubscribe_Keeps(s) ==
  /\ s \in members
  /\ \/ /\ s \notin done
        /\ done' = done \cup {s}
        /\ UNCHANGED <<lvars, nvars, members, used, chan, hvars, stopped, fault>>
     \/ s \in done /\ Dies("double close")

\* close(sub.Done), then delete; closing a closed channel panics.
Unsubscribe(s) ==
  /\ s \in members
  /\ \/ /\ s \notin done
        /\ done' = done \cup {s}
        /\ members' = members \ {s}
        /\ toVisit' = [toVisit EXCEPT ![TableOf[s]] = @ \ {s}]
        /\ owed' = [owed EXCEPT ![s] = @ \ {current[TableOf[s]]}]
        /\ UNCHANGED <<lvars, inbox, sent, current, used, chan, got, skipped, stopped,
                       fault>>
     \/ s \in done /\ Dies("double close")
     \/ Racing(TableOf[s]) /\ Dies("map race")

\* The client reads its channel.
Consume(s) ==
  /\ chan[s] # << >>
  /\ got' = [got EXCEPT ![s] = Append(@, Head(chan[s]))]
  /\ chan' = [chan EXCEPT ![s] = Tail(@)]
  /\ UNCHANGED <<lvars, nvars, members, used, done, skipped, owed, stopped, fault>>

\* Manager.Stop, called once Start has returned: stopChan and connection of every
\* listener, Done of every subscriber.  The maps keep their entries, so a second
\* call closes closed channels.
Stop ==
  /\ startPc \in {"started", "failed"}
  /\ \/ /\ ~stopped
        /\ stopped' = TRUE
        /\ conn' = [t \in Tables |-> IF conn[t] = "none" THEN "none" ELSE "closed"]
        /\ inbox' = [t \in Tables |-> << >>]
        /\ done' = done \cup members
        /\ UNCHANGED <<toStart, startPc, listener, sent, current, toVisit, members,
                       used, chan, hvars, fault>>
     \/ /\ stopped /\ (members \cap done # {} \/ \E t \in Tables : conn[t] # "none")
        /\ Dies("double close")

-----------------------------------------------------------------------------
Listen(t) == Receive(t) \/ Visit(t) \/ BroadcastEnds(t) \/ Return(t)

Next ==
  /\ fault = "none"
  /\ \/ \E t \in Tables : StartTable(t) \/ Notify(t) \/ ConnectionBreaks(t) \/ Listen(t)
     \/ StartFails \/ Stop
     \/ \E s \in Subs : Subscribe(s) \/ Unsubscribe(s) \/ Consume(s)

Spec == Init /\ [][Next]_vars

\* The listener goroutines are scheduled; clients need not read.
FairSpec == Spec /\ \A t \in Tables : WF_vars(fault = "none" /\ Listen(t))

-----------------------------------------------------------------------------
(* Properties *)

\* A client receives the notifications of its table in the order they were sent,
\* none twice, whatever it misses and whoever subscribes meanwhile.
InOrder ==
  \A s \in Subs : \A m, n \in 1..Len(got[s] \o chan[s]) :
    m < n => (got[s] \o chan[s])[m] < (got[s] \o chan[s])[n]

Received(s) == {(got[s] \o chan[s])[n] : n \in 1..Len(got[s] \o chan[s])}

\* A member of the map from the start to the end of a broadcast gets the event,
\* unless its channel was full or closed when its turn came: another slow or
\* closed subscriber costs it nothing.
NoSilentGap ==
  \A s \in Subs : listener[TableOf[s]] # "iterating" =>
    owed[s] \subseteq Received(s) \cup skipped[s]

\* Subscribing, replacing and unsubscribing close no channel twice; only calls
\* that follow Stop can.
ClosedOnceBeforeStop == fault = "double close" => stopped

\* An unread notification is broadcast in the end, however slow the clients are.
EveryNotificationHandled ==
  \A t \in Tables, n \in Events :
    (\E k \in 1..Len(inbox[t]) : inbox[t][k] = n)
      ~> \/ current[t] >= n /\ listener[t] # "iterating"
         \/ current[t] > n
         \/ conn[t] # "open" \/ fault # "none"
=============================================================================
