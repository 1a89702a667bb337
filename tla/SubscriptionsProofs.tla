------------------------- MODULE SubscriptionsProofs -------------------------
(* Theorems about Subscriptions, for any tables, any subscribers however they *)
(* share IDs and tables, any capacity of their channels and any number of     *)
(* notifications.                                                             *)
EXTENDS Subscriptions, SequenceTheorems, TLAPS

-----------------------------------------------------------------------------
(* The inductive invariant *)

Types ==
  /\ listener \in [Tables -> {"none", "waiting", "iterating", "returned"}]
  /\ inbox \in [Tables -> Seq(Nat)]
  /\ sent \in [Tables -> Nat] /\ current \in [Tables -> Nat]
  /\ toVisit \in [Tables -> SUBSET Subs]
  /\ members \subseteq used /\ done \subseteq used /\ used \subseteq Subs
  /\ chan \in [Subs -> Seq(Nat)] /\ got \in [Subs -> Seq(Nat)]
  /\ skipped \in [Subs -> SUBSET Nat] /\ owed \in [Subs -> SUBSET Nat]

\* Done is closed on the way out of the map.
ClosedAreGone == ~stopped => members \cap done = {}

Ordered(q) == \A m, n \in 1..Len(q) : m < n => q[m] < q[n]

\* A connection delivers what was raised after the one in hand, in the order of raising.
InboxAhead ==
  \A t \in Tables :
    /\ current[t] <= sent[t] /\ Ordered(inbox[t])
    /\ \A i \in 1..Len(inbox[t]) : current[t] < inbox[t][i] /\ inbox[t][i] <= sent[t]

\* An iteration has only members of its table before it, and is over when nothing is;
\* a listener that is to be started has none.
Iterating ==
  \A t \in Tables :
    /\ \A s \in toVisit[t] : s \in members /\ TableOf[s] = t
    /\ listener[t] # "iterating" => toVisit[t] = {}
    /\ t \in toStart => listener[t] = "none"

\* All that a client has been sent.
Stream(s) == got[s] \o chan[s]

\* Nothing was sent before Subscribe, and nothing after the notification in hand;
\* who is still to be visited has not had that one.
StreamBehind ==
  \A s \in Subs :
    /\ s \notin used => Stream(s) = << >>
    /\ Ordered(Stream(s))
    /\ \A i \in 1..Len(Stream(s)) :
         /\ Stream(s)[i] <= current[TableOf[s]]
         /\ s \in toVisit[TableOf[s]] => Stream(s)[i] < current[TableOf[s]]

\* What is owed has been sent or skipped, or is in hand with the subscriber ahead.
Accounted ==
  \A s \in Subs : \A n \in owed[s] :
    \/ n \in Received(s) \/ n \in skipped[s]
    \/ s \in toVisit[TableOf[s]] /\ n = current[TableOf[s]]

Inv ==
  /\ Types /\ ClosedAreGone /\ InboxAhead /\ Iterating /\ StreamBehind /\ Accounted
  /\ ClosedOnceBeforeStop

-----------------------------------------------------------------------------
(* Sequences *)

LEMMA OrderedAppend ==
  ASSUME NEW q \in Seq(Nat), Ordered(q), NEW x \in Nat, \A i \in 1..Len(q) : q[i] < x
  PROVE  Ordered(Append(q, x))
  BY AppendProperties DEF Ordered

LEMMA OrderedTail ==
  ASSUME NEW q \in Seq(Nat), Ordered(q), q # << >>
  PROVE  /\ Ordered(Tail(q)) /\ Head(q) = q[1] /\ 1 \in 1..Len(q)
         /\ Len(Tail(q)) = Len(q) - 1 /\ Tail(q) \in Seq(Nat)
         /\ \A i \in 1..Len(Tail(q)) : Head(q) < Tail(q)[i] /\ i + 1 \in 1..Len(q)
                                        /\ Tail(q)[i] = q[i + 1]
<1>1. Len(q) \in Nat \ {0}
  BY EmptySeq
<1>2. /\ Tail(q) \in Seq(Nat) /\ Len(Tail(q)) = Len(q) - 1
      /\ \A i \in 1..Len(Tail(q)) : Tail(q)[i] = q[i + 1]
  BY HeadTailProperties
<1>3. Head(q) = q[1]
  OBVIOUS
<1>. QED  BY <1>1, <1>2, <1>3 DEF Ordered

\* The client moves what was sent from the channel to what it has received.
LEMMA StreamConsume ==
  ASSUME NEW g \in Seq(Nat), NEW q \in Seq(Nat), q # << >>
  PROVE  /\ Append(g, Head(q)) \in Seq(Nat) /\ Tail(q) \in Seq(Nat)
         /\ Append(g, Head(q)) \o Tail(q) = g \o q
<1>1. Head(q) \in Nat /\ Tail(q) \in Seq(Nat) /\ << Head(q) >> \in Seq(Nat)
  BY HeadTailProperties
<1>2. Append(g, Head(q)) = g \o << Head(q) >> /\ Append(g, Head(q)) \in Seq(Nat)
  BY <1>1, AppendIsConcat, AppendProperties
<1>3. << Head(q) >> \o Tail(q) = q
  <2>1. Len(q) \in Nat \ {0} /\ Len(<< Head(q) >>) = 1 /\ << Head(q) >>[1] = q[1]
    BY EmptySeq
  <2>2. Len(Tail(q)) = Len(q) - 1 /\ \A i \in 1..Len(Tail(q)) : Tail(q)[i] = q[i + 1]
    BY HeadTailProperties
  <2>. DEFINE r == << Head(q) >> \o Tail(q)
  <2>3. /\ r \in Seq(Nat) /\ Len(r) = 1 + Len(Tail(q))
        /\ \A i \in 1..1 + Len(Tail(q)) : r[i] = IF i <= 1 THEN << Head(q) >>[i] ELSE Tail(q)[i - 1]
    BY <1>1, <2>1, ConcatProperties
  <2>. HIDE DEF r
  <2>4. Len(r) = Len(q) /\ \A i \in 1..Len(r) : r[i] = q[i]
    BY <2>1, <2>2, <2>3
  <2>5. r = q
    BY <2>3, <2>4, SeqEqual
  <2>. QED  BY <2>5 DEF r
<1>4. (g \o << Head(q) >>) \o Tail(q) = g \o (<< Head(q) >> \o Tail(q))
  BY <1>1, ConcatAssociative
<1>. QED  BY <1>1, <1>2, <1>3, <1>4, Zenon

LEMMA StreamAppend ==
  ASSUME NEW g \in Seq(Nat), NEW q \in Seq(Nat), NEW x \in Nat
  PROVE  /\ Append(q, x) \in Seq(Nat) /\ g \o q \in Seq(Nat)
         /\ g \o Append(q, x) = Append(g \o q, x)
<1>1. Append(q, x) = q \o << x >> /\ Append(q, x) \in Seq(Nat) /\ << x >> \in Seq(Nat)
  BY AppendIsConcat, AppendProperties
<1>2. g \o q \in Seq(Nat)
  BY ConcatProperties
<1>3. Append(g \o q, x) = (g \o q) \o << x >>
  BY <1>2, AppendIsConcat
<1>. QED  BY <1>1, <1>2, <1>3, ConcatAssociative

LEMMA StreamType ==
  ASSUME Types, NEW s \in Subs
  PROVE  /\ Stream(s) \in Seq(Nat) /\ Len(Stream(s)) \in Nat
         /\ \A i \in 1..Len(Stream(s)) : Stream(s)[i] \in Nat
<1>1. Stream(s) \in Seq(Nat)
  BY ConcatProperties DEF Types, Stream
<1>. QED  BY <1>1, LenProperties, ElementOfSeq

LEMMA InvInit == Init => Inv
<1>. SUFFICES ASSUME Init PROVE Inv
  OBVIOUS
<1>1. Types
  BY DEF Init, Types
<1>2. StreamBehind
  <2>1. \A s \in Subs : Stream(s) = << >>
    BY ConcatEmptySeq, EmptySeq DEF Init, Stream
  <2>. QED  BY <2>1, EmptySeq DEF StreamBehind, Ordered
<1>3. InboxAhead
  BY EmptySeq DEF Init, InboxAhead, Ordered
<1>. QED  BY <1>1, <1>2, <1>3
          DEF Init, Inv, ClosedAreGone, Iterating, Accounted, ClosedOnceBeforeStop

-----------------------------------------------------------------------------
(* Steps.  Where nothing is sent, read or broadcast, only who is still to be *)
(* visited can change.                                                       *)

LEMMA StreamKept ==
  ASSUME SubsAssumption, Types, StreamBehind, NEW s \in Subs, UNCHANGED <<got, chan>>,
         current'[TableOf[s]] = current[TableOf[s]],
         s \in used => s \in used', s \in toVisit'[TableOf[s]] => s \in toVisit[TableOf[s]] \/ s \notin used
  PROVE  /\ Stream(s)' = Stream(s)
         /\ s \notin used' => Stream(s)' = << >>
         /\ Ordered(Stream(s))'
         /\ \A i \in 1..Len(Stream(s)') :
              /\ Stream(s)'[i] <= current'[TableOf[s]]
              /\ s \in toVisit'[TableOf[s]] => Stream(s)'[i] < current'[TableOf[s]]
<1>1. Stream(s)' = Stream(s)
  BY DEF Stream
<1>2. /\ s \notin used => Stream(s) = << >>
      /\ Ordered(Stream(s))
      /\ \A i \in 1..Len(Stream(s)) :
           /\ Stream(s)[i] <= current[TableOf[s]]
           /\ s \in toVisit[TableOf[s]] => Stream(s)[i] < current[TableOf[s]]
  BY DEF StreamBehind
<1>3. s \notin used => \A i \in 1..Len(Stream(s)) : FALSE
  BY <1>2, EmptySeq
<1>. QED  BY <1>1, <1>2, <1>3 DEF Ordered

\* Notifications, streams and debts stay while listeners start, stop and return,
\* connections close and clients do nothing.
LEMMA Quiet ==
  ASSUME SubsAssumption, Inv, UNCHANGED <<got, chan, current, skipped, owed, toVisit, used, members>>
  PROVE  StreamBehind' /\ Accounted'
<1>1. StreamBehind'
  BY StreamKept DEF StreamBehind, Inv
<1>2. Accounted'
  <2>1. \A s \in Subs : Received(s)' = Received(s)
    BY DEF Received
  <2>. QED  BY <2>1 DEF Inv, Accounted
<1>. QED  BY <1>1, <1>2

\* The process dies: nothing else happens.
LEMMA InvDies ==
  ASSUME SubsAssumption, Inv, NEW how, Dies(how), how = "double close" => stopped
  PROVE  Inv'
<1>1. StreamBehind' /\ Accounted'
  BY Quiet DEF Dies, hvars, svars, nvars
<1>2. Types' /\ ClosedAreGone' /\ InboxAhead' /\ Iterating' /\ ClosedOnceBeforeStop'
  BY DEF Inv, Types, ClosedAreGone, InboxAhead, Iterating, ClosedOnceBeforeStop, Dies, lvars, nvars,
         svars, hvars
<1>. QED  BY <1>1, <1>2 DEF Inv

\* Listeners that start, end a broadcast or return.
LEMMA InvListeners ==
  ASSUME SubsAssumption, Inv,
         StartFails \/ \E t \in Tables : StartTable(t) \/ BroadcastEnds(t) \/ Return(t)
  PROVE  Inv'
<1>1. UNCHANGED <<nvars, svars, hvars, stopped, fault>>
  BY DEF StartFails, StartTable, BroadcastEnds, Return
<1>2. StreamBehind' /\ Accounted'
  BY <1>1, Quiet DEF hvars, svars, nvars
<1>3. ClosedAreGone' /\ InboxAhead' /\ ClosedOnceBeforeStop'
  BY <1>1 DEF Inv, ClosedAreGone, InboxAhead, ClosedOnceBeforeStop, nvars, svars
<1>4. Types' /\ Iterating'
  <2>1. CASE StartFails
    BY <1>1, <2>1 DEF StartFails, Inv, Types, Iterating, nvars, svars, hvars
  <2>2. ASSUME NEW t \in Tables, NEW to \in {"waiting", "returned"},
               listener' = [listener EXCEPT ![t] = to], toVisit[t] = {},
               toStart' \subseteq toStart, t \notin toStart'
        PROVE  Types' /\ Iterating'
    BY <1>1, <2>2 DEF Inv, Types, Iterating, nvars, svars, hvars
  <2>4. ASSUME NEW t \in Tables, BroadcastEnds(t) PROVE Types' /\ Iterating'
    BY <2>2, <2>4 DEF BroadcastEnds, Inv, Iterating
  <2>5. ASSUME NEW t \in Tables, Return(t) PROVE Types' /\ Iterating'
    BY <2>2, <2>5 DEF Return, Inv, Iterating
  <2>6. ASSUME NEW t \in Tables, StartTable(t) PROVE Types' /\ Iterating'
    BY <2>2, <2>6 DEF StartTable, Inv, Iterating
  <2>. QED  BY <2>1, <2>4, <2>5, <2>6
<1>. QED  BY <1>2, <1>3, <1>4 DEF Inv

\* PostgreSQL numbers a notification after all before it.
LEMMA InvNotify ==
  ASSUME SubsAssumption, Inv, NEW t \in Tables, Notify(t)
  PROVE  Inv'
<1>1. /\ sent' = [sent EXCEPT ![t] = sent[t] + 1]
      /\ inbox' = inbox \/ inbox' = [inbox EXCEPT ![t] = Append(inbox[t], sent[t] + 1)]
      /\ UNCHANGED <<lvars, current, toVisit, svars, hvars, stopped, fault>>
  BY DEF Notify, Inv, Types
<1>2. StreamBehind' /\ Accounted'
  BY <1>1, Quiet DEF hvars, svars
<1>3. ClosedAreGone' /\ Iterating' /\ ClosedOnceBeforeStop'
  BY <1>1 DEF Inv, ClosedAreGone, Iterating, ClosedOnceBeforeStop, svars, lvars
<1>4. inbox[t] \in Seq(Nat) /\ sent[t] \in Nat /\ sent[t] + 1 \in Nat /\ current[t] \in Nat
  BY DEF Inv, Types
<1>. DEFINE q == Append(inbox[t], sent[t] + 1)
<1>10. inbox' = inbox \/ inbox' = [inbox EXCEPT ![t] = q]
  BY <1>1
<1>5. /\ q \in Seq(Nat) /\ Len(q) = Len(inbox[t]) + 1 /\ q[Len(inbox[t]) + 1] = sent[t] + 1
      /\ \A i \in 1..Len(inbox[t]) : q[i] = inbox[t][i]
  BY <1>4, AppendProperties
<1>6. /\ Len(inbox[t]) \in Nat /\ current[t] <= sent[t] /\ Ordered(inbox[t])
      /\ \A i \in 1..Len(inbox[t]) : current[t] < inbox[t][i] /\ inbox[t][i] <= sent[t]
                                    /\ inbox[t][i] \in Nat
  BY <1>4, ElementOfSeq, LenProperties DEF Inv, InboxAhead
<1>7. Ordered(q)
  BY <1>4, <1>6, OrderedAppend
<1>. HIDE DEF q
<1>8. Types'
  <2>1. inbox' \in [Tables -> Seq(Nat)] /\ sent' \in [Tables -> Nat]
    <3>1. inbox \in [Tables -> Seq(Nat)] /\ sent \in [Tables -> Nat]
      BY DEF Inv, Types
    <3>2. inbox' \in [Tables -> Seq(Nat)]
      BY <1>10, <1>5, <3>1
    <3>3. sent' \in [Tables -> Nat]
      BY <1>1, <1>4, <3>1
    <3>. QED  BY <3>2, <3>3
  <2>. QED  BY <1>1, <2>1 DEF Inv, Types, lvars, svars, hvars
<1>9. InboxAhead'
  <2>. SUFFICES ASSUME NEW u \in Tables
                PROVE  /\ current'[u] <= sent'[u] /\ Ordered(inbox'[u])
                       /\ \A i \in 1..Len(inbox'[u]) : current'[u] < inbox'[u][i] /\ inbox'[u][i] <= sent'[u]
    BY DEF InboxAhead, Ordered
  <2>1. CASE u # t
    BY <1>1, <2>1 DEF Inv, Types, InboxAhead, Ordered
  <2>2. CASE u = t
    <3>1. sent'[u] = sent[t] + 1 /\ current'[u] = current[t] /\ inbox'[u] \in {inbox[t], q}
      BY <1>1, <1>10, <2>2 DEF Inv, Types
    <3>2. CASE inbox'[u] = inbox[t]
      BY <1>4, <1>6, <3>1, <3>2
    <3>3. CASE inbox'[u] = q
      <4>1. \A i \in 1..Len(q) : q[i] = sent[t] + 1 \/ (i \in 1..Len(inbox[t]) /\ q[i] = inbox[t][i])
        BY <1>5, <1>6
      <4>2. \A i \in 1..Len(q) : current[t] < q[i] /\ q[i] <= sent[t] + 1
        BY <1>4, <1>6, <4>1
      <4>. QED  BY <1>4, <1>6, <1>7, <3>1, <3>3, <4>2
    <3>. QED  BY <3>1, <3>2, <3>3
  <2>. QED  BY <2>1, <2>2
<1>. QED  BY <1>2, <1>3, <1>8, <1>9 DEF Inv

\* What a closed connection had not delivered is gone.
LEMMA InboxEmptied ==
  ASSUME InboxAhead, UNCHANGED <<current, sent>>,
         \A t \in Tables : inbox'[t] \in {inbox[t], << >>}
  PROVE  InboxAhead'
<1>. SUFFICES ASSUME NEW t \in Tables
              PROVE  /\ current'[t] <= sent'[t] /\ Ordered(inbox'[t])
                     /\ \A i \in 1..Len(inbox'[t]) : current'[t] < inbox'[t][i] /\ inbox'[t][i] <= sent'[t]
  BY DEF InboxAhead, Ordered
<1>1. CASE inbox'[t] = inbox[t]
  BY <1>1 DEF InboxAhead
<1>2. CASE inbox'[t] = << >>
  BY <1>2, EmptySeq DEF InboxAhead, Ordered
<1>. QED  BY <1>1, <1>2

LEMMA InvBreaks ==
  ASSUME SubsAssumption, Inv, NEW t \in Tables, ConnectionBreaks(t)
  PROVE  Inv'
<1>1. /\ inbox' = [inbox EXCEPT ![t] = << >>]
      /\ UNCHANGED <<toStart, listener, sent, current, toVisit, svars, hvars, stopped, fault>>
  BY DEF ConnectionBreaks
<1>2. StreamBehind' /\ Accounted'
  BY <1>1, Quiet DEF hvars, svars
<1>3. Types' /\ ClosedAreGone' /\ Iterating' /\ ClosedOnceBeforeStop'
  BY <1>1, EmptySeq DEF Inv, Types, ClosedAreGone, Iterating, ClosedOnceBeforeStop, svars, hvars
<1>4. \A u \in Tables : inbox'[u] \in {inbox[u], << >>}
  BY <1>1 DEF Inv, Types
<1>. QED  BY <1>1, <1>2, <1>3, <1>4, InboxEmptied DEF Inv

\* After Stop members are closed: that is why only its second call, and Unsubscribe
\* after it, can close a channel twice.
LEMMA InvStop ==
  ASSUME SubsAssumption, Inv, Stop
  PROVE  Inv'
<1>1. CASE Dies("double close") /\ stopped
  BY <1>1, InvDies
<1>2. CASE /\ ~stopped /\ stopped' = TRUE
           /\ inbox' = [t \in Tables |-> << >>] /\ done' = done \cup members
           /\ UNCHANGED <<toStart, listener, sent, current, toVisit, members, used, chan, hvars, fault>>
  <2>1. StreamBehind' /\ Accounted'
    BY <1>2, Quiet DEF hvars
  <2>2. Types' /\ ClosedAreGone' /\ Iterating' /\ ClosedOnceBeforeStop'
    BY <1>2, EmptySeq DEF Inv, Types, ClosedAreGone, Iterating, ClosedOnceBeforeStop, hvars
  <2>. QED  BY <1>2, <2>1, <2>2, InboxEmptied DEF Inv
<1>. QED  BY <1>1, <1>2 DEF Stop

LEMMA InvConsume ==
  ASSUME SubsAssumption, Inv, NEW s \in Subs, Consume(s)
  PROVE  Inv'
<1>1. /\ chan[s] # << >>
      /\ got' = [got EXCEPT ![s] = Append(got[s], Head(chan[s]))]
      /\ chan' = [chan EXCEPT ![s] = Tail(chan[s])]
      /\ UNCHANGED <<lvars, nvars, members, used, done, skipped, owed, stopped, fault>>
  BY DEF Consume
<1>2. /\ Append(got[s], Head(chan[s])) \in Seq(Nat) /\ Tail(chan[s]) \in Seq(Nat)
      /\ Append(got[s], Head(chan[s])) \o Tail(chan[s]) = got[s] \o chan[s]
  BY <1>1, StreamConsume DEF Inv, Types
<1>3. Types' /\ ClosedAreGone' /\ InboxAhead' /\ Iterating' /\ ClosedOnceBeforeStop'
  BY <1>1, <1>2 DEF Inv, Types, ClosedAreGone, InboxAhead, Iterating, ClosedOnceBeforeStop, lvars, nvars
<1>4. ASSUME NEW u \in Subs PROVE got'[u] \o chan'[u] = got[u] \o chan[u]
  BY <1>1, <1>2 DEF Inv, Types
<1>5. StreamBehind'
  BY <1>1, <1>4 DEF Inv, StreamBehind, Stream, Ordered, nvars
<1>6. Accounted'
  <2>1. \A u \in Subs : Received(u)' = Received(u)
    BY <1>4 DEF Received
  <2>. QED  BY <1>1, <2>1 DEF Inv, Accounted, nvars
<1>. QED  BY <1>3, <1>5, <1>6 DEF Inv

-----------------------------------------------------------------------------
(* A broadcast *)

\* What is read is newer than all that was sent, and it is owed to all the members.
LEMMA InvReceive ==
  ASSUME SubsAssumption, Inv, NEW t \in Tables, Receive(t)
  PROVE  Inv'
<1>. DEFINE x == Head(inbox[t])
<1>1. /\ listener[t] = "waiting" /\ inbox[t] # << >>
      /\ current' = [current EXCEPT ![t] = x] /\ inbox' = [inbox EXCEPT ![t] = Tail(inbox[t])]
      /\ listener' = [listener EXCEPT ![t] = IF MembersOf(t) = {} THEN listener[t] ELSE "iterating"]
      /\ toVisit' = [toVisit EXCEPT ![t] = MembersOf(t)]
      /\ owed' = [s \in Subs |-> owed[s] \cup {current'[t] : u \in MembersOf(t) \cap {s}}]
      /\ UNCHANGED <<toStart, sent, svars, got, skipped, stopped, fault>>
  BY DEF Receive
<1>2. inbox[t] \in Seq(Nat) /\ current[t] \in Nat /\ sent[t] \in Nat /\ toVisit[t] = {}
      /\ members \subseteq Subs
  BY <1>1 DEF Inv, Types, Iterating
<1>3. /\ Tail(inbox[t]) \in Seq(Nat) /\ x \in Nat /\ current[t] < x /\ x <= sent[t]
      /\ Ordered(Tail(inbox[t]))
      /\ \A i \in 1..Len(Tail(inbox[t])) : x < Tail(inbox[t])[i] /\ Tail(inbox[t])[i] <= sent[t]
  <2>1. /\ Ordered(inbox[t])
        /\ \A i \in 1..Len(inbox[t]) : current[t] < inbox[t][i] /\ inbox[t][i] <= sent[t]
    BY DEF Inv, InboxAhead
  <2>2. x \in Nat
    BY <1>1, <1>2, HeadTailProperties
  <2>. QED  BY <1>1, <1>2, <2>1, <2>2, OrderedTail
<1>. HIDE DEF x
<1>4. current'[t] = x /\ toVisit'[t] = MembersOf(t) /\ inbox'[t] = Tail(inbox[t])
      /\ \A u \in Tables : u # t => /\ current'[u] = current[u] /\ toVisit'[u] = toVisit[u]
                                    /\ inbox'[u] = inbox[u]
  BY <1>1 DEF Inv, Types
<1>5. ASSUME NEW s \in Subs
      PROVE  /\ owed'[s] \subseteq Nat
             /\ \A n \in owed'[s] : n \in owed[s] \/ (n = x /\ s \in MembersOf(t))
  BY <1>1, <1>3, <1>4 DEF Inv, Types
<1>6. Types'
  <2>1. MembersOf(t) \in SUBSET Subs
    BY <1>2 DEF MembersOf
  <2>2. /\ listener' \in [Tables -> {"none", "waiting", "iterating", "returned"}]
        /\ inbox' \in [Tables -> Seq(Nat)] /\ current' \in [Tables -> Nat]
        /\ toVisit' \in [Tables -> SUBSET Subs]
    BY <1>1, <1>3, <2>1 DEF Inv, Types
  <2>3. owed' \in [Subs -> SUBSET Nat]
    BY <1>1, <1>5
  <2>. QED  BY <1>1, <2>2, <2>3 DEF Inv, Types, svars
<1>7. ClosedAreGone' /\ ClosedOnceBeforeStop'
  BY <1>1 DEF Inv, ClosedAreGone, ClosedOnceBeforeStop, svars
<1>8. InboxAhead'
  <2>. SUFFICES ASSUME NEW u \in Tables
                PROVE  /\ current'[u] <= sent[u] /\ Ordered(inbox'[u])
                       /\ \A i \in 1..Len(inbox'[u]) : current'[u] < inbox'[u][i] /\ inbox'[u][i] <= sent[u]
    BY <1>1 DEF InboxAhead, Ordered
  <2>1. CASE u = t
    BY <1>2, <1>3, <1>4, <2>1
  <2>2. CASE u # t
    BY <1>4, <2>2 DEF Inv, InboxAhead
  <2>. QED  BY <2>1, <2>2
<1>9. Iterating'
  <2>. SUFFICES ASSUME NEW u \in Tables
                PROVE  /\ \A s \in toVisit'[u] : s \in members /\ TableOf[s] = u
                       /\ listener'[u] # "iterating" => toVisit'[u] = {}
                       /\ u \in toStart => listener'[u] = "none"
    BY <1>1 DEF Iterating, svars
  <2>1. CASE u = t
    BY <1>1, <1>4, <2>1 DEF Inv, Types, Iterating, MembersOf
  <2>2. CASE u # t
    BY <1>1, <1>4, <2>2 DEF Inv, Types, Iterating
  <2>. QED  BY <2>1, <2>2
<1>10. StreamBehind'
  <2>. SUFFICES ASSUME NEW s \in Subs
                PROVE  /\ s \notin used' => Stream(s)' = << >>
                       /\ Ordered(Stream(s))'
                       /\ \A i \in 1..Len(Stream(s)') :
                            /\ Stream(s)'[i] <= current'[TableOf[s]]
                            /\ s \in toVisit'[TableOf[s]] => Stream(s)'[i] < current'[TableOf[s]]
    BY DEF StreamBehind
  <2>1. CASE TableOf[s] # t
    BY <1>1, <1>4, <2>1, StreamKept DEF SubsAssumption, Inv, svars
  <2>2. CASE TableOf[s] = t
    <3>1. Stream(s)' = Stream(s) /\ used' = used
      BY <1>1 DEF Stream, svars
    <3>2. /\ s \notin used => Stream(s) = << >>
          /\ Ordered(Stream(s))
          /\ \A i \in 1..Len(Stream(s)) : Stream(s)[i] \in Nat /\ Stream(s)[i] <= current[t]
      BY <2>2, StreamType DEF Inv, StreamBehind
    <3>. QED  BY <1>2, <1>3, <1>4, <2>2, <3>1, <3>2 DEF Ordered
  <2>. QED  BY <2>1, <2>2
<1>11. Accounted'
  <2>. SUFFICES ASSUME NEW s \in Subs, NEW n \in owed'[s]
                PROVE  \/ n \in Received(s)' \/ n \in skipped'[s]
                       \/ s \in toVisit'[TableOf[s]] /\ n = current'[TableOf[s]]
    BY DEF Accounted
  <2>1. Received(s)' = Received(s) /\ skipped' = skipped
    BY <1>1 DEF Received, svars
  <2>2. CASE n \in owed[s]
    <3>1. \/ n \in Received(s) \/ n \in skipped[s]
          \/ s \in toVisit[TableOf[s]] /\ n = current[TableOf[s]]
      BY <2>2 DEF Inv, Accounted
    <3>. QED  BY <1>2, <1>4, <2>1, <3>1 DEF SubsAssumption
  <2>3. CASE n = x /\ s \in MembersOf(t)
    BY <1>4, <2>3 DEF MembersOf
  <2>. QED  BY <1>5, <2>2, <2>3
<1>. QED  BY <1>6, <1>7, <1>8, <1>9, <1>10, <1>11 DEF Inv

\* A turn sends the notification in hand to one subscriber that has not had it, or
\* skips it.
LEMMA InvVisit ==
  ASSUME SubsAssumption, Inv, NEW t \in Tables, Visit(t)
  PROVE  Inv'
<1>1. PICK s \in toVisit[t] :
        /\ \/ chan' = [chan EXCEPT ![s] = Append(chan[s], current[t])] /\ UNCHANGED skipped
           \/ skipped' = [skipped EXCEPT ![s] = skipped[s] \cup {current[t]}] /\ UNCHANGED chan
        /\ toVisit' = [toVisit EXCEPT ![t] = toVisit[t] \ {s}]
        /\ UNCHANGED <<lvars, inbox, sent, current, members, used, done, got, owed, stopped, fault>>
  BY DEF Visit, Send, Skip
<1>2. s \in Subs /\ s \in used /\ TableOf[s] = t /\ current[t] \in Nat
  BY DEF Inv, Types, Iterating
<1>3. \A u \in Subs : u \in toVisit'[TableOf[u]] <=> u \in toVisit[TableOf[u]] /\ u # s
  BY <1>1, <1>2 DEF Inv, Types, SubsAssumption
<1>4. /\ chan[s] \in Seq(Nat) /\ got[s] \in Seq(Nat) /\ Append(chan[s], current[t]) \in Seq(Nat)
      /\ got[s] \o Append(chan[s], current[t]) = Append(Stream(s), current[t])
  BY <1>2, StreamAppend DEF Inv, Types, Stream
<1>5. Types'
  <2>1. chan' \in [Subs -> Seq(Nat)] /\ skipped' \in [Subs -> SUBSET Nat]
    <3>1. chan \in [Subs -> Seq(Nat)] /\ skipped \in [Subs -> SUBSET Nat]
      BY DEF Inv, Types
    <3>2. CASE chan' = [chan EXCEPT ![s] = Append(chan[s], current[t])] /\ UNCHANGED skipped
      BY <1>4, <3>1, <3>2
    <3>3. CASE skipped' = [skipped EXCEPT ![s] = skipped[s] \cup {current[t]}] /\ UNCHANGED chan
      BY <1>2, <3>1, <3>3
    <3>. QED  BY <1>1, <3>2, <3>3
  <2>2. toVisit' \in [Tables -> SUBSET Subs]
    BY <1>1 DEF Inv, Types
  <2>. QED  BY <1>1, <2>1, <2>2 DEF Inv, Types, lvars
<1>6. ClosedAreGone' /\ InboxAhead' /\ ClosedOnceBeforeStop'
  BY <1>1 DEF Inv, ClosedAreGone, InboxAhead, ClosedOnceBeforeStop
<1>7. Iterating'
  BY <1>1 DEF Inv, Types, Iterating, lvars
<1>8. ASSUME NEW u \in Subs
      PROVE  \/ Stream(u)' = Stream(u)
             \/ u = s /\ Stream(u)' = Append(Stream(u), current[t])
  <2>1. CASE u = s /\ chan' = [chan EXCEPT ![s] = Append(chan[s], current[t])]
    BY <1>1, <1>4, <2>1 DEF Inv, Types, Stream
  <2>2. CASE u # s \/ UNCHANGED chan
    BY <1>1, <2>2 DEF Inv, Types, Stream
  <2>. QED  BY <1>1, <2>1, <2>2
<1>9. ASSUME NEW u \in Subs
      PROVE  Stream(u) \in Seq(Nat) /\ Len(Stream(u)) \in Nat
             /\ \A i \in 1..Len(Stream(u)) : Stream(u)[i] \in Nat
  BY StreamType DEF Inv
<1>10. /\ Len(Append(Stream(s), current[t])) = Len(Stream(s)) + 1
       /\ Append(Stream(s), current[t])[Len(Stream(s)) + 1] = current[t]
       /\ \A i \in 1..Len(Stream(s)) : Append(Stream(s), current[t])[i] = Stream(s)[i]
  BY <1>2, <1>9, AppendProperties
<1>11. StreamBehind'
  <2>. SUFFICES ASSUME NEW u \in Subs
                PROVE  /\ u \notin used' => Stream(u)' = << >>
                       /\ Ordered(Stream(u))'
                       /\ \A i \in 1..Len(Stream(u)') :
                            /\ Stream(u)'[i] <= current'[TableOf[u]]
                            /\ u \in toVisit'[TableOf[u]] => Stream(u)'[i] < current'[TableOf[u]]
    BY DEF StreamBehind
  <2>1. CASE Stream(u)' = Stream(u)
    BY <1>1, <1>3, <2>1 DEF Inv, StreamBehind, Ordered
  <2>2. CASE u = s /\ Stream(u)' = Append(Stream(u), current[t])
    <3>1. \A i \in 1..Len(Stream(s)) : Stream(s)[i] < current[t]
      BY <1>1, <1>2 DEF Inv, StreamBehind
    <3>2. Ordered(Append(Stream(s), current[t]))
      BY <1>2, <1>9, <3>1, OrderedAppend DEF Inv, StreamBehind
    <3>3. \A i \in 1..Len(Stream(u)') : Stream(u)'[i] <= current[t]
      BY <1>2, <1>9, <1>10, <2>2, <3>1
    <3>. QED  BY <1>1, <1>2, <1>3, <2>2, <3>2, <3>3 DEF Ordered
  <2>. QED  BY <1>8, <2>1, <2>2
<1>12. Accounted'
  <2>. SUFFICES ASSUME NEW u \in Subs, NEW n \in owed[u]
                PROVE  \/ n \in Received(u)' \/ n \in skipped'[u]
                       \/ u \in toVisit'[TableOf[u]] /\ n = current'[TableOf[u]]
    BY <1>1 DEF Accounted
  <2>1. Received(u) = {Stream(u)[i] : i \in 1..Len(Stream(u))}
        /\ Received(u)' = {Stream(u)'[i] : i \in 1..Len(Stream(u)')}
    BY DEF Received, Stream
  <2>2. Received(u) \subseteq Received(u)' /\ skipped[u] \subseteq skipped'[u]
    <3>1. Received(u) \subseteq Received(u)'
      BY <1>8, <1>9, <1>10, <2>1
    <3>. QED  BY <1>1, <3>1 DEF Inv, Types
  <2>3. \/ n \in Received(u) \/ n \in skipped[u]
        \/ u \in toVisit[TableOf[u]] /\ n = current[TableOf[u]]
    BY DEF Inv, Accounted
  <2>4. CASE u = s /\ n = current[t]
    <3>1. CASE chan' = [chan EXCEPT ![s] = Append(chan[s], current[t])]
      <4>1. Stream(s)' = Append(Stream(s), current[t])
        BY <1>1, <1>2, <1>4, <3>1 DEF Inv, Types, Stream
      <4>2. Len(Stream(s)) + 1 \in 1..Len(Stream(s)')
        BY <1>2, <1>9, <1>10, <4>1
      <4>3. n \in {Stream(s)'[i] : i \in 1..Len(Stream(s)')}
        BY <1>10, <2>4, <4>1, <4>2
      <4>. QED  BY <2>1, <2>4, <4>3
    <3>2. CASE skipped' = [skipped EXCEPT ![s] = skipped[s] \cup {current[t]}]
      BY <1>2, <2>4, <3>2 DEF Inv, Types
    <3>. QED  BY <1>1, <3>1, <3>2
  <2>. QED  BY <1>1, <1>2, <1>3, <2>2, <2>3, <2>4
<1>. QED  BY <1>5, <1>6, <1>7, <1>11, <1>12 DEF Inv

-----------------------------------------------------------------------------
(* Subscribers that come and go, during a broadcast or not *)

\* An entry that is added has been sent nothing, and is owed nothing.
LEMMA InvSubscribe ==
  ASSUME SubsAssumption, Inv, NEW s \in Subs, Subscribe(s)
  PROVE  Inv'
<1>. DEFINE t == TableOf[s]
            old == SameKey(s)
<1>1. CASE Dies("map race")
  BY <1>1, InvDies
<1>2. CASE /\ s \notin used /\ used' = used \cup {s}
           /\ members' = (members \ old) \cup {s}
           /\ \E v : /\ toVisit' = [toVisit EXCEPT ![t] = v]
                     /\ v = toVisit[t] \ old \/ (Racing(t) /\ v = (toVisit[t] \ old) \cup {s})
           /\ owed' = [u \in Subs |-> IF u \in old THEN owed[u] \ {current[t]} ELSE owed[u]]
           /\ UNCHANGED <<lvars, inbox, sent, current, chan, done, got, skipped, stopped, fault>>
  <2>1. t \in Tables /\ members \subseteq Subs /\ s \notin members
        /\ old = {u \in members : TableOf[u] = t /\ IdOf[u] = IdOf[s]}
    BY <1>2 DEF SubsAssumption, Inv, Types, SameKey, MembersOf
  <2>. HIDE DEF t, old
  <2>2. PICK v : /\ toVisit' = [toVisit EXCEPT ![t] = v]
                 /\ v = toVisit[t] \ old \/ (Racing(t) /\ v = (toVisit[t] \ old) \cup {s})
    BY <1>2
  <2>3. toVisit'[t] = v /\ toVisit[t] \subseteq Subs /\ \A x \in Tables : x # t => toVisit'[x] = toVisit[x]
    BY <2>1, <2>2 DEF Inv, Types
  <2>4. Types'
    <3>1. toVisit' \in [Tables -> SUBSET Subs]
      BY <2>1, <2>2 DEF Inv, Types
    <3>2. owed' \in [Subs -> SUBSET Nat]
      BY <1>2 DEF Inv, Types
    <3>. QED  BY <1>2, <2>1, <3>1, <3>2 DEF Inv, Types, lvars
  <2>5. ClosedAreGone' /\ InboxAhead' /\ ClosedOnceBeforeStop'
    <3>1. ClosedAreGone'
      BY <1>2 DEF Inv, Types, ClosedAreGone
    <3>. QED  BY <1>2, <3>1 DEF Inv, InboxAhead, ClosedOnceBeforeStop
  <2>6. Iterating'
    <3>. SUFFICES ASSUME NEW x \in Tables
                  PROVE  /\ \A u \in toVisit'[x] : u \in members' /\ TableOf[u] = x
                         /\ listener[x] # "iterating" => toVisit'[x] = {}
                         /\ x \in toStart => listener[x] = "none"
      BY <1>2 DEF Iterating, lvars
    <3>1. /\ \A u \in toVisit[x] : u \in members /\ TableOf[u] = x
          /\ listener[x] # "iterating" => toVisit[x] = {}
          /\ x \in toStart => listener[x] = "none"
      BY DEF Inv, Iterating
    <3>2. CASE x = t
      BY <1>2, <2>1, <2>2, <2>3, <3>1, <3>2 DEF Racing, t
    <3>3. CASE x # t
      BY <1>2, <2>1, <2>3, <3>1, <3>3
    <3>. QED  BY <3>2, <3>3
  <2>7. StreamBehind'
    <3>. SUFFICES ASSUME NEW u \in Subs
                  PROVE  /\ u \notin used' => Stream(u)' = << >>
                         /\ Ordered(Stream(u))'
                         /\ \A i \in 1..Len(Stream(u)') :
                              /\ Stream(u)'[i] <= current'[TableOf[u]]
                              /\ u \in toVisit'[TableOf[u]] => Stream(u)'[i] < current'[TableOf[u]]
      BY DEF StreamBehind
    <3>1. u \in toVisit'[TableOf[u]] => u \in toVisit[TableOf[u]] \/ u \notin used
      BY <1>2, <2>2, <2>3 DEF SubsAssumption
    <3>. QED  BY <1>2, <3>1, StreamKept DEF Inv
  <2>8. Accounted'
    <3>. SUFFICES ASSUME NEW u \in Subs, NEW n \in owed'[u]
                  PROVE  \/ n \in Received(u)' \/ n \in skipped'[u]
                         \/ u \in toVisit'[TableOf[u]] /\ n = current'[TableOf[u]]
      BY DEF Accounted
    <3>1. n \in owed[u] /\ (u \in old => n # current[t])
      BY <1>2
    <3>2. \/ n \in Received(u) \/ n \in skipped[u]
          \/ u \in toVisit[TableOf[u]] /\ n = current[TableOf[u]]
      BY <3>1 DEF Inv, Accounted
    <3>3. Received(u)' = Received(u) /\ skipped' = skipped /\ current' = current
      BY <1>2 DEF Received
    <3>4. u \in toVisit[TableOf[u]] => u \in toVisit'[TableOf[u]] \/ u \in old
      BY <2>2, <2>3 DEF SubsAssumption
    <3>5. u \in old => TableOf[u] = t
      BY <2>1
    <3>. QED  BY <3>1, <3>2, <3>3, <3>4, <3>5
  <2>. QED  BY <2>4, <2>5, <2>6, <2>7, <2>8 DEF Inv
<1>. QED  BY <1>1, <1>2 DEF Subscribe

LEMMA InvUnsubscribe ==
  ASSUME SubsAssumption, Inv, NEW s \in Subs, Unsubscribe(s)
  PROVE  Inv'
<1>. DEFINE t == TableOf[s]
<1>1. CASE Dies("map race")
  BY <1>1, InvDies
<1>2. CASE s \in members /\ s \in done /\ Dies("double close")
  <2>1. stopped
    BY <1>2 DEF Inv, ClosedAreGone
  <2>. QED  BY <1>2, <2>1, InvDies
<1>3. CASE /\ s \in members /\ s \notin done /\ done' = done \cup {s} /\ members' = members \ {s}
           /\ toVisit' = [toVisit EXCEPT ![t] = toVisit[t] \ {s}]
           /\ owed' = [owed EXCEPT ![s] = owed[s] \ {current[t]}]
           /\ UNCHANGED <<lvars, inbox, sent, current, used, chan, got, skipped, stopped, fault>>
  <2>1. t \in Tables
    BY DEF SubsAssumption
  <2>2. Types' /\ ClosedAreGone' /\ InboxAhead' /\ ClosedOnceBeforeStop'
    BY <1>3, <2>1 DEF Inv, Types, ClosedAreGone, InboxAhead, ClosedOnceBeforeStop, lvars
  <2>3. ASSUME NEW u \in Subs
        PROVE  u \in toVisit'[TableOf[u]] <=> u \in toVisit[TableOf[u]] /\ u # s
    BY <1>3, <2>1 DEF Inv, Types, SubsAssumption
  <2>4. Iterating'
    <3>1. \A x \in Tables : \A u \in toVisit[x] : u \in members /\ TableOf[u] = x
      BY DEF Inv, Iterating
    <3>2. \A x \in Tables : toVisit'[x] = IF x = t THEN toVisit[x] \ {s} ELSE toVisit[x]
      BY <1>3 DEF Inv, Types
    <3>. QED  BY <1>3, <3>1, <3>2 DEF Inv, Iterating, lvars
  <2>5. StreamBehind'
    BY <1>3, <2>3, StreamKept DEF Inv, StreamBehind
  <2>6. Accounted'
    <3>. SUFFICES ASSUME NEW u \in Subs, NEW n \in owed'[u]
                  PROVE  \/ n \in Received(u)' \/ n \in skipped'[u]
                         \/ u \in toVisit'[TableOf[u]] /\ n = current'[TableOf[u]]
      BY DEF Accounted
    <3>1. n \in owed[u] /\ (u = s => n # current[t])
      BY <1>3 DEF Inv, Types
    <3>2. \/ n \in Received(u) \/ n \in skipped[u]
          \/ u \in toVisit[TableOf[u]] /\ n = current[TableOf[u]]
      BY <3>1 DEF Inv, Accounted
    <3>3. Received(u)' = Received(u) /\ skipped' = skipped /\ current' = current
      BY <1>3 DEF Received
    <3>. QED  BY <2>3, <3>1, <3>2, <3>3
  <2>. QED  BY <2>2, <2>4, <2>5, <2>6 DEF Inv
<1>. QED  BY <1>1, <1>2, <1>3 DEF Unsubscribe

-----------------------------------------------------------------------------
(* What follows *)

LEMMA InvNext ==
  ASSUME SubsAssumption, Inv, [Next]_vars
  PROVE  Inv'
<1>1. CASE UNCHANGED vars
  <2>1. StreamBehind' /\ Accounted'
    BY <1>1, Quiet DEF vars, hvars, svars, nvars
  <2>2. Types' /\ ClosedAreGone' /\ InboxAhead' /\ Iterating' /\ ClosedOnceBeforeStop'
    BY <1>1 DEF Inv, Types, ClosedAreGone, InboxAhead, Iterating, ClosedOnceBeforeStop, vars, lvars,
           nvars, svars, hvars
  <2>. QED  BY <2>1, <2>2 DEF Inv
<1>. QED  BY <1>1, InvListeners, InvNotify, InvBreaks, InvStop, InvConsume, InvReceive, InvVisit,
             InvSubscribe, InvUnsubscribe DEF Next, Listen

LEMMA InvAlways == Spec => []Inv
  BY SubsAssumption, InvInit, InvNext, PTL DEF Spec

\* No order of subscribing, replacing, unsubscribing and broadcasting closes the Done
\* channel of a subscriber twice before the manager has stopped.
THEOREM ClosesOnce == Spec => []ClosedOnceBeforeStop
<1>1. Inv => ClosedOnceBeforeStop
  BY DEF Inv
<1>. QED  BY <1>1, InvAlways, PTL

\* Whatever clients join, leave or fall behind, nobody receives notifications of its
\* table out of order or twice.
THEOREM KeepsOrder == Spec => []InOrder
<1>1. Inv => InOrder
  BY DEF Inv, StreamBehind, Stream, Ordered, InOrder
<1>. QED  BY <1>1, InvAlways, PTL

\* Whoever was a member during a whole broadcast has been sent the notification, or
\* could not take it itself: no other subscriber is the reason for a gap.
THEOREM NoGaps == Spec => []NoSilentGap
<1>1. Inv => NoSilentGap
  BY SubsAssumption DEF SubsAssumption, Inv, Accounted, Iterating, NoSilentGap
<1>. QED  BY <1>1, InvAlways, PTL

=============================================================================
