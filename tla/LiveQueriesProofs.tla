------------------------- MODULE LiveQueriesProofs -------------------------
(* A theorem about LiveQueries, for any queries, results and capacities and   *)
(* any number of polls, changes and failing executions.                       *)
EXTENDS LiveQueries, TLAPS

-----------------------------------------------------------------------------
(* The inductive invariant *)

Values == Results \cup {NoResult}
Calls == [query : Queries, n : Int, found : Values,
          pc : {"resolve", "compare", "store", "send"}]

Types ==
  /\ result \in [Queries -> Results] /\ polls \subseteq Calls /\ members \cup due \subseteq Queries
  /\ lastHash \in [Queries -> Values] /\ latest \in [Queries -> Values]
  /\ chan \in [Queries -> Seq(Values)]

\* Where no two polls have overlapped there is one at most, and what it is about to
\* send it has stored.
OnePoll(q) ==
  /\ \A p, r \in PollsOf(q) : p = r
  /\ \A p \in PollsOf(q) : p.pc = "send" => p.found = lastHash[q]

\* Where nothing was dropped either, the hash is that of what was last sent, unless a
\* different result is on its way between the two.
HashIsLatest(q) ==
  /\ (\A p \in PollsOf(q) : p.pc # "send") => lastHash[q] = latest[q]
  /\ \A p \in PollsOf(q) : p.pc \in {"store", "send"} => p.found # latest[q]

Inv ==
  /\ Types
  /\ \A q \in Queries \ overlapped : OnePoll(q)
  /\ \A q \in Queries \ (overlapped \cup dropped) : HashIsLatest(q)

LEMMA InvInit == Init => Inv
<1>. SUFFICES ASSUME Init PROVE Inv
  OBVIOUS
<1>1. Types
  <2>1. << >> \in Seq(Values)
    OBVIOUS
  <2>. QED  BY <2>1, LiveAssumption DEF LiveAssumption, Init, Types, Values
<1>2. \A q : PollsOf(q) = {}
  BY DEF Init, PollsOf
<1>. QED  BY <1>1, <1>2 DEF Init, Inv, OnePoll, HashIsLatest

-----------------------------------------------------------------------------
(* Steps *)

\* A step that leaves polls, hashes and results sent alone.
LEMMA InvElsewhere ==
  ASSUME Inv, Types', UNCHANGED <<polls, lastHash, latest, dropped, overlapped>>
  PROVE  Inv'
  BY DEF Inv, OnePoll, HashIsLatest, PollsOf

LEMMA InvClients ==
  ASSUME Inv, NEW q \in Queries, Change(q) \/ Subscribe(q) \/ Unsubscribe(q) \/ Consume(q)
  PROVE  Inv'
<1>1. UNCHANGED <<polls, lastHash, latest, dropped, overlapped>>
  BY DEF Change, Subscribe, Unsubscribe, Consume, mvars, pvars
<1>2. Types'
  <2>1. CASE Change(q)
    BY <2>1 DEF Change, Inv, Types, mvars, pvars
  <2>2. CASE Consume(q)
    <3>1. chan[q] \in Seq(Values) /\ chan[q] # << >>
      BY <2>2 DEF Consume, Inv, Types
    <3>2. Tail(chan[q]) \in Seq(Values)
      BY <3>1
    <3>. QED  BY <2>2, <3>2 DEF Consume, Inv, Types, mvars, pvars
  <2>3. CASE Subscribe(q) \/ Unsubscribe(q)
    BY <2>3 DEF Subscribe, Unsubscribe, Inv, Types, mvars, pvars
  <2>. QED  BY <2>1, <2>2, <2>3
<1>. QED  BY <1>1, <1>2, InvElsewhere

LEMMA InvLaunch ==
  ASSUME Inv, NEW q \in Queries, Launch(q)
  PROVE  Inv'
<1>1. PICK n \in Free(q) :
        polls' = polls \cup {[query |-> q, n |-> n, found |-> NoResult, pc |-> "resolve"]}
  BY DEF Launch
<1>. DEFINE c == [query |-> q, n |-> n, found |-> NoResult, pc |-> "resolve"]
<1>2. c \in Calls /\ c.query = q /\ c.pc = "resolve" /\ polls' = polls \cup {c}
  BY <1>1, LiveAssumption DEF LiveAssumption, Free, Calls, Values
<1>. HIDE DEF c
<1>3. UNCHANGED <<result, members, lastHash, chan, latest, dropped>> /\ due' \subseteq due
      /\ overlapped' = IF PollsOf(q) = {} THEN overlapped ELSE overlapped \cup {q}
  BY DEF Launch, mvars
<1>4. Types'
  BY <1>2, <1>3 DEF Inv, Types
<1>5. \A r : PollsOf(r)' = IF r = q THEN PollsOf(r) \cup {c} ELSE PollsOf(r)
  BY <1>2 DEF PollsOf
<1>6. ASSUME NEW r \in Queries \ overlapped' PROVE OnePoll(r)'
  <2>1. OnePoll(r) /\ (r = q => PollsOf(r) = {})
    BY <1>3 DEF Inv
  <2>. QED  BY <1>2, <1>3, <1>5, <2>1 DEF OnePoll
<1>7. ASSUME NEW r \in Queries \ (overlapped' \cup dropped') PROVE HashIsLatest(r)'
  <2>1. HashIsLatest(r) /\ (r = q => PollsOf(r) = {})
    BY <1>3 DEF Inv
  <2>. QED  BY <1>2, <1>3, <1>5, <2>1 DEF HashIsLatest
<1>. QED  BY <1>4, <1>6, <1>7 DEF Inv

\* A poll becomes one of S, or ends, and leaves the other queries alone.
Replaces(p, S) ==
  /\ \A c \in S : c.query = p.query
  /\ polls' = (polls \ {p}) \cup S
  /\ \A r \in Queries \ {p.query} :
       /\ lastHash'[r] = lastHash[r] /\ latest'[r] = latest[r]
       /\ r \in dropped' <=> r \in dropped
  /\ UNCHANGED overlapped

\* If it is the only one, it does so as the invariant says.
Keeps(p, S) ==
  OnePoll(p.query) /\ PollsOf(p.query) = {p} =>
    /\ \A c, d \in S : c = d
    /\ \A c \in S : c.pc = "send" => c.found = lastHash'[p.query]
    /\ p.query \notin dropped' /\ (p.query \notin dropped => HashIsLatest(p.query)) =>
         /\ (\A c \in S : c.pc # "send") => lastHash'[p.query] = latest'[p.query]
         /\ \A c \in S : c.pc \in {"store", "send"} => c.found # latest'[p.query]

LEMMA Others ==
  ASSUME Types, NEW p \in polls, NEW S, Replaces(p, S)
  PROVE  /\ \A r : r # p.query => PollsOf(r)' = PollsOf(r)
         /\ \A r \in Queries \ {p.query} : OnePoll(r) => OnePoll(r)'
         /\ \A r \in Queries \ {p.query} : HashIsLatest(r) => HashIsLatest(r)'
         /\ OnePoll(p.query) => PollsOf(p.query) = {p} /\ PollsOf(p.query)' = S
<1>1. ASSUME NEW r, r # p.query PROVE PollsOf(r)' = PollsOf(r)
  BY <1>1 DEF Replaces, PollsOf
<1>2. ASSUME OnePoll(p.query) PROVE PollsOf(p.query) = {p} /\ PollsOf(p.query)' = S
  BY <1>2 DEF Replaces, OnePoll, PollsOf
<1>. QED  BY <1>1, <1>2 DEF Replaces, OnePoll, HashIsLatest

\* What is left to show of a step of p.
LEMMA InvPollStep ==
  ASSUME Inv, Types', NEW p \in polls, NEW S, Replaces(p, S), Keeps(p, S)
  PROVE  Inv'
<1>. DEFINE q == p.query
<1>1. /\ \A r : r # q => PollsOf(r)' = PollsOf(r)
      /\ \A r \in Queries \ {q} : OnePoll(r) => OnePoll(r)'
      /\ \A r \in Queries \ {q} : HashIsLatest(r) => HashIsLatest(r)'
      /\ OnePoll(q) => PollsOf(q) = {p} /\ PollsOf(q)' = S
  BY Others DEF Inv
<1>2. q \in Queries /\ q' = q
  BY DEF Inv, Types, Calls
<1>3. ASSUME q \notin overlapped PROVE OnePoll(q)'
  BY <1>1, <1>2, <1>3 DEF Inv, Keeps, OnePoll
<1>4. ASSUME q \notin overlapped, q \notin dropped' PROVE HashIsLatest(q)'
  BY <1>1, <1>2, <1>4 DEF Inv, Keeps, HashIsLatest
<1>5. ASSUME NEW r \in Queries \ overlapped PROVE OnePoll(r)'
  BY <1>1, <1>3, <1>5 DEF Inv
<1>6. ASSUME NEW r \in Queries \ (overlapped \cup dropped') PROVE HashIsLatest(r)'
  BY <1>1, <1>4, <1>6 DEF Inv, Replaces
<1>. QED  BY <1>5, <1>6 DEF Inv, Replaces

LEMMA InvResolve ==
  ASSUME Inv, NEW p \in polls, Resolve(p) \/ Compare(p)
  PROVE  Inv'
<1>. DEFINE q == p.query
            After(pc, r) == [query |-> q, n |-> p.n, found |-> r, pc |-> pc]
<1>1. p \in Calls /\ q \in Queries /\ p.pc \in {"resolve", "compare"} /\ result[q] \in Values
  BY DEF Inv, Types, Calls, Values, Resolve, Compare
<1>2. UNCHANGED <<result, members, due, lastHash, chan, latest, dropped, overlapped>>
  BY DEF Resolve, Compare, mvars
<1>3. CASE Returns(p)
  <2>1. polls' = (polls \ {p}) \cup {}
    BY <1>3 DEF Returns
  <2>2. Types'
    BY <1>2, <2>1 DEF Inv, Types
  <2>3. p.query \notin dropped /\ HashIsLatest(p.query) /\ PollsOf(p.query) = {p}
          => lastHash[p.query] = latest[p.query]
    BY <1>1 DEF HashIsLatest
  <2>4. Replaces(p, {}) /\ Keeps(p, {})
    BY <1>2, <2>1, <2>3 DEF Replaces, Keeps
  <2>. QED  BY <2>2, <2>4, InvPollStep
<1>4. CASE Goes(p, "compare", result[q])
  <2>. DEFINE c == After("compare", result[q])
  <2>1. polls' = (polls \ {p}) \cup {c}
    BY <1>4 DEF Goes
  <2>2. c \in Calls /\ c.query = q /\ c.pc = "compare"
    BY <1>1 DEF Calls
  <2>. HIDE DEF c
  <2>3. Types'
    BY <1>2, <2>1, <2>2 DEF Inv, Types
  <2>4. p.query \notin dropped /\ HashIsLatest(p.query) /\ PollsOf(p.query) = {p}
          => lastHash[p.query] = latest[p.query]
    BY <1>1 DEF HashIsLatest
  <2>5. Replaces(p, {c}) /\ Keeps(p, {c})
    BY <1>2, <2>1, <2>2, <2>4 DEF Replaces, Keeps
  <2>. QED  BY <2>3, <2>5, InvPollStep
<1>5. CASE Compare(p) /\ Goes(p, "store", p.found)
  <2>. DEFINE c == After("store", p.found)
  <2>1. polls' = (polls \ {p}) \cup {c}
    BY <1>5 DEF Goes
  <2>2. c \in Calls /\ c.query = q /\ c.pc = "store" /\ c.found = p.found
    BY <1>1 DEF Calls
  <2>. HIDE DEF c
  <2>3. Types'
    BY <1>2, <2>1, <2>2 DEF Inv, Types
  <2>4. PollsOf(q) = {p} => p.found # lastHash[q]
    <3>1. Storing(q) = {r \in PollsOf(q) : r.pc = "store"}
      BY DEF Storing
    <3>2. p.pc = "compare"
      BY <1>5 DEF Compare
    <3>3. CASE Returns(p)
      <4>1. c \in polls'
        BY <2>1
      <4>2. c \in polls /\ c # p
        BY <1>1, <2>2, <3>2, <3>3, <4>1 DEF Returns
      <4>. QED  BY <2>2, <4>2 DEF PollsOf
    <3>4. CASE p.found # lastHash[q] \/ Storing(q) # {}
      BY <3>1, <3>2, <3>4
    <3>. QED  BY <1>5, <3>3, <3>4 DEF Compare
  <2>5. p.query \notin dropped /\ HashIsLatest(p.query) /\ PollsOf(p.query) = {p}
          => lastHash[p.query] = latest[p.query]
    BY <1>1 DEF HashIsLatest
  <2>6. Replaces(p, {c})
    BY <1>2, <2>1, <2>2 DEF Replaces
  <2>7. Keeps(p, {c})
    BY <1>2, <2>2, <2>4, <2>5 DEF Keeps
  <2>. QED  BY <2>3, <2>6, <2>7, InvPollStep
<1>. QED  BY <1>3, <1>4, <1>5 DEF Resolve, Compare

LEMMA InvStore ==
  ASSUME Inv, NEW p \in polls, Store(p)
  PROVE  Inv'
<1>. DEFINE q == p.query
            c == [query |-> q, n |-> p.n, found |-> p.found, pc |-> "send"]
<1>1. /\ p \in Calls /\ q \in Queries /\ p.pc = "store" /\ polls' = (polls \ {p}) \cup {c}
      /\ UNCHANGED <<result, members, due, chan, latest, dropped, overlapped>>
  BY DEF Inv, Types, Calls, Store, Goes, mvars
<1>2. PICK h \in {p.found} \cup (IF Storing(q) = {p} THEN {} ELSE {NoResult}) :
        lastHash' = [lastHash EXCEPT ![q] = h]
  BY DEF Store
<1>3. c \in Calls /\ c.query = q /\ c.pc = "send" /\ c.found = p.found /\ h \in Values
  BY <1>1, <1>2 DEF Calls, Values
<1>. HIDE DEF c
<1>4. Types'
  BY <1>1, <1>2, <1>3 DEF Inv, Types
<1>5. PollsOf(q) = {p} => h = p.found
  BY <1>1, <1>2 DEF Storing
<1>6. lastHash'[q] = h /\ \A r \in Queries \ {q} : lastHash'[r] = lastHash[r]
  BY <1>1, <1>2 DEF Inv, Types
<1>7. p.query \notin dropped /\ HashIsLatest(p.query) /\ PollsOf(p.query) = {p}
        => p.found # latest[p.query]
  BY <1>1 DEF HashIsLatest
<1>8. Replaces(p, {c})
  BY <1>1, <1>3, <1>6 DEF Replaces
<1>9. Keeps(p, {c})
  BY <1>1, <1>3, <1>5, <1>6, <1>7 DEF Keeps
<1>. QED  BY <1>4, <1>8, <1>9, InvPollStep

\* What a sending step does to the channel and to the histories.
LEMMA SendEffect ==
  ASSUME Inv, NEW p \in polls, Send(p)
  PROVE  /\ p \in Calls /\ p.pc = "send" /\ polls' = polls \ {p}
         /\ UNCHANGED <<result, members, due, lastHash, overlapped>>
         /\ \/ /\ chan' = [chan EXCEPT ![p.query] = Append(@, p.found)]
               /\ latest' = [latest EXCEPT ![p.query] = p.found]
               /\ dropped' = dropped \ {p.query}
            \/ UNCHANGED <<chan, latest>> /\ dropped' = dropped \cup {p.query}
  BY DEF Inv, Types, Send, Returns, mvars

LEMMA InvSend ==
  ASSUME Inv, NEW p \in polls, Send(p)
  PROVE  Inv'
<1>. DEFINE q == p.query
<1>1. /\ p \in Calls /\ p.pc = "send" /\ polls' = (polls \ {p}) \cup {}
      /\ UNCHANGED <<result, members, due, lastHash, overlapped>> /\ q \in Queries
  BY SendEffect DEF Calls
<1>2. CASE /\ chan' = [chan EXCEPT ![q] = Append(@, p.found)]
           /\ latest' = [latest EXCEPT ![q] = p.found]
           /\ dropped' = dropped \ {q}
  <2>1. Append(chan[q], p.found) \in Seq(Values) /\ p.found \in Values
    BY <1>1 DEF Inv, Types, Calls
  <2>2. Types'
    BY <1>1, <1>2, <2>1 DEF Inv, Types
  <2>3. latest'[q] = p.found /\ \A r \in Queries \ {q} : latest'[r] = latest[r]
    BY <1>1, <1>2 DEF Inv, Types
  <2>4. OnePoll(q) /\ PollsOf(q) = {p} => p.found = lastHash[q]
    BY <1>1 DEF OnePoll
  <2>5. Replaces(p, {}) /\ Keeps(p, {})
    BY <1>1, <1>2, <2>3, <2>4 DEF Replaces, Keeps
  <2>. QED  BY <2>2, <2>5, InvPollStep
<1>3. CASE UNCHANGED <<chan, latest>> /\ dropped' = dropped \cup {q}
  <2>1. Types'
    BY <1>1, <1>3 DEF Inv, Types
  <2>2. Replaces(p, {}) /\ Keeps(p, {})
    BY <1>1, <1>3 DEF Replaces, Keeps
  <2>. QED  BY <2>1, <2>2, InvPollStep
<1>. QED  BY <1>2, <1>3, SendEffect

LEMMA InvNext ==
  ASSUME Inv, [Next]_vars
  PROVE  Inv'
<1>1. CASE UNCHANGED vars
  BY <1>1 DEF vars, mvars, pvars, Inv, Types, OnePoll, HashIsLatest, PollsOf
<1>2. CASE Tick
  <2>1. Types'
    BY <1>2 DEF Tick, Inv, Types, mvars
  <2>. QED  BY <1>2, <2>1, InvElsewhere DEF Tick
<1>. QED  BY <1>1, <1>2, InvClients, InvLaunch, InvResolve, InvStore, InvSend DEF Next, Poll

-----------------------------------------------------------------------------
(* What follows *)

\* However ticks, clients, changes and failing executions fall between its four steps,
\* a poll that no other poll of its query overlaps sends no result twice in a row,
\* unless one was dropped since.
THEOREM SendsChangesOnly == Spec => NoRepeat
<1>1. ASSUME Inv, [Next]_vars
      PROVE  \A q \in Queries \ overlapped :
               Len(chan'[q]) > Len(chan[q]) /\ q \notin dropped => latest'[q] # latest[q]
  <2>. SUFFICES ASSUME NEW q \in Queries \ overlapped, Len(chan'[q]) > Len(chan[q]),
                       q \notin dropped
                PROVE  latest'[q] # latest[q]
    OBVIOUS
  <2>1. chan[q] \in Seq(Values)
    BY <1>1 DEF Inv, Types
  <2>2. chan'[q] # chan[q]
    BY <2>1
  <2>3. PICK p \in polls : Send(p)
    <3>1. ASSUME NEW r \in Queries, Consume(r) PROVE FALSE
      <4>1. chan[r] \in Seq(Values) /\ chan[r] # << >> /\ chan' = [chan EXCEPT ![r] = Tail(@)]
        BY <1>1, <3>1 DEF Consume, Inv, Types
      <4>2. q = r /\ chan'[q] = Tail(chan[q])
        BY <1>1, <2>2, <4>1 DEF Inv, Types
      <4>. QED  BY <2>1, <4>1, <4>2
    <3>2. chan' # chan
      BY <2>2
    <3>. QED  BY <1>1, <3>1, <3>2 DEF Next, Poll, vars, pvars, Change, Subscribe, Unsubscribe,
                  Launch, Tick, Resolve, Compare, Store
  <2>4. /\ p.pc = "send" /\ p.query = q /\ latest'[q] = p.found
    BY <1>1, <2>2, <2>3, SendEffect DEF Inv, Types
  <2>5. HashIsLatest(q) /\ p \in PollsOf(q)
    BY <1>1, <2>4 DEF Inv, PollsOf
  <2>. QED  BY <2>4, <2>5 DEF HashIsLatest
<1>. QED  BY <1>1, InvInit, InvNext, PTL DEF Spec, NoRepeat
=============================================================================
