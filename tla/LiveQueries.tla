---------------------------- MODULE LiveQueries ----------------------------
(***************************************************************************)
(* Live queries: LiveQueryManager of internal/subscription/manager.go.     *)
(*                                                                         *)
(* On every tick one goroutine per registered query runs it again and      *)
(* sends the result if its hash is not the last one.  Neither the hash nor *)
(* its comparison is protected, nothing keeps two polls of a query apart,  *)
(* and a result that finds the channel full is forgotten.                  *)
(***************************************************************************)
EXTENDS Integers, Sequences, FiniteSets

CONSTANTS
  Queries,     \* LiveQuery values, each passed to Subscribe once at most
  IdOf,        \* ID of a query: the key in lm.subscriptions
  Results,     \* results a query can have; a result stands for its hash
  Initial,     \* results a query may have at first: they are alike, so one will do
  NoResult,    \* the empty lastHash, and a hash torn by two writers
  ChanCap,     \* capacity of every Channel
  Overlap,     \* bound: polls of a query under way at a time
  MaxChanges,  \* bound: changes of the result of a query
  MaxErrors    \* bound: executions that fail

ASSUME LiveAssumption ==
  /\ DOMAIN IdOf = Queries /\ NoResult \notin Results /\ Initial \subseteq Results
  /\ {Overlap, MaxChanges} \subseteq [Queries -> Nat]
  /\ {ChanCap, MaxErrors} \subseteq Nat

VARIABLES
  result,   \* what the database would answer now
  changes, errors,
  members,  \* queries in lm.subscriptions
  used,     \* queries that have been passed to Subscribe
  done,     \* queries whose Done is closed
  due,      \* queries of the snapshot whose goroutine has not started
  polls,    \* running pollQuery calls
  lastHash,
  chan,     \* content of Channel
  latest,   \* history: what was last put on Channel
  dropped,  \* history: queries that lost a result since
  overlapped  \* history: queries of which two polls have been under way at once

pvars == <<due, polls, lastHash, chan, latest, dropped, overlapped>>
mvars == <<members, used, done>>
vars == <<result, changes, errors, mvars, pvars>>

Init ==
  /\ result \in [Queries -> Initial]
  /\ changes = [q \in Queries |-> 0] /\ errors = 0
  /\ members = {} /\ used = {} /\ done = {}
  /\ due = {} /\ polls = {}
  /\ lastHash = [q \in Queries |-> NoResult]
  /\ chan = [q \in Queries |-> << >>]
  /\ latest = [q \in Queries |-> NoResult]
  /\ dropped = {} /\ overlapped = {}

-----------------------------------------------------------------------------
(* The database and the clients *)

Change(q) ==
  /\ changes[q] < MaxChanges[q] /\ changes' = [changes EXCEPT ![q] = @ + 1]
  /\ \E r \in Results \ {result[q]} : result' = [result EXCEPT ![q] = r]
  /\ UNCHANGED <<errors, mvars, pvars>>

\* A query with the same ID is replaced; its Done stays open.
Subscribe(q) ==
  /\ q \notin used
  /\ used' = used \cup {q}
  /\ members' = {p \in members : IdOf[p] # IdOf[q]} \cup {q}
  /\ UNCHANGED <<result, changes, errors, done, pvars>>

Unsubscribe(q) ==
  /\ q \in members
  /\ done' = done \cup {q} /\ members' = members \ {q}
  /\ UNCHANGED <<result, changes, errors, used, pvars>>

Consume(q) ==
  /\ chan[q] # << >>
  /\ chan' = [chan EXCEPT ![q] = Tail(@)]
  /\ UNCHANGED <<result, changes, errors, mvars, due, polls, lastHash, latest, dropped, overlapped>>

-----------------------------------------------------------------------------
(* The ticker goroutine: Start and pollAllQueries *)

PollsOf(q) == {p \in polls : p.query = q}

Tick ==
  /\ due = {} /\ members # {}
  /\ due' = members
  /\ UNCHANGED <<result, changes, errors, mvars, polls, lastHash, chan, latest, dropped, overlapped>>

Free(q) == 1..Overlap[q] \ {p.n : p \in PollsOf(q)}

\* The goroutine does not wait for an earlier poll of the same query.
Launch(q) ==
  /\ q \in due /\ Cardinality(PollsOf(q)) < Overlap[q]
  /\ due' = due \ {q}
  /\ \E n \in Free(q) :
       /\ \A k \in Free(q) : n <= k
       /\ polls' = polls \cup {[query |-> q, n |-> n, found |-> NoResult, pc |-> "resolve"]}
  /\ overlapped' = IF PollsOf(q) = {} THEN overlapped ELSE overlapped \cup {q}
  /\ UNCHANGED <<result, changes, errors, mvars, lastHash, chan, latest, dropped>>

-----------------------------------------------------------------------------
(* pollQuery *)

Goes(p, pc, r) ==
  polls' = (polls \ {p}) \cup {[query |-> p.query, n |-> p.n, found |-> r, pc |-> pc]}
Returns(p) == polls' = polls \ {p}

\* An execution error ends the poll and is not reported.
Resolve(p) ==
  /\ p.pc = "resolve"
  /\ \/ Goes(p, "compare", result[p.query]) /\ UNCHANGED errors
     \/ errors < MaxErrors /\ errors' = errors + 1 /\ Returns(p)
  /\ UNCHANGED <<result, changes, mvars, due, lastHash, chan, latest, dropped, overlapped>>

Storing(q) == {p \in PollsOf(q) : p.pc = "store"}

\* Faulty variant: the hash is not compared.
Compare_Skipped(p) ==
  /\ p.pc = "compare" /\ Goes(p, "store", p.found)
  /\ UNCHANGED <<result, changes, errors, mvars, due, lastHash, chan, latest, dropped, overlapped>>

\* Beside a writer the comparison can come out either way.
Compare(p) ==
  /\ p.pc = "compare"
  /\ \/ /\ p.found = lastHash[p.query] \/ Storing(p.query) # {}
        /\ Returns(p)
     \/ /\ p.found # lastHash[p.query] \/ Storing(p.query) # {}
        /\ Goes(p, "store", p.found)
  /\ UNCHANGED <<result, changes, errors, mvars, due, lastHash, chan, latest, dropped, overlapped>>

\* Two writers of the string may leave a hash that is neither's.
Store(p) ==
  /\ p.pc = "store"
  /\ Goes(p, "send", p.found)
  /\ \E h \in {p.found} \cup (IF Storing(p.query) = {p} THEN {} ELSE {NoResult}) :
       lastHash' = [lastHash EXCEPT ![p.query] = h]
  /\ UNCHANGED <<result, changes, errors, mvars, due, chan, latest, dropped, overlapped>>

\* Faulty variant: the send waits for room.
Send_Blocks(p) ==
  LET q == p.query IN
  /\ p.pc = "send"
  /\ \/ /\ Len(chan[q]) < ChanCap
        /\ chan' = [chan EXCEPT ![q] = Append(@, p.found)]
        /\ latest' = [latest EXCEPT ![q] = p.found]
     \/ q \in done /\ UNCHANGED <<chan, latest>>
  /\ Returns(p)
  /\ UNCHANGED <<result, changes, errors, mvars, due, lastHash, dropped, overlapped>>

\* select { case lq.Channel <- results: case <-lq.Done: default: }
Send(p) ==
  LET q == p.query IN
  /\ p.pc = "send"
  /\ \/ /\ Len(chan[q]) < ChanCap
        /\ chan' = [chan EXCEPT ![q] = Append(@, p.found)]
        /\ latest' = [latest EXCEPT ![q] = p.found]
        /\ dropped' = dropped \ {q}
     \/ /\ q \in done \/ Len(chan[q]) >= ChanCap
        /\ dropped' = dropped \cup {q}
        /\ UNCHANGED <<chan, latest>>
  /\ Returns(p)
  /\ UNCHANGED <<result, changes, errors, mvars, due, lastHash, overlapped>>

Poll(p) == Resolve(p) \/ Compare(p) \/ Store(p) \/ Send(p)

Next ==
  \/ Tick \/ \E p \in polls : Poll(p)
  \/ \E q \in Queries : Change(q) \/ Subscribe(q) \/ Unsubscribe(q) \/ Consume(q) \/ Launch(q)

Spec == Init /\ [][Next]_vars

\* The ticker fires, goroutines run and executions end.
FairSpec ==
  /\ Spec /\ WF_vars(Tick)
  /\ \A q \in Queries : WF_vars(Launch(q)) /\ WF_vars(\E p \in PollsOf(q) : Poll(p))

-----------------------------------------------------------------------------
(* Properties *)

\* Change detection ("Check if results changed", pollQuery): a result is not sent
\* twice in a row, unless one that was dropped lay in between or two polls of the
\* query have overlapped: then both may find the same change.
NoRepeat ==
  [][\A q \in Queries \ overlapped :
       Len(chan'[q]) > Len(chan[q]) /\ q \notin dropped => latest'[q] # latest[q]]_vars

\* A client whose channel never stays full ends up with the current result, through
\* failed executions, changes back to an earlier result and other queries; unless
\* two polls have overlapped, when the older may send after the newer stored.
EventuallyCurrent ==
  \A q \in Queries :
    <>[](q \in members /\ q \notin dropped \cup overlapped) => <>[](latest[q] = result[q])
=============================================================================
