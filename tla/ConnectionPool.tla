--------------------------- MODULE ConnectionPool ---------------------------
(***************************************************************************)
(* Who waits for whom at the pool of Connection                            *)
(* (internal/database/connection.go).                                      *)
(*                                                                         *)
(* The pool (pgxpool, external) has MaxConns connections and serves its    *)
(* callers in turn.  A statement by itself takes a free connection and     *)
(* gives it back: one step.  A transaction keeps its connection until it   *)
(* is over.  Its function is the caller's code, of which there is none in  *)
(* the repository; ASSUMED is that it works on the tx it is given and asks *)
(* the pool for nothing.  A nested user (the poller of the event triggers  *)
(* here, Reload in SchemaReload) keeps one for the rows it ranges over,    *)
(* and asks for a second one in the body of the loop.                      *)
(***************************************************************************)
EXTENDS Integers, FiniteSets

CONSTANTS
  PoolMaxConns, MaxOpenConns,  \* configuration: 0 where it says nothing
  Pollers,  \* the ticker goroutines of the event triggers
  Callers,  \* goroutines that call Transaction, time after time
  MaxRows   \* bound: events one poll returns (LIMIT 100)

ASSUME PoolAssumption ==
  PoolMaxConns \in Nat /\ MaxOpenConns \in Nat /\ MaxRows \in Nat

VARIABLES
  held,  \* users that keep a connection
  poll,  \* progress of every poller
  rows,  \* rows of its result it has not seen
  tx     \* progress of every caller's Transaction

pool == <<held, poll, rows, tx>>

\* NewConnection: the pool's own setting, the older one, the default.
MaxConns ==
  CASE PoolMaxConns > 0 -> PoolMaxConns
    [] PoolMaxConns = 0 /\ MaxOpenConns > 0 -> MaxOpenConns
    [] OTHER -> 50

PoolInit ==
  /\ held = {}
  /\ poll = [p \in Pollers |-> "idle"] /\ rows = [p \in Pollers |-> 0]
  /\ tx = [c \in Callers |-> "idle"]

Free == Cardinality(held) < MaxConns
Take(u) == Free /\ held' = held \cup {u}
Give(u) == held' = held \ {u}
Statement == Free /\ UNCHANGED held

-----------------------------------------------------------------------------
(* fetchPendingEvents *)

Tick(p) ==
  /\ poll[p] = "idle"
  /\ poll' = [poll EXCEPT ![p] = "asking"]
  /\ UNCHANGED <<held, rows, tx>>

\* SELECT ... FOR UPDATE SKIP LOCKED
PollQuery(p) ==
  /\ poll[p] = "asking"
  /\ Take(p)
  /\ poll' = [poll EXCEPT ![p] = "reading"]
  /\ \E n \in 0..MaxRows : rows' = [rows EXCEPT ![p] = n]
  /\ UNCHANGED tx

\* One row: status = 'processing', and back to 'pending' if the queue is full.
\* Errors of either statement are ignored.
PollRow(p) ==
  /\ poll[p] = "reading" /\ rows[p] > 0
  /\ Statement
  /\ \/ rows' = [rows EXCEPT ![p] = @ - 1] /\ UNCHANGED poll
     \/ poll' = [poll EXCEPT ![p] = "full"] /\ UNCHANGED rows
  /\ UNCHANGED tx

QueueFull(p) ==
  /\ poll[p] = "full"
  /\ Statement
  /\ poll' = [poll EXCEPT ![p] = "reading"]
  /\ rows' = [rows EXCEPT ![p] = @ - 1]
  /\ UNCHANGED tx

PollEnds(p) ==
  /\ poll[p] = "reading" /\ rows[p] = 0
  /\ Give(p)
  /\ poll' = [poll EXCEPT ![p] = "idle"]
  /\ UNCHANGED <<rows, tx>>

\* The query fails, or rows.Next does half-way.
PollBreaks(p) ==
  /\ poll[p] \in {"asking", "reading"}
  /\ Give(p)
  /\ poll' = [poll EXCEPT ![p] = "idle"] /\ rows' = [rows EXCEPT ![p] = 0]
  /\ UNCHANGED tx

PollRuns(p) == PollQuery(p) \/ PollRow(p) \/ QueueFull(p) \/ PollEnds(p)

-----------------------------------------------------------------------------
(* Transaction *)

Transaction(c) ==
  /\ tx[c] = "idle"
  /\ tx' = [tx EXCEPT ![c] = "asking"]
  /\ UNCHANGED <<held, poll, rows>>

Begin(c) ==
  /\ tx[c] = "asking"
  /\ \/ Take(c) /\ tx' = [tx EXCEPT ![c] = "open"]
     \/ Free /\ tx' = [tx EXCEPT ![c] = "idle"] /\ UNCHANGED held
  /\ UNCHANGED <<poll, rows>>

\* Faulty variant: no recover, no Rollback when fn panics.
FnEnds_NoRecover(c, outcome) ==
  /\ tx[c] = "open"
  /\ IF outcome = "panic" THEN UNCHANGED held ELSE Give(c)
  /\ tx' = [tx EXCEPT ![c] = "idle"]
  /\ UNCHANGED <<poll, rows>>

\* fn returns nil and Commit does or fails; it returns an error, or panics, and
\* the transaction is rolled back.  Commit and Rollback give the connection back
\* whatever they return, and the panic goes on to the caller.
FnEnds(c, outcome) ==
  /\ tx[c] = "open"
  /\ outcome \in {"nil", "err", "panic"}
  /\ Give(c)
  /\ tx' = [tx EXCEPT ![c] = "idle"]
  /\ UNCHANGED <<poll, rows>>

TransactionRuns(c) ==
  Begin(c) \/ \E outcome \in {"nil", "err", "panic"} : FnEnds(c, outcome)

-----------------------------------------------------------------------------
PoolNext ==
  \/ \E p \in Pollers : Tick(p) \/ PollRuns(p) \/ PollBreaks(p)
  \/ \E c \in Callers : Transaction(c) \/ TransactionRuns(c)
=============================================================================
