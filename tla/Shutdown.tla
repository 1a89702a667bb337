------------------------------ MODULE Shutdown ------------------------------
(***************************************************************************)
(* ShutdownManager of internal/engine/shutdown.go.                         *)
(*                                                                         *)
(* Components register, requests are counted in and out, and any number of *)
(* goroutines (a signal handler, a failed server) may call Shutdown.  The  *)
(* first drains the requests and stops the components in reverse order     *)
(* under three timers: drain, total, and one that kills the process.  The  *)
(* hooks are the caller's code and take any time: onShutdownStart delays   *)
(* Arm, the others the step that follows them.                             *)
(***************************************************************************)
EXTENDS Integers, Sequences, FiniteSets

CONSTANTS
  Callers, Requests, Comps,
  DrainTimeout, Timeout, ForceAfter  \* in units of the clock

ASSUME TimersAssumption ==
  DrainTimeout \in Nat /\ Timeout \in Nat /\ ForceAfter \in Nat \ {0}

\* The values that stand for no error yet and for nil are no component's error.
ASSUME ResultsAssumption == Comps \cap {"none", "nil"} = {}

VARIABLES
  registered,   \* sm.components
  shuttingDown,
  active,       \* sm.activeRequests
  open,         \* requests between Increment and Decrement
  seen,         \* requests that have been incremented
  pc,           \* progress of every Shutdown call
  list,         \* the call's copy of the components that are still to stop
  result,       \* what the call returned: "nil", or the component whose error it is
  cancelled,    \* the ctx passed to Shutdown was cancelled
  timer,        \* forceTimer: off, set, or fired when its function has begun
  now,          \* time since the timers were set
  exited,       \* os.Exit has run
  lasted,       \* history: how long the shutdown had taken when it returned
  before,       \* history: requests that were open when Shutdown began
  stops,        \* history: components in the order their Shutdown was called
  ended,        \* history: components whose Shutdown has returned
  failed        \* history: those whose Shutdown returned an error

rvars == <<active, open, seen>>
tvars == <<cancelled, timer, now, exited, lasted>>
hvars == <<before, stops, ended, failed>>
vars  == <<registered, shuttingDown, rvars, pc, list, result, tvars, hvars>>

Members(s) == {s[n] : n \in DOMAIN s}

Init ==
  /\ registered = << >> /\ shuttingDown = FALSE
  /\ active = 0 /\ open = {} /\ seen = {}
  /\ pc = [c \in Callers |-> "idle"]
  /\ list = [c \in Callers |-> << >>]
  /\ result = [c \in Callers |-> "none"]
  /\ cancelled = FALSE /\ timer = "off" /\ now = 0 /\ exited = FALSE
  /\ lasted = 0
  /\ before = {} /\ stops = << >> /\ ended = {} /\ failed = {}

Goes(c, from, to) == ~exited /\ pc[c] = from /\ pc' = [pc EXCEPT ![c] = to]
CtxDone == cancelled \/ now >= Timeout
DrainCtxDone == CtxDone \/ now >= DrainTimeout

-----------------------------------------------------------------------------
(* Components and requests *)

Register(m) ==
  /\ ~exited /\ m \notin Members(registered)
  /\ registered' = Append(registered, m)
  /\ UNCHANGED <<shuttingDown, rvars, pc, list, result, tvars, hvars>>

\* Nothing refuses a request that arrives during the shutdown.
IncrementRequests(r) ==
  /\ ~exited /\ r \notin seen
  /\ active' = active + 1
  /\ open' = open \cup {r} /\ seen' = seen \cup {r}
  /\ UNCHANGED <<registered, shuttingDown, pc, list, result, tvars, hvars>>

DecrementRequests(r) ==
  /\ ~exited /\ r \in open
  /\ active' = active - 1
  /\ open' = open \ {r}
  /\ UNCHANGED <<registered, shuttingDown, seen, pc, list, result, tvars, hvars>>

-----------------------------------------------------------------------------
(* Timers *)

Tick ==
  /\ ~exited /\ timer = "set" /\ now < ForceAfter
  /\ now' = now + 1
  /\ UNCHANGED <<registered, shuttingDown, rvars, pc, list, result,
                 cancelled, timer, exited, lasted, hvars>>

Cancel ==
  /\ ~exited /\ ~cancelled
  /\ cancelled' = TRUE
  /\ UNCHANGED <<registered, shuttingDown, rvars, pc, list, result, timer, now, exited, lasted, hvars>>

\* The timer fires: stopping it has no effect from now on.
Fire ==
  /\ ~exited /\ timer = "set" /\ now = ForceAfter
  /\ timer' = "fired"
  /\ UNCHANGED <<registered, shuttingDown, rvars, pc, list, result,
                 cancelled, now, exited, lasted, hvars>>

\* Faulty variant: the function only logs.
ForceExit_LogsOnly ==
  /\ ~exited /\ timer = "fired"
  /\ timer' = "off"
  /\ UNCHANGED <<registered, shuttingDown, rvars, pc, list, result,
                 cancelled, now, exited, lasted, hvars>>

\* Its function: os.Exit(1).
ForceExit ==
  /\ ~exited /\ timer = "fired"
  /\ exited' = TRUE
  /\ UNCHANGED <<registered, shuttingDown, rvars, pc, list, result,
                 cancelled, timer, now, lasted, hvars>>

-----------------------------------------------------------------------------
(* Shutdown *)

\* Faulty variant: the flag is set without looking at it.
Begin_NoSwap(c) ==
  /\ Goes(c, "idle", "starting")
  /\ shuttingDown' = TRUE
  /\ before' = open
  /\ UNCHANGED <<registered, rvars, list, result, tvars, stops, ended, failed>>

\* CompareAndSwap(false, true); the hook onShutdownStart is called.
Begin(c) ==
  /\ ~shuttingDown
  /\ Goes(c, "idle", "starting")
  /\ shuttingDown' = TRUE
  /\ before' = open
  /\ UNCHANGED <<registered, rvars, list, result, tvars, stops, ended, failed>>

\* The hook has returned: the context's timeout and the force timer start.
Arm(c) ==
  /\ Goes(c, "starting", "draining")
  /\ timer' = "set"
  /\ UNCHANGED <<registered, shuttingDown, rvars, list, result,
                 cancelled, now, exited, lasted, hvars>>

\* "Shutdown already in progress": nil at once.
Refuse(c) ==
  /\ shuttingDown
  /\ Goes(c, "idle", "refused")
  /\ result' = [result EXCEPT ![c] = "nil"]
  /\ UNCHANGED <<registered, shuttingDown, rvars, list, tvars, hvars>>

\* drainRequests looks at the counter: done, or wait for the ticker or the timeout.
DrainCheck(c) ==
  /\ Goes(c, "draining", IF active = 0 THEN "drained" ELSE "waiting")
  /\ UNCHANGED <<registered, shuttingDown, rvars, list, result, tvars, hvars>>

DrainTick(c) ==
  /\ Goes(c, "waiting", "draining")
  /\ UNCHANGED <<registered, shuttingDown, rvars, list, result, tvars, hvars>>

DrainGivesUp(c) ==
  /\ DrainCtxDone
  /\ Goes(c, "waiting", "drained")
  /\ UNCHANGED <<registered, shuttingDown, rvars, list, result, tvars, hvars>>

\* The copy of sm.components that is taken under the lock.
CopyComponents(c) ==
  /\ Goes(c, "drained", "next")
  /\ list' = [list EXCEPT ![c] = registered]
  /\ UNCHANGED <<registered, shuttingDown, rvars, result, tvars, hvars>>

StopNext(c) ==
  /\ list[c] # << >>
  /\ Goes(c, "next", "stopping")
  /\ stops' = Append(stops, list[c][Len(list[c])])
  /\ list' = [list EXCEPT ![c] = SubSeq(@, 1, Len(@) - 1)]
  /\ UNCHANGED <<registered, shuttingDown, rvars, result, tvars, before, ended, failed>>

\* Faulty variant: the last error wins.
Stopped_LastError(c, err) ==
  LET m == stops[Len(stops)] IN
  /\ Goes(c, "stopping", "next")
  /\ ended' = ended \cup {m}
  /\ failed' = IF err THEN failed \cup {m} ELSE failed
  /\ result' = [result EXCEPT ![c] = IF err THEN m ELSE @]
  /\ UNCHANGED <<registered, shuttingDown, rvars, list, tvars, before, stops>>

\* The component's Shutdown returns; the first error is kept.
Stopped(c, err) ==
  LET m == stops[Len(stops)] IN
  /\ Goes(c, "stopping", "next")
  /\ ended' = ended \cup {m}
  /\ failed' = IF err THEN failed \cup {m} ELSE failed
  /\ result' = [result EXCEPT ![c] = IF err /\ @ = "none" THEN m ELSE @]
  /\ UNCHANGED <<registered, shuttingDown, rvars, list, tvars, before, stops>>

\* The deferred calls stop the timer and cancel the context.
Return(c) ==
  /\ list[c] = << >>
  /\ Goes(c, "next", "returned")
  /\ timer' = IF timer = "set" THEN "off" ELSE timer
  /\ lasted' = now
  /\ result' = [result EXCEPT ![c] = IF @ = "none" THEN "nil" ELSE @]
  /\ UNCHANGED <<registered, shuttingDown, rvars, list, cancelled, now, exited, hvars>>

-----------------------------------------------------------------------------
Step(c) ==
  \/ Begin(c) \/ Refuse(c) \/ Arm(c)
  \/ DrainCheck(c) \/ DrainTick(c) \/ DrainGivesUp(c)
  \/ CopyComponents(c) \/ StopNext(c) \/ Return(c)
  \/ \E err \in BOOLEAN : Stopped(c, err)

Next ==
  \/ \E m \in Comps : Register(m)
  \/ \E r \in Requests : IncrementRequests(r) \/ DecrementRequests(r)
  \/ Tick \/ Cancel \/ Fire \/ ForceExit
  \/ \E c \in Callers : Step(c)

Spec == Init /\ [][Next]_vars

\* The timer of the runtime.  Goroutines, hooks, requests and components may hang.
FairSpec ==
  /\ Spec
  /\ WF_vars(Tick) /\ WF_vars(Fire) /\ WF_vars(ForceExit)

-----------------------------------------------------------------------------
Rank(m) == CHOOSE n \in DOMAIN registered : registered[n] = m

\* Whoever calls Shutdown and however often, a component is stopped once, after all
\* that registered after it and stopped before it have returned, and none before
\* the requests that were open as Shutdown began have ended or the time to drain is
\* over.
StopsInReverse ==
  /\ \A i, j \in DOMAIN stops :
       i < j => Rank(stops[i]) > Rank(stops[j]) /\ stops[i] \in ended
  /\ stops # << >> => before \cap open = {} \/ DrainCtxDone

\* Shutdown returns when each component of its copy has returned, one's error does
\* not keep the next from stopping, and what it returns is the first error.  No
\* os.Exit of the timer follows a shutdown that returned in time.
ReturnIsFinal ==
  \A c \in Callers : pc[c] = "returned" =>
    /\ ended = Members(stops)
    /\ result[c] = "nil" <=> failed = {}
    /\ failed # {} =>
         \E n \in DOMAIN stops :
           /\ stops[n] = result[c] /\ result[c] \in failed
           /\ \A k \in 1..(n - 1) : stops[k] \notin failed
    /\ exited => lasted = ForceAfter

\* Whatever requests, components and later hooks do, from the end of onShutdownStart
\* on a shutdown returns or is cut off.  (Before, nothing ends the wait for that hook.)
ShutdownEnds == timer # "off" ~> (exited \/ \E c \in Callers : pc[c] = "returned")
=============================================================================
