--------------------------- MODULE ShutdownProofs ---------------------------
(* Theorems about Shutdown, for every number of callers, requests and          *)
(* components and whatever the three timeouts are, and, in the second half,    *)
(* about EngineLifecycle, for any number of queries, reloads and goroutines    *)
(* that use the pool without the lock.                                         *)
EXTENDS Shutdown, EngineLifecycle, SequenceTheorems, FiniteSetTheorems, TLAPS

-----------------------------------------------------------------------------
(* The inductive invariant *)

Late == {"next", "stopping", "returned"}   \* the components have been copied
Busy == {"starting", "draining", "waiting", "drained"} \cup Late

TypeOK ==
  /\ registered \in Seq(Comps)
  /\ shuttingDown \in BOOLEAN
  /\ active \in Int
  /\ open \subseteq Requests /\ seen \subseteq Requests
  /\ pc \in [Callers -> Busy \cup {"idle", "refused"}]
  /\ list \in [Callers -> Seq(Comps)]
  /\ result \in [Callers -> Comps \cup {"none", "nil"}]
  /\ cancelled \in BOOLEAN /\ exited \in BOOLEAN
  /\ timer \in {"off", "set", "fired"}
  /\ now \in Nat /\ lasted \in Nat
  /\ before \subseteq Requests
  /\ stops \in Seq(Comps)
  /\ ended \subseteq Comps /\ failed \subseteq Comps

\* The counter counts the open requests, and those that were open at the beginning
\* have been seen, so that none of them is opened again.
Counted ==
  /\ IsFiniteSet(open) /\ active = Cardinality(open)
  /\ open \subseteq seen /\ before \subseteq seen

\* The swap lets one call pass; before it nothing has been stopped.
OnePasses ==
  /\ \A c, d \in Callers : pc[c] \in Busy /\ pc[d] \in Busy => c = d
  /\ ~shuttingDown => \A c \in Callers : pc[c] = "idle"
  /\ \A c \in Callers : pc[c] = "idle" => result[c] = "none"

RegisteredOnce ==
  \A m, n \in DOMAIN registered : registered[m] = registered[n] => m = n

\* What the passing call has stopped and what its copy still lists are together the
\* first components of the registry, the stopped ones in reverse.
Remaining(c) ==
  /\ Len(stops) + Len(list[c]) <= Len(registered)
  /\ \A n \in 1..Len(list[c]) : list[c][n] = registered[n]
  /\ \A n \in 1..Len(stops) : stops[n] = registered[Len(stops) + Len(list[c]) + 1 - n]

\* All the components that have been stopped have returned, but for the last one
\* while the call waits for it.
Progress(c) ==
  /\ pc[c] = "stopping" => /\ stops # << >>
                           /\ ended = {stops[n] : n \in 1..(Len(stops) - 1)}
  /\ pc[c] \in {"next", "returned"} => ended = Members(stops)

FirstError(c) ==
  /\ pc[c] # "returned" => (result[c] = "none" <=> failed = {}) /\ result[c] # "nil"
  /\ pc[c] = "returned" => (result[c] = "nil" <=> failed = {}) /\ result[c] # "none"
  /\ failed # {} =>
       \E n \in 1..Len(stops) :
         /\ stops[n] = result[c] /\ result[c] \in failed
         /\ \A k \in 1..(n - 1) : stops[k] \notin failed

Stopping ==
  /\ failed \subseteq ended
  /\ \A c \in Callers : pc[c] \in Late => Remaining(c) /\ Progress(c) /\ FirstError(c)
  /\ (\A c \in Callers : pc[c] \notin Late) =>
       /\ stops = << >> /\ ended = {} /\ failed = {}
       /\ \A c \in Callers : pc[c] \in Busy => result[c] = "none"

\* Components are stopped after the drain.
Drained ==
  (\E c \in Callers : pc[c] \in {"drained"} \cup Late) =>
    before \cap open = {} \/ DrainCtxDone

Timers ==
  /\ timer = "fired" => now = ForceAfter
  /\ exited => timer = "fired"
  /\ \A c \in Callers : pc[c] = "returned" =>
       /\ timer # "set" /\ list[c] = << >>
       /\ timer = "fired" => lasted = ForceAfter

Inv ==
  /\ TypeOK /\ Counted /\ OnePasses /\ RegisteredOnce
  /\ Stopping /\ Drained /\ Timers

-----------------------------------------------------------------------------
(* Types *)

LEMMA TypeInit == Init => TypeOK
<1>. SUFFICES ASSUME Init PROVE TypeOK
  OBVIOUS
<1>1. << >> \in Seq(Comps)
  BY EmptySeq
<1>2. list \in [Callers -> Seq(Comps)] /\ registered \in Seq(Comps) /\ stops \in Seq(Comps)
  BY <1>1 DEF Init
<1>3. /\ pc \in [Callers -> Busy \cup {"idle", "refused"}]
      /\ result \in [Callers -> Comps \cup {"none", "nil"}]
  BY DEF Init
<1>4. /\ shuttingDown \in BOOLEAN /\ cancelled \in BOOLEAN /\ exited \in BOOLEAN
      /\ timer \in {"off", "set", "fired"}
  BY Zenon DEF Init
<1>6. active \in Int /\ now \in Nat /\ lasted \in Nat
  <2>1. active = 0 /\ now = 0 /\ lasted = 0
    BY DEF Init
  <2>. QED  BY <2>1
<1>5. /\ open \subseteq Requests /\ seen \subseteq Requests /\ before \subseteq Requests
      /\ ended \subseteq Comps /\ failed \subseteq Comps
  BY DEF Init
<1>. QED  BY <1>2, <1>3, <1>4, <1>5, <1>6 DEF TypeOK

\* A component that returns is one that was stopped: this needs more than the types.
LEMMA TypeNext == Inv /\ [Next]_vars => TypeOK'
<1>. SUFFICES ASSUME Inv, [Next]_vars PROVE TypeOK'
  OBVIOUS
<1>0. TypeOK
  BY DEF Inv
<1>. USE <1>0, TimersAssumption DEF TypeOK, Busy, Late, rvars, tvars, hvars, Goes
<1>1. ASSUME NEW m \in Comps, Register(m) PROVE TypeOK'
  BY <1>1, AppendProperties DEF Register
<1>2. ASSUME NEW r \in Requests, IncrementRequests(r) \/ DecrementRequests(r)
      PROVE  TypeOK'
  BY <1>2 DEF IncrementRequests, DecrementRequests
<1>3. CASE Tick \/ Cancel \/ Fire \/ ForceExit
  <2>1. now' \in Nat /\ timer' \in {"off", "set", "fired"}
    BY <1>3 DEF Tick, Cancel, Fire, ForceExit
  <2>2. UNCHANGED <<registered, shuttingDown, rvars, pc, list, result, lasted, hvars>>
    BY <1>3 DEF Tick, Cancel, Fire, ForceExit
  <2>3. cancelled' \in BOOLEAN /\ exited' \in BOOLEAN
    BY <1>3 DEF Tick, Cancel, Fire, ForceExit
  <2>. QED  BY <2>1, <2>2, <2>3
<1>4. ASSUME NEW c \in Callers, Step(c) PROVE TypeOK'
  <2>1. CASE Begin(c) \/ Arm(c)
    BY <2>1 DEF Begin, Arm
  <2>2. CASE Refuse(c)
    BY <2>2 DEF Refuse
  <2>3. CASE DrainCheck(c) \/ DrainTick(c) \/ DrainGivesUp(c)
    BY <2>3 DEF DrainCheck, DrainTick, DrainGivesUp
  <2>4. CASE CopyComponents(c)
    BY <2>4 DEF CopyComponents
  <2>5. CASE StopNext(c)
    <3>1. list[c] \in Seq(Comps) /\ Len(list[c]) \in Nat \ {0}
      BY <2>5, EmptySeq DEF StopNext
    <3>2. list[c][Len(list[c])] \in Comps
      BY <3>1, ElementOfSeq
    <3>3. stops' \in Seq(Comps)
      BY <2>5, <3>2, AppendProperties DEF StopNext
    <3>4. SubSeq(list[c], 1, Len(list[c]) - 1) \in Seq(Comps)
      BY <3>1, ElementOfSeq, SubSeqProperties
    <3>5. list' \in [Callers -> Seq(Comps)]
      BY <2>5, <3>4 DEF StopNext
    <3>. QED  BY <2>5, <3>3, <3>5 DEF StopNext
  <2>6. ASSUME NEW err \in BOOLEAN, Stopped(c, err) PROVE TypeOK'
    <3>1. stops # << >>
      BY <2>6 DEF Stopped, Inv, Stopping, Progress
    <3>2. stops[Len(stops)] \in Comps
      BY <3>1, EmptySeq, ElementOfSeq
    <3>. QED  BY <2>6, <3>2 DEF Stopped
  <2>7. CASE Return(c)
    BY <2>7 DEF Return
  <2>. QED  BY <1>4, <2>1, <2>2, <2>3, <2>4, <2>5, <2>6, <2>7 DEF Step
<1>5. CASE UNCHANGED vars
  BY <1>5 DEF vars
<1>. QED  BY <1>1, <1>2, <1>3, <1>4, <1>5 DEF Next

-----------------------------------------------------------------------------
(* Preservation, conjunct by conjunct *)

LEMMA CountedNext ==
  ASSUME Inv, [Next]_vars
  PROVE  Counted'
<1>. USE DEF Inv, TypeOK, Counted, rvars, tvars, hvars
<1>1. ASSUME NEW r \in Requests, IncrementRequests(r) PROVE Counted'
  <2>1. r \notin open /\ active' = active + 1 /\ open' = open \cup {r}
    BY <1>1 DEF IncrementRequests
  <2>2. IsFiniteSet(open') /\ Cardinality(open') = Cardinality(open) + 1
    BY <2>1, FS_AddElement
  <2>. QED  BY <1>1, <2>1, <2>2 DEF IncrementRequests
<1>2. ASSUME NEW r \in Requests, DecrementRequests(r) PROVE Counted'
  <2>1. r \in open /\ active' = active - 1 /\ open' = open \ {r}
    BY <1>2 DEF DecrementRequests
  <2>2. IsFiniteSet(open') /\ Cardinality(open') = Cardinality(open) - 1
    BY <2>1, FS_RemoveElement
  <2>. QED  BY <1>2, <2>1, <2>2 DEF DecrementRequests
<1>3. CASE \/ \E m \in Comps : Register(m)
           \/ Tick \/ Cancel \/ Fire \/ ForceExit
           \/ UNCHANGED vars
  BY <1>3 DEF Register, Tick, Cancel, Fire, ForceExit, vars
<1>4. ASSUME NEW c \in Callers, Step(c) PROVE Counted'
  <2>1. UNCHANGED rvars /\ before' \in {before, open}
    BY <1>4 DEF Step, Begin, Refuse, Arm, DrainCheck, DrainTick, DrainGivesUp, CopyComponents,
                StopNext, Stopped, Return
  <2>. QED  BY <2>1
<1>. QED  BY <1>1, <1>2, <1>3, <1>4 DEF Next

LEMMA RegisteredOnceNext ==
  ASSUME Inv, [Next]_vars
  PROVE  RegisteredOnce'
<1>. USE DEF rvars, tvars, hvars
<1>1. CASE UNCHANGED registered
  BY <1>1 DEF Inv, RegisteredOnce
<1>2. ASSUME NEW m \in Comps, Register(m) PROVE RegisteredOnce'
  <2>1. /\ registered \in Seq(Comps) /\ registered' = Append(registered, m)
        /\ \A n \in DOMAIN registered : registered[n] # m
    BY <1>2 DEF Register, Members, Inv, TypeOK
  <2>2. /\ DOMAIN registered = 1..Len(registered) /\ Len(registered) \in Nat
        /\ DOMAIN registered' = 1..(Len(registered) + 1)
        /\ \A n \in 1..Len(registered) : registered'[n] = registered[n]
        /\ registered'[Len(registered) + 1] = m
    BY <2>1, AppendProperties, LenProperties
  <2>3. ASSUME NEW k \in DOMAIN registered', NEW n \in DOMAIN registered',
               registered'[k] = registered'[n]
        PROVE  k = n
    BY <2>1, <2>2, <2>3 DEF Inv, RegisteredOnce
  <2>. QED  BY <2>3 DEF RegisteredOnce
<1>3. CASE ~ \E m \in Comps : Register(m)
  <2>1. UNCHANGED registered
    BY <1>3 DEF Next, vars, Tick, Cancel, Fire, ForceExit, IncrementRequests, DecrementRequests,
                Step, Begin, Refuse, Arm, DrainCheck, DrainTick, DrainGivesUp, CopyComponents,
                StopNext, Stopped, Return
  <2>. QED  BY <1>1, <2>1
<1>. QED  BY <1>2, <1>3

LEMMA OnePassesNext ==
  ASSUME Inv, [Next]_vars
  PROVE  OnePasses'
<1>. USE DEF Inv, TypeOK, OnePasses, Goes, rvars, tvars, hvars
<1>1. CASE UNCHANGED <<pc, result, shuttingDown>>
  BY <1>1
<1>2. CASE \/ \E m \in Comps : Register(m)
           \/ \E r \in Requests : IncrementRequests(r) \/ DecrementRequests(r)
           \/ Tick \/ Cancel \/ Fire \/ ForceExit
           \/ UNCHANGED vars
  BY <1>1, <1>2 DEF Register, IncrementRequests, DecrementRequests, Tick, Cancel, Fire,
                    ForceExit, vars
<1>3. ASSUME NEW c \in Callers, Begin(c) PROVE OnePasses'
  BY <1>3 DEF Begin, Busy, Late
<1>4. ASSUME NEW c \in Callers, Refuse(c) PROVE OnePasses'
  BY <1>4 DEF Refuse, Busy, Late
\* The other steps are of the call that has passed.
<1>5. ASSUME NEW c \in Callers, Step(c), ~Begin(c), ~Refuse(c) PROVE OnePasses'
  <2>1. /\ pc[c] \in Busy /\ UNCHANGED shuttingDown
        /\ \E to \in Busy : pc' = [pc EXCEPT ![c] = to]
        /\ \A d \in Callers \ {c} : result'[d] = result[d]
    BY <1>5 DEF Step, Arm, DrainCheck, DrainTick, DrainGivesUp, CopyComponents, StopNext,
                Stopped, Return, Busy, Late
  <2>. QED  BY <2>1 DEF Busy, Late
<1>. QED  BY <1>2, <1>3, <1>4, <1>5 DEF Next

LEMMA DrainedNext ==
  ASSUME Inv, [Next]_vars
  PROVE  Drained'
<1>. USE DEF rvars, tvars, hvars
<1>. DEFINE Past(c) == pc[c] \in {"drained"} \cup Late
            Over == before \cap open = {} \/ DrainCtxDone
\* No request that was open at the beginning is opened again, and time does not
\* run back.
<1>1. ASSUME Over, before' = before PROVE Over'
  <2>1. CASE DrainCtxDone
    <3>1. cancelled => cancelled'
      BY DEF Next, vars, Register, IncrementRequests, DecrementRequests, Tick, Cancel, Fire,
             ForceExit, Step, Begin, Refuse, Arm, DrainCheck, DrainTick, DrainGivesUp,
             CopyComponents, StopNext, Stopped, Return
    <3>2. now' = now \/ now' = now + 1
      BY DEF Next, vars, Register, IncrementRequests, DecrementRequests, Tick, Cancel, Fire,
             ForceExit, Step, Begin, Refuse, Arm, DrainCheck, DrainTick, DrainGivesUp,
             CopyComponents, StopNext, Stopped, Return
    <3>. QED  BY <2>1, <3>1, <3>2, TimersAssumption DEF DrainCtxDone, CtxDone, Inv, TypeOK
  <2>2. CASE before \cap open = {}
    <3>1. \A r \in open' : r \in open \/ r \notin seen
      BY DEF Next, vars, Register, IncrementRequests, DecrementRequests, Tick, Cancel, Fire,
             ForceExit, Step, Begin, Refuse, Arm, DrainCheck, DrainTick, DrainGivesUp,
             CopyComponents, StopNext, Stopped, Return
    <3>. QED  BY <1>1, <2>2, <3>1 DEF Inv, Counted
  <2>. QED  BY <1>1, <2>1, <2>2
<1>2. CASE UNCHANGED <<pc, before>>
  BY <1>1, <1>2 DEF Inv, Drained
<1>3. CASE \/ \E m \in Comps : Register(m)
           \/ \E r \in Requests : IncrementRequests(r) \/ DecrementRequests(r)
           \/ Tick \/ Cancel \/ Fire \/ ForceExit
           \/ UNCHANGED vars
  BY <1>2, <1>3 DEF Register, IncrementRequests, DecrementRequests, Tick, Cancel, Fire,
                    ForceExit, vars
<1>4. ASSUME NEW c \in Callers, Begin(c) PROVE Drained'
  BY <1>4 DEF Begin, Goes, Inv, TypeOK, OnePasses, Drained, Busy, Late
<1>5. ASSUME NEW c \in Callers, Refuse(c) \/ Arm(c) \/ DrainTick(c) PROVE Drained'
  <2>1. before' = before /\ \A d \in Callers : Past(d)' => Past(d)
    BY <1>5 DEF Refuse, Arm, DrainTick, Goes, Inv, TypeOK, Busy, Late
  <2>. QED  BY <1>1, <2>1 DEF Inv, Drained
\* A counter of zero says that no request is open at all.
<1>6. ASSUME NEW c \in Callers, DrainCheck(c) PROVE Drained'
  <2>1. CASE active = 0
    <3>1. open = {}
      BY <2>1, FS_EmptySet DEF Inv, Counted
    <3>. QED  BY <1>6, <3>1 DEF DrainCheck, Drained
  <2>2. CASE active # 0
    <3>1. before' = before /\ \A d \in Callers : Past(d)' => Past(d)
      BY <1>6, <2>2 DEF DrainCheck, Goes, Inv, TypeOK, Busy, Late
    <3>. QED  BY <1>1, <3>1 DEF Inv, Drained
  <2>. QED  BY <2>1, <2>2
<1>7. ASSUME NEW c \in Callers, DrainGivesUp(c) PROVE Drained'
  <2>1. DrainCtxDone /\ before' = before
    BY <1>7 DEF DrainGivesUp
  <2>. QED  BY <1>1, <2>1 DEF Drained
<1>8. ASSUME NEW c \in Callers,
             \/ CopyComponents(c) \/ StopNext(c) \/ Return(c)
             \/ \E err \in BOOLEAN : Stopped(c, err)
      PROVE  Drained'
  <2>1. Past(c) /\ before' = before
    BY <1>8 DEF CopyComponents, StopNext, Return, Stopped, Goes, Late
  <2>. QED  BY <1>1, <2>1 DEF Inv, Drained
<1>. QED  BY <1>3, <1>4, <1>5, <1>6, <1>7, <1>8 DEF Next, Step

LEMMA TimersNext ==
  ASSUME Inv, [Next]_vars
  PROVE  Timers'
<1>. USE DEF Inv, TypeOK, Timers, Goes, rvars, tvars, hvars
<1>1. CASE UNCHANGED <<timer, now, exited, lasted, list, pc>>
  BY <1>1
<1>2. CASE \/ \E m \in Comps : Register(m)
           \/ \E r \in Requests : IncrementRequests(r) \/ DecrementRequests(r)
           \/ Cancel \/ UNCHANGED vars
  BY <1>1, <1>2 DEF Register, IncrementRequests, DecrementRequests, Cancel, vars
<1>3. CASE Tick
  BY <1>3 DEF Tick
<1>4. CASE Fire
  BY <1>4 DEF Fire
<1>5. CASE ForceExit
  BY <1>5 DEF ForceExit
<1>6. ASSUME NEW c \in Callers, Arm(c) PROVE Timers'
  <2>1. \A d \in Callers : pc'[d] # "returned"
    BY <1>6 DEF Arm, OnePasses, Busy, Late
  <2>. QED  BY <1>6, <2>1 DEF Arm
<1>7. ASSUME NEW c \in Callers, Return(c) PROVE Timers'
  <2>1. \A d \in Callers : pc'[d] = "returned" => d = c
    BY <1>7 DEF Return, OnePasses, Busy, Late
  <2>. QED  BY <1>7, <2>1 DEF Return
<1>8. ASSUME NEW c \in Callers, Step(c), ~Arm(c), ~Return(c) PROVE Timers'
  <2>1. /\ UNCHANGED <<timer, now, exited, lasted>>
        /\ \A d \in Callers : pc'[d] = "returned" => pc[d] = "returned" /\ list'[d] = list[d]
    BY <1>8 DEF Step, Begin, Refuse, DrainCheck, DrainTick, DrainGivesUp, CopyComponents, StopNext,
                Stopped
  <2>. QED  BY <2>1
<1>. QED  BY <1>2, <1>3, <1>4, <1>5, <1>6, <1>7, <1>8 DEF Next

\* What Stopping reads of a call that does not step.
LEMMA StoppingStill ==
  ASSUME Inv, UNCHANGED <<registered, list, stops, ended, failed>>,
         \A c \in Callers :
           \/ pc'[c] = pc[c] /\ result'[c] = result[c]
           \/ /\ pc[c] \notin Late /\ pc'[c] \notin Late
              /\ pc'[c] \in Busy => result'[c] = result[c] /\ (pc[c] \in Busy \/ result[c] = "none")
  PROVE  Stopping'
<1>1. ASSUME NEW c \in Callers, pc'[c] \in Late
      PROVE  /\ pc[c] \in Late /\ Remaining(c)' /\ Progress(c)' /\ FirstError(c)'
  <2>1. pc'[c] = pc[c] /\ result'[c] = result[c]
    BY <1>1
  <2>2. pc[c] \in Late /\ Remaining(c) /\ Progress(c) /\ FirstError(c)
    BY <1>1, <2>1 DEF Inv, Stopping
  <2>3. Remaining(c)'
    BY <2>1, <2>2 DEF Remaining, Members
  <2>4. Progress(c)'
    BY <2>1, <2>2 DEF Progress, Members
  <2>5. FirstError(c)'
    BY <2>1, <2>2 DEF FirstError
  <2>. QED  BY <2>2, <2>3, <2>4, <2>5
<1>2. ASSUME \A c \in Callers : pc'[c] \notin Late
      PROVE  /\ stops' = << >> /\ ended' = {} /\ failed' = {}
             /\ \A c \in Callers : pc'[c] \in Busy => result'[c] = "none"
  <2>1. \A c \in Callers : pc[c] \notin Late
    BY <1>2
  <2>. QED  BY <1>2, <2>1 DEF Inv, Stopping
<1>. QED  BY <1>1, <1>2 DEF Inv, Stopping

\* Once a call is past its copy, it is the only one that Stopping speaks of.
LEMMA StoppingOf ==
  ASSUME Inv, NEW c \in Callers, NEW to \in Late, NEW from \in Busy, Goes(c, from, to),
         failed' \subseteq ended', Remaining(c)', Progress(c)', FirstError(c)'
  PROVE  Stopping'
<1>1. pc'[c] = to /\ \A d \in Callers \ {c} : pc'[d] = pc[d] /\ pc[d] \notin Busy
  BY DEF Goes, Inv, TypeOK, OnePasses
<1>. QED  BY <1>1 DEF Stopping, Busy

LEMMA StoppingRegister ==
  ASSUME Inv, NEW m \in Comps, Register(m)
  PROVE  Stopping'
<1>. USE DEF tvars, hvars
<1>1. /\ registered \in Seq(Comps) /\ registered' = Append(registered, m)
      /\ stops \in Seq(Comps) /\ list \in [Callers -> Seq(Comps)]
  BY DEF Register, Inv, TypeOK
<1>2. /\ Len(registered) \in Nat /\ Len(registered') = Len(registered) + 1
      /\ \A n \in 1..Len(registered) : registered'[n] = registered[n]
  BY <1>1, AppendProperties, LenProperties
<1>3. UNCHANGED <<pc, list, result, stops, ended, failed>>
  BY DEF Register
<1>4. ASSUME NEW c \in Callers, pc[c] \in Late PROVE Remaining(c)'
  <2>1. Len(stops) \in Nat /\ Len(list[c]) \in Nat
    BY <1>1, LenProperties
  <2>2. Remaining(c)
    BY <1>4 DEF Inv, Stopping
  <2>3. \A n \in 1..Len(stops) : Len(stops) + Len(list[c]) + 1 - n \in 1..Len(registered)
    BY <1>2, <2>1, <2>2 DEF Remaining
  <2>4. Len(stops) + Len(list[c]) <= Len(registered')
    BY <1>2, <2>1, <2>2 DEF Remaining
  <2>5. \A n \in 1..Len(list[c]) : list[c][n] = registered'[n]
    <3>1. \A n \in 1..Len(list[c]) : n \in 1..Len(registered)
      BY <1>2, <2>1, <2>2 DEF Remaining
    <3>. QED  BY <1>2, <2>2, <3>1 DEF Remaining
  <2>6. \A n \in 1..Len(stops) : stops[n] = registered'[Len(stops) + Len(list[c]) + 1 - n]
    BY <1>2, <2>2, <2>3 DEF Remaining
  <2>. QED  BY <1>3, <2>4, <2>5, <2>6 DEF Remaining
<1>. QED  BY <1>3, <1>4 DEF Inv, Stopping, Progress, FirstError, Members

LEMMA StoppingCopy ==
  ASSUME Inv, NEW c \in Callers, CopyComponents(c)
  PROVE  Stopping'
<1>. USE DEF tvars, hvars
<1>1. /\ \A d \in Callers : pc[d] \notin Late
      /\ pc[c] \in Busy
  BY DEF CopyComponents, Goes, Inv, OnePasses, Busy, Late
<1>2. /\ stops = << >> /\ ended = {} /\ failed = {} /\ result[c] = "none"
      /\ UNCHANGED <<registered, stops, ended, failed, result>>
      /\ Goes(c, "drained", "next") /\ list'[c] = registered
  BY <1>1 DEF CopyComponents, Inv, TypeOK, Stopping
<1>3. Len(registered) \in Nat /\ Len(stops) = 0
  BY <1>2, LenProperties, EmptySeq DEF Inv, TypeOK
<1>4. Remaining(c)'
  BY <1>2, <1>3 DEF Remaining
<1>5. pc'[c] = "next"
  BY <1>2 DEF Goes, Inv, TypeOK
<1>6. Progress(c)'
  <2>1. Members(stops) = {}
    BY <1>2 DEF Members
  <2>. QED  BY <1>2, <1>5, <2>1 DEF Progress, Members
<1>7. FirstError(c)'
  BY <1>2, <1>5 DEF FirstError
<1>. QED  BY <1>2, <1>4, <1>6, <1>7, StoppingOf DEF Busy, Late

LEMMA StoppingNextOne ==
  ASSUME Inv, NEW c \in Callers, StopNext(c)
  PROVE  Stopping'
<1>. USE DEF tvars, hvars
<1>. DEFINE S == Len(stops)
            L == Len(list[c])
            m == list[c][L]
<1>1. /\ pc[c] = "next" /\ Remaining(c) /\ Progress(c) /\ FirstError(c) /\ failed \subseteq ended
  BY DEF StopNext, Goes, Inv, Stopping, Late
<1>2. /\ stops \in Seq(Comps) /\ list[c] \in Seq(Comps) /\ S \in Nat /\ L \in Nat \ {0}
      /\ list[c] # << >> /\ m \in Comps
  <2>1. stops \in Seq(Comps) /\ list[c] \in Seq(Comps) /\ list[c] # << >>
    BY DEF StopNext, Inv, TypeOK
  <2>2. S \in Nat /\ L \in Nat \ {0}
    BY <2>1, LenProperties, EmptySeq
  <2>. QED  BY <2>1, <2>2, ElementOfSeq
<1>3. /\ Len(stops') = S + 1 /\ stops'[S + 1] = m
      /\ \A n \in 1..S : stops'[n] = stops[n]
      /\ DOMAIN stops = 1..S
  BY <1>2, AppendProperties, LenProperties DEF StopNext
<1>4. /\ Len(list'[c]) = L - 1
      /\ \A n \in 1..(L - 1) : list'[c][n] = list[c][n]
  <2>1. list'[c] = SubSeq(list[c], 1, L - 1)
    BY DEF StopNext, Inv, TypeOK
  <2>2. \A n \in 1..(L - 1) : list[c][n] \in Comps
    BY <1>2, ElementOfSeq
  <2>. HIDE DEF L
  <2>. QED  BY <1>2, <2>1, <2>2, SubSeqProperties
<1>5. Goes(c, "next", "stopping") /\ UNCHANGED <<registered, result, ended, failed>>
  BY DEF StopNext
<1>6. pc'[c] = "stopping"
  BY <1>5 DEF Goes, Inv, TypeOK
<1>11. m = list[c][L] /\ \A n \in 1..L : list[c][n] = registered[n]
  BY <1>1 DEF Remaining
<1>. HIDE DEF S, L, m
<1>7. Len(registered) \in Nat
  BY LenProperties DEF Inv, TypeOK
<1>8. Remaining(c)'
  <2>1. S + L <= Len(registered)
    BY <1>1 DEF Remaining, S, L
  <2>2. \A n \in 1..(L - 1) : list'[c][n] = registered'[n]
    BY <1>2, <1>4, <1>5, <1>11
  <2>3. ASSUME NEW n \in 1..(S + 1) PROVE stops'[n] = registered[S + L + 1 - n]
    <3>1. CASE n = S + 1
      <4>1. m = registered[L]
        BY <1>2, <1>11
      <4>2. S + L + 1 - n = L
        BY <1>2, <3>1
      <4>. QED  BY <1>3, <3>1, <4>1, <4>2
    <3>2. CASE n # S + 1
      <4>1. n \in 1..S
        BY <1>2, <3>2
      <4>. QED  BY <1>1, <1>3, <4>1 DEF Remaining, S, L
    <3>. QED  BY <3>1, <3>2
  <2>4. (S + 1) + (L - 1) = S + L
    BY <1>2
  <2>. QED  BY <1>3, <1>4, <1>5, <2>1, <2>2, <2>3, <2>4 DEF Remaining
<1>9. Progress(c)'
  <2>1. ended = {stops[n] : n \in 1..S}
    BY <1>1, <1>3 DEF Progress, Members
  <2>2. Len(stops') - 1 = S
    BY <1>2, <1>3
  <2>3. ended' = {stops'[n] : n \in 1..(Len(stops') - 1)}
    BY <1>3, <1>5, <2>1, <2>2
  <2>4. stops' # << >>
    BY <1>2, AppendProperties DEF StopNext, m, L
  <2>. QED  BY <1>6, <2>3, <2>4 DEF Progress
<1>10. FirstError(c)'
  <2>1. (result'[c] = "none" <=> failed' = {}) /\ result'[c] # "nil"
    BY <1>1, <1>5 DEF FirstError
  <2>2. ASSUME failed # {}
        PROVE  \E n \in 1..Len(stops') :
                 /\ stops'[n] = result'[c] /\ result'[c] \in failed'
                 /\ \A k \in 1..(n - 1) : stops'[k] \notin failed'
    <3>1. PICK n \in 1..S : /\ stops[n] = result[c] /\ result[c] \in failed
                            /\ \A k \in 1..(n - 1) : stops[k] \notin failed
      BY <1>1, <2>2 DEF FirstError, S
    <3>2. n \in 1..Len(stops') /\ 1..(n - 1) \subseteq 1..S
      BY <1>2, <1>3
    <3>. QED  BY <1>3, <1>5, <3>1, <3>2
  <2>. QED  BY <1>5, <1>6, <2>1, <2>2 DEF FirstError
<1>. QED  BY <1>1, <1>5, <1>8, <1>9, <1>10, StoppingOf DEF Busy, Late

\* The components that have been stopped are distinct.
LEMMA StopsDistinct ==
  ASSUME Inv, NEW c \in Callers, pc[c] \in Late,
         NEW i \in 1..Len(stops), NEW j \in 1..Len(stops), stops[i] = stops[j]
  PROVE  i = j
<1>. DEFINE K == Len(stops) + Len(list[c]) + 1
<1>1. /\ Len(stops) \in Nat /\ Len(list[c]) \in Nat /\ Len(registered) \in Nat
      /\ DOMAIN registered = 1..Len(registered)
  BY LenProperties DEF Inv, TypeOK
<1>2. Remaining(c)
  BY DEF Inv, Stopping
<1>3. K - i \in 1..Len(registered) /\ K - j \in 1..Len(registered)
  BY <1>1, <1>2 DEF Remaining
<1>4. registered[K - i] = registered[K - j]
  BY <1>2 DEF Remaining
<1>5. K - i = K - j
  BY <1>1, <1>3, <1>4 DEF Inv, RegisteredOnce
<1>. QED  BY <1>1, <1>5

LEMMA StoppingStopped ==
  ASSUME Inv, NEW c \in Callers, NEW err \in BOOLEAN, Stopped(c, err)
  PROVE  Stopping'
<1>. USE DEF tvars, hvars
<1>. DEFINE S == Len(stops)
            m == stops[S]
<1>1. /\ pc[c] = "stopping" /\ Remaining(c) /\ Progress(c) /\ FirstError(c)
      /\ failed \subseteq ended
  BY DEF Stopped, Goes, Inv, Stopping, Late
<1>2. /\ stops \in Seq(Comps) /\ DOMAIN stops = 1..S /\ S \in Nat \ {0} /\ m \in Comps
  <2>1. stops \in Seq(Comps) /\ stops # << >>
    BY <1>1 DEF Inv, TypeOK, Progress
  <2>2. S \in Nat \ {0} /\ DOMAIN stops = 1..S
    BY <2>1, LenProperties, EmptySeq
  <2>. QED  BY <2>1, <2>2, ElementOfSeq
<1>3. /\ Goes(c, "stopping", "next") /\ UNCHANGED <<registered, list, stops>>
      /\ ended' = ended \cup {m}
      /\ failed' = IF err THEN failed \cup {m} ELSE failed
      /\ result'[c] = IF err /\ result[c] = "none" THEN m ELSE result[c]
  BY DEF Stopped, Inv, TypeOK
<1>4. pc'[c] = "next"
  BY <1>3 DEF Goes, Inv, TypeOK
<1>5. m # "none" /\ m # "nil"
  BY <1>2, ResultsAssumption
<1>6. \A k \in 1..(S - 1) : stops[k] # m
  <2>1. \A k \in 1..(S - 1) : k \in 1..S /\ k # S /\ S \in 1..S
    <3>1. S \in Nat \ {0}
      BY <1>2
    <3>. HIDE DEF S
    <3>. QED  BY <3>1
  <2>. QED  BY <1>1, <2>1, StopsDistinct DEF Late
<1>. HIDE DEF S, m
<1>7. Remaining(c)'
  BY <1>1, <1>3 DEF Remaining
<1>8. Progress(c)'
  <2>1. ended = {stops[n] : n \in 1..(S - 1)}
    BY <1>1 DEF Progress, S
  <2>2. m = stops[S] /\ 1..S = (1..(S - 1)) \cup {S}
    BY <1>2 DEF m
  <2>3. ended' = Members(stops)
    BY <1>2, <1>3, <2>1, <2>2 DEF Members
  <2>. QED  BY <1>3, <1>4, <2>3 DEF Progress, Members
<1>9. FirstError(c)'
  <2>1. (result'[c] = "none" <=> failed' = {}) /\ result'[c] # "nil"
    BY <1>1, <1>3, <1>5 DEF FirstError
  <2>2. ASSUME failed' # {}
        PROVE  \E n \in 1..S :
                 /\ stops[n] = result'[c] /\ result'[c] \in failed'
                 /\ \A k \in 1..(n - 1) : stops[k] \notin failed'
    <3>1. CASE failed = {}
      <4>1. err /\ failed' = {m} /\ result'[c] = m
        BY <1>1, <1>3, <2>2, <3>1 DEF FirstError
      <4>2. S \in 1..S /\ stops[S] = m
        BY <1>2 DEF m
      <4>. QED  BY <1>6, <4>1, <4>2
    <3>2. CASE failed # {}
      <4>1. PICK n \in 1..S : /\ stops[n] = result[c] /\ result[c] \in failed
                              /\ \A k \in 1..(n - 1) : stops[k] \notin failed
        BY <1>1, <3>2 DEF FirstError, S
      <4>2. result'[c] = result[c] /\ failed \subseteq failed'
        BY <1>1, <1>3, <3>2 DEF FirstError
      <4>3. \A k \in 1..(n - 1) : k \in 1..(S - 1)
        BY <1>2
      <4>. QED  BY <1>3, <1>6, <4>1, <4>2, <4>3
    <3>. QED  BY <3>1, <3>2
  <2>. QED  BY <1>3, <1>4, <2>1, <2>2 DEF FirstError, S
<1>10. failed' \subseteq ended'
  BY <1>1, <1>3
<1>. QED  BY <1>3, <1>7, <1>8, <1>9, <1>10, StoppingOf DEF Busy, Late

LEMMA StoppingReturn ==
  ASSUME Inv, NEW c \in Callers, Return(c)
  PROVE  Stopping'
<1>. USE DEF hvars
<1>1. /\ pc[c] = "next" /\ Remaining(c) /\ Progress(c) /\ FirstError(c)
      /\ failed \subseteq ended
  BY DEF Return, Goes, Inv, Stopping, Late
<1>2. /\ Goes(c, "next", "returned") /\ UNCHANGED <<registered, list, stops, ended, failed>>
      /\ result'[c] = IF result[c] = "none" THEN "nil" ELSE result[c]
  BY DEF Return, Inv, TypeOK
<1>3. pc'[c] = "returned"
  BY <1>2 DEF Goes, Inv, TypeOK
<1>4. Remaining(c)' /\ Progress(c)'
  BY <1>1, <1>2, <1>3 DEF Remaining, Progress, Members
<1>5. FirstError(c)'
  BY <1>1, <1>2, <1>3 DEF FirstError
<1>. QED  BY <1>1, <1>2, <1>4, <1>5, StoppingOf DEF Busy, Late

LEMMA StoppingNext ==
  ASSUME Inv, [Next]_vars
  PROVE  Stopping'
<1>. USE DEF rvars, tvars, hvars
<1>1. CASE \/ \E r \in Requests : IncrementRequests(r) \/ DecrementRequests(r)
           \/ Tick \/ Cancel \/ Fire \/ ForceExit
           \/ UNCHANGED vars
  <2>1. UNCHANGED <<registered, list, stops, ended, failed, pc, result>>
    BY <1>1 DEF IncrementRequests, DecrementRequests, Tick, Cancel, Fire, ForceExit, vars
  <2>. QED  BY <2>1, StoppingStill
<1>2. ASSUME NEW c \in Callers,
             Begin(c) \/ Refuse(c) \/ Arm(c) \/ DrainCheck(c) \/ DrainTick(c) \/ DrainGivesUp(c)
      PROVE  Stopping'
  <2>1. UNCHANGED <<registered, list, stops, ended, failed>>
    BY <1>2 DEF Begin, Refuse, Arm, DrainCheck, DrainTick, DrainGivesUp
  <2>2. \A d \in Callers \ {c} : pc'[d] = pc[d] /\ result'[d] = result[d]
    BY <1>2 DEF Begin, Refuse, Arm, DrainCheck, DrainTick, DrainGivesUp, Goes, Inv, TypeOK
  <2>3. /\ pc[c] \notin Late /\ pc'[c] \notin Late
        /\ pc'[c] \in Busy => result'[c] = result[c] /\ (pc[c] \in Busy \/ result[c] = "none")
    BY <1>2 DEF Begin, Refuse, Arm, DrainCheck, DrainTick, DrainGivesUp, Goes, Inv, TypeOK,
                OnePasses, Busy, Late
  <2>. QED  BY <2>1, <2>2, <2>3, StoppingStill
<1>. QED  BY <1>1, <1>2, StoppingRegister, StoppingCopy, StoppingNextOne, StoppingStopped,
             StoppingReturn DEF Next, Step

LEMMA InvInit == Init => Inv
<1>. SUFFICES ASSUME Init PROVE Inv
  OBVIOUS
<1>1. TypeOK
  BY TypeInit
<1>2. Counted
  BY FS_EmptySet DEF Init, Counted
<1>3. \A c \in Callers : pc[c] = "idle" /\ result[c] = "none"
  BY DEF Init
<1>4. OnePasses /\ Drained
  BY <1>3 DEF OnePasses, Drained, Busy, Late
<1>5. RegisteredOnce
  BY DEF Init, RegisteredOnce
<1>6. Stopping
  BY <1>3 DEF Init, Stopping, Late
<1>7. Timers
  BY <1>3 DEF Init, Timers
<1>. QED  BY <1>1, <1>2, <1>4, <1>5, <1>6, <1>7 DEF Inv

LEMMA InvNext == Inv /\ [Next]_vars => Inv'
  BY TypeNext, CountedNext, OnePassesNext, RegisteredOnceNext, StoppingNext, DrainedNext,
     TimersNext DEF Inv

LEMMA InvAlways == Spec => []Inv
  BY InvInit, InvNext, PTL DEF Spec

-----------------------------------------------------------------------------
(* The theorems *)

LEMMA RankIs ==
  ASSUME RegisteredOnce, NEW n \in DOMAIN registered
  PROVE  Rank(registered[n]) = n
<1>1. \E k \in DOMAIN registered : registered[k] = registered[n]
  OBVIOUS
<1>2. /\ Rank(registered[n]) \in DOMAIN registered
      /\ registered[Rank(registered[n])] = registered[n]
  BY <1>1 DEF Rank
<1>. QED  BY <1>2 DEF RegisteredOnce

\* However many goroutines call Shutdown, whatever registers meanwhile and however the
\* timers and requests race with it: every component is stopped at most once, after
\* those that registered after it have returned, and after the drain.
THEOREM ReverseOrder == Spec => []StopsInReverse
<1>1. ASSUME Inv PROVE StopsInReverse
  <2>1. ASSUME stops # << >> PROVE \E c \in Callers : pc[c] \in Late
    BY <1>1, <2>1 DEF Inv, Stopping
  <2>2. stops # << >> => before \cap open = {} \/ DrainCtxDone
    BY <1>1, <2>1 DEF Inv, Drained
  <2>3. ASSUME NEW i \in DOMAIN stops, NEW j \in DOMAIN stops, i < j
        PROVE  Rank(stops[i]) > Rank(stops[j]) /\ stops[i] \in ended
    <3>1. /\ DOMAIN stops = 1..Len(stops) /\ Len(stops) \in Nat
          /\ Len(registered) \in Nat /\ DOMAIN registered = 1..Len(registered)
          /\ \A c \in Callers : Len(list[c]) \in Nat
      BY <1>1, LenProperties DEF Inv, TypeOK
    <3>2. PICK c \in Callers : pc[c] \in Late
      <4>1. stops # << >>
        BY <3>1, EmptySeq
      <4>. QED  BY <2>1, <4>1
    <3>3. Remaining(c) /\ Progress(c)
      BY <1>1, <3>2 DEF Inv, Stopping
    <3>. DEFINE K == Len(stops) + Len(list[c]) + 1
    <3>4. /\ stops[i] = registered[K - i] /\ K - i \in DOMAIN registered
          /\ stops[j] = registered[K - j] /\ K - j \in DOMAIN registered
      <4>1. i \in 1..Len(stops) /\ j \in 1..Len(stops)
        BY <3>1
      <4>2. K - i \in 1..Len(registered) /\ K - j \in 1..Len(registered)
        BY <3>1, <3>3, <4>1 DEF Remaining
      <4>3. stops[i] = registered[K - i] /\ stops[j] = registered[K - j]
        BY <3>3, <4>1 DEF Remaining
      <4>. QED  BY <3>1, <4>2, <4>3
    <3>5. Rank(stops[i]) = K - i /\ Rank(stops[j]) = K - j
      BY <1>1, <3>4, RankIs DEF Inv
    <3>6. K - i > K - j
      BY <2>3, <3>1
    <3>7. stops[i] \in ended
      <4>1. i \in 1..(Len(stops) - 1)
        BY <2>3, <3>1
      <4>. QED  BY <3>2, <3>3, <4>1 DEF Progress, Members, Late
    <3>. QED  BY <3>5, <3>6, <3>7
  <2>. QED  BY <2>2, <2>3 DEF StopsInReverse
<1>. QED  BY <1>1, InvAlways, PTL

\* A call that returns has seen every component of its copy return, whichever failed
\* or overran its context, and reports the first error; no os.Exit follows it unless
\* the timer had fired by then.
THEOREM ReturnsComplete == Spec => []ReturnIsFinal
<1>1. ASSUME Inv PROVE ReturnIsFinal
  <2>1. ASSUME NEW c \in Callers, pc[c] = "returned"
        PROVE  /\ Progress(c) /\ FirstError(c) /\ Timers
               /\ DOMAIN stops = 1..Len(stops)
    BY <1>1, <2>1, LenProperties DEF Inv, TypeOK, Stopping, Late
  <2>. QED  BY <2>1 DEF ReturnIsFinal, Progress, FirstError, Timers
<1>. QED  BY <1>1, InvAlways, PTL

-----------------------------------------------------------------------------
(* EngineLifecycle: the inductive invariant *)

EngineTypes ==
  /\ query \in [Queries -> {"idle", "asking", "running", "refused", "answered"}]
  /\ init \in {"idle", "connecting", "introspecting", "generating", "done", "failed"}
  /\ reload \in [Reloads -> {"idle", "asking", "introspecting", "generating", "done", "failed"}]
  /\ stop \in {"idle", "asking", "subscriptions", "triggers", "closing", "done"}
  /\ ready \in BOOLEAN
  /\ closer \in [Closers -> {"idle", "watching", "waiting", "once", "closing", "nil", "err"}]
  /\ pool \in {"none", "open", "closing", "closed"} /\ once \in {"free", "busy", "done"}

Initializing == init \in {"connecting", "introspecting", "generating"}
StopHolds == stop \in {"subscriptions", "triggers", "closing"}

\* Whoever is between his Lock and his Unlock holds e.mu, and readers exclude them all.
Excluded ==
  /\ \A q \in Queries : query[q] = "running" => holder = "none"
  /\ holder = "initialize" <=> Initializing
  /\ holder = "stop" <=> StopHolds
  /\ \A r \in Reloads : reload[r] \in {"introspecting", "generating"} => holder = r

\* An engine becomes ready once, and Stop comes after whatever Initialize does.
Phases ==
  /\ \A q \in Queries : query[q] = "running" => ready
  /\ ready => init = "done" /\ stop # "done"
  /\ stop # "idle" => init # "idle"
  /\ StopHolds \/ stop = "done" => init \in {"done", "failed"}

\* closeOnce and the pool go through their states together, and whoever has been told
\* that the pool is closed was told so after it was.
PoolOnce ==
  /\ init \in {"idle", "connecting"} => pool = "none"
  /\ once = "free" <=> pool \in {"none", "open"}
  /\ once = "busy" <=> pool = "closing"
  /\ closed = IF once = "done" THEN 1 ELSE 0
  /\ \A c, d \in Closers : closer[c] = "closing" => once = "busy" /\ (closer[d] = "closing" => c = d)
  /\ \A c \in Closers : closer[c] = "nil" => pool = "closed"
  /\ \A c \in Closers : pool = "none" => closer[c] = "idle"

\* Stop passes over the connection only when there is none.
StopCloses ==
  /\ stop \in {"closing", "done"} /\ closer["stop"] = "idle" => pool = "none"
  /\ stop = "done" => closer["stop"] \in {"idle", "nil", "err"}

EngineInv == EngineTypes /\ Excluded /\ Phases /\ PoolOnce /\ StopCloses

LEMMA EngineInvInit == EngineInit => EngineInv
  BY WritersAssumption DEF WritersAssumption, EngineInit, EngineInv, EngineTypes, Excluded, Phases, PoolOnce,
     StopCloses, Initializing, StopHolds, Closers

-----------------------------------------------------------------------------
(* EngineLifecycle: EngineInv is preserved *)

\* Steps that concern neither the connection nor Stop.
LEMMA PoolStill ==
  ASSUME EngineInv, UNCHANGED <<conn, stop>>,
         init \notin {"idle", "connecting"} => init' \notin {"idle", "connecting"}
  PROVE  PoolOnce' /\ StopCloses'
  BY DEF EngineInv, PoolOnce, StopCloses, conn

LEMMA EngineInvOthers ==
  ASSUME EngineInv, TimeOut \/ \E t \in Tasks : Acquire(t) \/ Release(t)
  PROVE  EngineInv'
<1>1. UNCHANGED <<lock, query, init, reload, stop, ready, conn>>
  BY DEF TimeOut, Acquire, Release
<1>. QED  BY <1>1 DEF EngineInv, EngineTypes, Excluded, Phases, PoolOnce, StopCloses, Initializing,
                      StopHolds, lock, conn

LEMMA EngineInvInitialize ==
  ASSUME EngineInv, Initialize \/ InitRuns
  PROVE  EngineInv'
<1>. USE WritersAssumption DEF WritersAssumption, EngineInv, EngineTypes, Excluded, Phases, PoolOnce, StopCloses,
         Initializing, StopHolds, lock, conn, Unlock
<1>1. CASE Initialize
  BY <1>1 DEF Initialize
<1>2. ASSUME NEW ok \in BOOLEAN, InitConnect(ok) PROVE EngineInv'
  BY <1>2 DEF InitConnect
<1>3. ASSUME NEW ok \in BOOLEAN, InitIntrospect(ok) PROVE EngineInv'
  BY <1>3 DEF InitIntrospect
<1>4. ASSUME NEW ok \in BOOLEAN, InitGenerate(ok) PROVE EngineInv'
  BY <1>4 DEF InitGenerate
<1>. QED  BY <1>1, <1>2, <1>3, <1>4 DEF InitRuns

LEMMA EngineInvQuery ==
  ASSUME EngineInv, NEW q \in Queries, ExecuteQuery(q) \/ ReadLock(q) \/ Answer(q)
  PROVE  EngineInv'
<1>. USE DEF EngineInv, EngineTypes, Excluded, Phases, Initializing, StopHolds, lock, conn
<1>1. PoolOnce' /\ StopCloses'
  BY PoolStill DEF ExecuteQuery, ReadLock, Answer
<1>2. CASE ExecuteQuery(q)
  BY <1>1, <1>2 DEF ExecuteQuery
<1>3. CASE ReadLock(q)
  BY <1>1, <1>3 DEF ReadLock
<1>4. CASE Answer(q)
  BY <1>1, <1>4 DEF Answer
<1>. QED  BY <1>2, <1>3, <1>4

LEMMA EngineInvReload ==
  ASSUME EngineInv, NEW r \in Reloads, Reload(r) \/ ReloadRuns(r)
  PROVE  EngineInv'
<1>. USE WritersAssumption DEF WritersAssumption, EngineInv, EngineTypes, Excluded, Phases, Initializing, StopHolds,
         lock, conn, Unlock
<1>1. PoolOnce' /\ StopCloses'
  BY PoolStill DEF Reload, ReloadRuns, ReloadConnects, ReloadIntrospects, ReloadGenerates
<1>2. CASE Reload(r)
  BY <1>1, <1>2 DEF Reload, Asks
<1>3. CASE ReloadConnects(r)
  <2>1. CASE Lock(r) /\ UNCHANGED reload
    BY <1>1, <1>3, <2>1 DEF ReloadConnects, Lock, Running
  <2>2. CASE holder = r
    BY <1>1, <1>3, <2>2 DEF ReloadConnects, Lock
  <2>. QED  BY <1>3, <2>1, <2>2 DEF ReloadConnects
<1>4. ASSUME NEW ok \in BOOLEAN, ReloadIntrospects(r, ok) PROVE EngineInv'
  BY <1>1, <1>4 DEF ReloadIntrospects
<1>5. ASSUME NEW ok \in BOOLEAN, ReloadGenerates(r, ok) PROVE EngineInv'
  BY <1>1, <1>5 DEF ReloadGenerates
<1>. QED  BY <1>2, <1>3, <1>4, <1>5 DEF ReloadRuns

LEMMA EngineInvClose ==
  ASSUME EngineInv, NEW c \in Closers, CloseByOthers(c) \/ CloseRuns(c)
  PROVE  EngineInv'
<1>. USE DEF EngineInv, EngineTypes, Excluded, Phases, PoolOnce, StopCloses, Initializing, StopHolds, lock, conn,
         Moves
<1>1. CASE CloseByOthers(c)
  BY <1>1 DEF CloseByOthers, CloseBegins
<1>2. CASE CloseRuns(c) /\ QueriesWaited(c)
  BY <1>2 DEF CloseRuns, QueriesWaited
<1>3. CASE CloseRuns(c) /\ OnceEnter(c)
  <2>1. CASE once = "free"
    <3>1. /\ closer' = [closer EXCEPT ![c] = "closing"] /\ once' = "busy" /\ pool' = "closing"
          /\ UNCHANGED <<lock, query, init, reload, stop, ready, closed>>
      BY <1>3, <2>1 DEF CloseRuns, OnceEnter
    <3>2. EngineTypes' /\ Excluded' /\ Phases'
      BY <3>1
    <3>3. PoolOnce'
      BY <2>1, <3>1, <1>3 DEF OnceEnter
    <3>4. StopCloses'
      BY <3>1, <1>3 DEF OnceEnter
    <3>. QED  BY <3>2, <3>3, <3>4
  <2>2. CASE once = "done"
    <3>1. /\ closer[c] = "once" /\ closer' = [closer EXCEPT ![c] = "nil"]
          /\ UNCHANGED <<lock, query, init, reload, stop, ready, pool, once, closed>>
      BY <1>3, <2>2 DEF CloseRuns, OnceEnter
    <3>. QED  BY <2>2, <3>1
  <2>. QED  BY <1>3, <2>1, <2>2 DEF OnceEnter
<1>4. CASE CloseRuns(c) /\ PoolClosed(c)
  BY <1>4 DEF CloseRuns, PoolClosed
<1>5. CASE CloseRuns(c) /\ Watched(c)
  <2>1. /\ closer[c] = "watching" /\ UNCHANGED <<lock, query, init, reload, stop, ready, pool, once, closed>>
        /\ \/ closed > 0 /\ closer' = [closer EXCEPT ![c] = "nil"]
           \/ closer' = [closer EXCEPT ![c] = "err"]
    BY <1>5 DEF CloseRuns, Watched
  <2>2. CASE closed > 0 /\ closer' = [closer EXCEPT ![c] = "nil"]
    BY <2>1, <2>2
  <2>3. CASE closer' = [closer EXCEPT ![c] = "err"]
    BY <2>1, <2>3
  <2>. QED  BY <2>1, <2>2, <2>3
<1>. QED  BY <1>1, <1>2, <1>3, <1>4, <1>5 DEF CloseRuns

LEMMA EngineInvStop ==
  ASSUME EngineInv, Stop \/ StopRuns
  PROVE  EngineInv'
<1>. USE WritersAssumption DEF WritersAssumption, EngineInv, EngineTypes, Excluded, Phases, PoolOnce, StopCloses,
         Initializing, StopHolds, lock, conn, Unlock
<1>. "stop" \in Closers
  BY DEF Closers
<1>1. CASE Stop
  BY <1>1 DEF Stop, Asks
<1>2. CASE StopParts
  BY <1>2 DEF StopParts, Lock, Running
<1>3. CASE StopConnection
  <2>1. stop = "triggers" /\ stop' = "closing" /\ UNCHANGED <<lock, query, init, reload, ready>>
    BY <1>3 DEF StopConnection
  <2>2. CASE pool = "none"
    BY <1>3, <2>1, <2>2 DEF StopConnection
  <2>3. CASE pool # "none"
    <3>1. /\ closer["stop"] = "idle" /\ UNCHANGED <<pool, once, closed>>
          /\ \E to \in {"waiting", "watching"} : closer' = [closer EXCEPT !["stop"] = to]
      BY <1>3, <2>3 DEF StopConnection, CloseBegins, Moves
    <3>. QED  BY <2>1, <2>3, <3>1
  <2>. QED  BY <2>2, <2>3
<1>4. CASE StopReturns
  BY <1>4 DEF StopReturns
<1>. QED  BY <1>1, <1>2, <1>3, <1>4 DEF StopRuns

LEMMA EngineInvAlways == EngineSpec => []EngineInv
<1>1. EngineInv /\ [EngineNext]_enginevars => EngineInv'
  <2>1. EngineInv /\ UNCHANGED enginevars => EngineInv'
    BY DEF enginevars, lock, conn, EngineInv, EngineTypes, Excluded, Phases, PoolOnce, StopCloses, Initializing,
           StopHolds
  <2>. QED  BY <2>1, EngineInvOthers, EngineInvInitialize, EngineInvQuery, EngineInvReload, EngineInvClose, EngineInvStop DEF EngineNext
<1>. QED  BY <1>1, EngineInvInit, PTL DEF EngineSpec

-----------------------------------------------------------------------------
(* EngineLifecycle: what follows *)

\* A query in progress sees an engine that is ready, that Stop has not begun to take
\* apart and whose schema no Reload is about to replace: e.mu keeps both away from all
\* queries.
THEOREM QueriesExclude == EngineSpec => []QueriesSeeEngine
<1>1. EngineInv => QueriesSeeEngine
  BY WritersAssumption DEF WritersAssumption, EngineInv, Excluded, Phases, StopHolds, Running, QueriesSeeEngine
<1>. QED  BY <1>1, EngineInvAlways, PTL

\* However the three ways to close the connection overlap and whenever the context of
\* the shutdown ends, nil is answered after the pool was closed, and Stop leaves none.
THEOREM NilIsTrue == EngineSpec => []NilMeansClosed
<1>1. EngineInv => NilMeansClosed
  BY DEF EngineInv, PoolOnce, StopCloses, NilMeansClosed, Closers
<1>. QED  BY <1>1, EngineInvAlways, PTL

\* close(c.closed) runs once: a second time it would panic.
THEOREM ChannelClosedOnce == EngineSpec => [](closed <= 1)
<1>1. EngineInv => closed <= 1
  BY DEF EngineInv, PoolOnce
<1>. QED  BY <1>1, EngineInvAlways, PTL
=============================================================================
