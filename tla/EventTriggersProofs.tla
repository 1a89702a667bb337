------------------------ MODULE EventTriggersProofs ------------------------
(* Theorems about EventTriggers, for every number of processes, events,       *)
(* triggers, workers and queue slots and every bound on faults and crashes.   *)
(* First the types; then the copies of an event and its row; what becomes of  *)
(* it; that no row is stranded; and that EventDelivery is implemented.        *)
EXTENDS EventTriggers, SequenceTheorems, TLAPS

-----------------------------------------------------------------------------
(* Type correctness *)

LEMMA RowCopiesAreCopies == RowCopies \subseteq Copies
  BY DEF RowCopies, Copies, Ids

LEMMA TypeInit == Init => TypeOK
<1>. SUFFICES ASSUME Init PROVE TypeOK
  OBVIOUS
<1>1. << >> \in Seq(Copies)
  BY EmptySeq
<1>2. queue \in [Instances -> Seq(Copies)]
  BY <1>1 DEF Init
<1>3. /\ status \in [Events -> Statuses]
      /\ retries \in [Events -> Nat]
      /\ error \in [Events -> Reasons]
  BY DEF Init, Statuses, Reasons
<1>4. faults \in 0..MaxFaults /\ exits \in 0..MaxExits /\ redelivers \in 0..MaxRedeliver
  <2>1. faults = 0 /\ exits = 0 /\ redelivers = 0
    BY DEF Init
  <2>. QED  BY <2>1, ConstantsAssumption DEF ConstantsAssumption
<1>. QED  BY <1>2, <1>3, <1>4 DEF Init, TypeOK

LEMMA TypeProcess ==
  ASSUME TypeOK, NEW i \in Instances, Process(i)
  PROVE  TypeOK'
<1>. USE ConstantsAssumption DEF ConstantsAssumption, TypeOK, db, table, polling, working,
         manual, history, counts
<1>1. CASE Create(i)
  BY <1>1 DEF Create
<1>2. CASE Start(i)
  BY <1>2 DEF Start
<1>3. CASE Stop(i)
  BY <1>3 DEF Stop
<1>4. CASE PollerReturn(i)
  BY <1>4 DEF PollerReturn
<1>5. CASE ProcessorReturn(i)
  BY <1>5 DEF ProcessorReturn
<1>6. CASE Exit(i)
  <2>1. << >> \in Seq(Copies)
    BY EmptySeq
  <2>2. queue' \in [Instances -> Seq(Copies)]
    BY <1>6, <2>1 DEF Exit
  <2>. QED  BY <1>6, <2>2 DEF Exit
<1>. QED  BY <1>1, <1>2, <1>3, <1>4, <1>5, <1>6 DEF Process

LEMMA TypePoller ==
  ASSUME TypeOK, NEW i \in Instances, Poller(i) \/ SelectEnds(i)
  PROVE  TypeOK'
<1>. USE ConstantsAssumption DEF ConstantsAssumption, TypeOK, db, table, polling, working,
         manual, history, counts, Works, Fails
<1>1. CASE Fetch(i)
  <2>1. ASSUME NEW e \in Oldest(Eligible)
        PROVE  [id |-> e, retry |-> retries[e]] \in RowCopies
    BY <2>1 DEF Oldest, Eligible, RowCopies
  <2>2. batch' \in [Instances -> SUBSET RowCopies]
    BY <1>1, <2>1 DEF Fetch
  <2>. QED  BY <1>1, <2>2 DEF Fetch
<1>2. CASE Claim(i)
  <2>1. PICK c \in NextRow(i) :
          /\ \/ /\ Works
                /\ SetStatus(c.id, "processing")
                /\ dirty' = IF AsRead(c) THEN dirty ELSE dirty \cup {c.id}
             \/ /\ Fails
                /\ UNCHANGED status
                /\ dirty' = dirty \cup {c.id}
          /\ batch' = [batch EXCEPT ![i] = @ \ {c}]
          /\ claim' = [claim EXCEPT ![i] = {c}]
    BY <1>2 DEF Claim
  <2>2. c \in RowCopies /\ c.id \in Events
    BY DEF NextRow, RowCopies
  <2>3. status' \in [Events -> Statuses] /\ dirty' \subseteq Events
    BY <2>1, <2>2 DEF SetStatus, Statuses
  <2>4. batch' \in [Instances -> SUBSET RowCopies] /\ claim' \in [Instances -> SUBSET RowCopies]
    BY <2>1, <2>2
  <2>5. faults' \in 0..MaxFaults
    BY <2>1
  <2>. QED  BY <1>2, <2>3, <2>4, <2>5 DEF Claim
<1>3. CASE Enqueue(i)
  <2>1. PICK c \in claim[i] : queue' = [queue EXCEPT ![i] = Append(@, c)]
    BY <1>3 DEF Enqueue
  <2>2. c \in Copies
    BY RowCopiesAreCopies
  <2>3. Append(queue[i], c) \in Seq(Copies)
    <3>1. queue[i] \in Seq(Copies)
      OBVIOUS
    <3>. QED  BY <2>2, <3>1, AppendProperties
  <2>4. queue' \in [Instances -> Seq(Copies)]
    BY <2>1, <2>3
  <2>. QED  BY <1>3, <2>4 DEF Enqueue
<1>4. CASE QueueFull(i)
  BY <1>4 DEF QueueFull
<1>5. CASE Release(i)
  <2>1. status' \in [Events -> Statuses]
    BY <1>5 DEF Release, SetStatus, Statuses, RowCopies
  <2>. QED  BY <1>5, <2>1 DEF Release
<1>6. CASE FetchEnds(i)
  BY <1>6 DEF FetchEnds
<1>7. CASE SelectEnds(i)
  BY <1>7 DEF SelectEnds
<1>. QED  BY <1>1, <1>2, <1>3, <1>4, <1>5, <1>6, <1>7 DEF Poller

LEMMA TypeWorking ==
  ASSUME TypeOK, NEW i \in Instances,
         Processor(i) \/ \E j \in jobs[i] : Worker(i, j)
  PROVE  TypeOK'
<1>. USE ConstantsAssumption DEF ConstantsAssumption, TypeOK, db, table, polling, working,
         manual, history, counts, Works, Fails
<1>1. CASE Take(i)
  <2>1. queue[i] \in Seq(Copies) /\ queue[i] # << >>
    BY <1>1 DEF Take
  <2>2. Head(queue[i]) \in Copies /\ Tail(queue[i]) \in Seq(Copies)
    BY <2>1, HeadTailProperties
  <2>3. queue' \in [Instances -> Seq(Copies)] /\ held' \in [Instances -> SUBSET Copies]
    BY <1>1, <2>2 DEF Take
  <2>. QED  BY <1>1, <2>3 DEF Take
<1>2. CASE StartJob(i)
  <2>1. PICK c \in held[i], s \in Idle(i) :
          jobs' = [jobs EXCEPT ![i] =
                     @ \cup {[slot |-> s, copy |-> c, pc |-> "lookup"]}]
    BY <1>2 DEF StartJob
  <2>2. [slot |-> s, copy |-> c, pc |-> "lookup"] \in Jobs
    BY DEF Jobs, Idle
  <2>. QED  BY <1>2, <2>1, <2>2 DEF StartJob
<1>3. ASSUME NEW j \in jobs[i], Worker(i, j) PROVE TypeOK'
  <2>1. j \in Jobs /\ j.copy \in Copies /\ j.copy.id \in Ids
    BY DEF Jobs, Copies
  <2>2. ASSUME NEW pc \in {"lookup", "missing", "post", "bad", "ok", "giveup", "retry"},
               Advance(i, j, pc)
        PROVE  jobs' \in [Instances -> SUBSET Jobs]
    <3>1. [slot |-> j.slot, copy |-> j.copy, pc |-> pc] \in Jobs
      BY <2>1 DEF Jobs
    <3>. QED  BY <2>2, <3>1 DEF Advance
  <2>3. CASE Lookup(i, j)
    <3>1. jobs' \in [Instances -> SUBSET Jobs]
      BY <2>2, <2>3 DEF Lookup
    <3>. QED  BY <2>3, <3>1 DEF Lookup
  <2>4. CASE Post(i, j)
    <3>1. jobs' \in [Instances -> SUBSET Jobs]
      BY <2>2, <2>4 DEF Post, AfterFailure
    <3>2. posts' \in [Ids -> Nat] /\ acked' \subseteq Ids
      BY <2>1, <2>4 DEF Post
    <3>. QED  BY <2>4, <3>1, <3>2 DEF Post
  <2>5. CASE Mark(i, j)
    <3>1. jobs' \in [Instances -> SUBSET Jobs]
      BY <2>5 DEF Mark
    <3>2. NewStatus(j.pc) \in Statuses /\ NewError(j.pc) \in Reasons
      BY DEF NewStatus, NewError, Statuses, Reasons
    <3>3. /\ status' \in [Events -> Statuses]
          /\ retries' \in [Events -> Nat]
          /\ error' \in [Events -> Reasons]
      <4>1. CASE UNCHANGED table
        BY <4>1
      <4>2. CASE j.copy.id \in Events /\ Record(j.copy.id, j.pc)
        <5>1. status' = [status EXCEPT ![j.copy.id] = NewStatus(j.pc)]
          BY <4>2 DEF Record, SetStatus
        <5>2. \/ retries' = retries
              \/ retries' = [retries EXCEPT ![j.copy.id] = @ + 1]
          BY <4>2 DEF Record
        <5>3. \/ error' = error
              \/ error' = [error EXCEPT ![j.copy.id] = NewError(j.pc)]
          BY <4>2 DEF Record
        <5>4. retries' \in [Events -> Nat]
          BY <5>2
        <5>5. status' \in [Events -> Statuses]
          BY <3>2, <5>1
        <5>6. error' \in [Events -> Reasons]
          BY <3>2, <5>3
        <5>. QED  BY <5>4, <5>5, <5>6
      <4>. QED  BY <2>5, <4>1, <4>2 DEF Mark
    <3>. QED  BY <2>5, <3>1, <3>3 DEF Mark
  <2>. QED  BY <1>3, <2>3, <2>4, <2>5 DEF Worker
<1>. QED  BY <1>1, <1>2, <1>3 DEF Processor

LEMMA TypeCalls ==
  ASSUME TypeOK,
         \/ \E i \in Instances, t \in Triggers : Register(i, t) \/ Unregister(i, t)
         \/ \E i \in Instances, m \in Manual : Invoke(i, m) \/ SendManual(i, m)
         \/ \E e \in Events : Capture(e) \/ Redeliver(e)
  PROVE  TypeOK'
<1>. USE ConstantsAssumption DEF ConstantsAssumption, TypeOK, db, table, polling, working,
         manual, history, counts, Works, Fails
<1>1. ASSUME NEW i \in Instances, NEW t \in Triggers, Register(i, t) \/ Unregister(i, t)
      PROVE  TypeOK'
  <2>1. CASE Register(i, t)
    BY <2>1 DEF Register
  <2>2. CASE Unregister(i, t)
    BY <2>2 DEF Unregister
  <2>. QED  BY <1>1, <2>1, <2>2
<1>2. ASSUME NEW i \in Instances, NEW m \in Manual, Invoke(i, m) PROVE TypeOK'
  BY <1>2 DEF Invoke
<1>3. ASSUME NEW i \in Instances, NEW m \in Manual, SendManual(i, m) PROVE TypeOK'
  <2>1. [id |-> m, retry |-> 0] \in Copies /\ queue[i] \in Seq(Copies)
    BY DEF Copies, Ids
  <2>2. Append(queue[i], [id |-> m, retry |-> 0]) \in Seq(Copies)
    BY <2>1, AppendProperties
  <2>3. queue' \in [Instances -> Seq(Copies)]
    BY <1>3, <2>2 DEF SendManual
  <2>. QED  BY <1>3, <2>3 DEF SendManual
<1>4. ASSUME NEW e \in Events, Capture(e) PROVE TypeOK'
  BY <1>4 DEF Capture, SetStatus, Statuses
<1>5. ASSUME NEW e \in Events, Redeliver(e) PROVE TypeOK'
  BY <1>5 DEF Redeliver, SetStatus, Statuses, Ids
<1>. QED  BY <1>1, <1>2, <1>3, <1>4, <1>5

\* Type correctness: every operation leaves every variable of each process and of
\* the table in its type, whatever the constants are.
THEOREM TypeCorrect == Spec => []TypeOK
<1>1. TypeOK /\ [Next]_vars => TypeOK'
  <2>1. TypeOK /\ UNCHANGED vars => TypeOK'
    BY DEF TypeOK, vars, db, table, polling, working, manual, history, counts
  <2>. QED  BY <2>1, TypeProcess, TypePoller, TypeWorking, TypeCalls DEF Next
<1>. QED  BY <1>1, TypeInit, PTL DEF Spec

-----------------------------------------------------------------------------
(* One copy per event.  The properties quantify over places; a step that moves *)
(* a copy maps the places of the new state to those of the old one.            *)

\* Workers hold different tokens, and the channel is no longer than its capacity:
\* no copy is where Places does not look.
TokensHeldOnce == \A i \in Instances : \A j, k \in jobs[i] : j.slot = k.slot => j = k
QueueFits == \A i \in Instances : Len(queue[i]) <= QueueCap

Inv == TypeOK /\ TokensHeldOnce /\ QueueFits /\ CopyOwnsRow /\ SingleCopy

ClaimOf(i) == [kind |-> "claim", inst |-> i, n |-> 0]
HeldOf(i) == [kind |-> "held", inst |-> i, n |-> 0]
QueueOf(i, n) == [kind |-> "queue", inst |-> i, n |-> n]
JobOf(i, n) == [kind |-> "job", inst |-> i, n |-> n]

LEMMA PlaceCases ==
  ASSUME NEW p \in Places
  PROVE  \/ \E i \in Instances : p = ClaimOf(i)
         \/ \E i \in Instances : p = HeldOf(i)
         \/ \E i \in Instances, n \in 1..QueueCap : p = QueueOf(i, n)
         \/ \E i \in Instances, n \in 1..PoolSize : p = JobOf(i, n)
<1>. USE DEF ClaimOf, HeldOf, QueueOf, JobOf
<1>1. CASE p \in [kind : {"claim", "held"}, inst : Instances, n : {0}]
  BY <1>1
<1>2. CASE p \in [kind : {"queue"}, inst : Instances, n : 1..QueueCap]
  BY <1>2
<1>3. CASE p \in [kind : {"job"}, inst : Instances, n : 1..PoolSize]
  BY <1>3
<1>. QED  BY <1>1, <1>2, <1>3 DEF Places

LEMMA PlacesAre ==
  ASSUME NEW i \in Instances
  PROVE  /\ ClaimOf(i) \in Places /\ HeldOf(i) \in Places
         /\ \A n \in 1..QueueCap : QueueOf(i, n) \in Places
         /\ \A n \in 1..PoolSize : JobOf(i, n) \in Places
  BY DEF ClaimOf, HeldOf, QueueOf, JobOf, Places

\* What is at a place, before and after a step.
LEMMA AtPlace ==
  ASSUME NEW i \in Instances
  PROVE  /\ At(ClaimOf(i)) = claim[i]
         /\ At(HeldOf(i)) = held[i]
         /\ \A n, c : c \in At(QueueOf(i, n)) <=> n \in DOMAIN queue[i] /\ c = queue[i][n]
         /\ \A n, c : c \in At(JobOf(i, n)) <=> \E j \in jobs[i] : j.slot = n /\ j.copy = c
<1>1. /\ At(ClaimOf(i)) = claim[i]
      /\ At(HeldOf(i)) = held[i]
      /\ \A n : At(QueueOf(i, n)) = {queue[i][k] : k \in {n} \cap DOMAIN queue[i]}
      /\ \A n : At(JobOf(i, n)) = {j.copy : j \in {k \in jobs[i] : k.slot = n}}
  BY DEF At, ClaimOf, HeldOf, QueueOf, JobOf
<1>. QED  BY <1>1

LEMMA AtPlaceNext ==
  ASSUME NEW i \in Instances
  PROVE  /\ At(ClaimOf(i))' = claim'[i]
         /\ At(HeldOf(i))' = held'[i]
         /\ \A n, c : c \in At(QueueOf(i, n))' <=> n \in DOMAIN queue'[i] /\ c = queue'[i][n]
         /\ \A n, c : c \in At(JobOf(i, n))' <=> \E j \in jobs'[i] : j.slot = n /\ j.copy = c
<1>1. /\ At(ClaimOf(i))' = claim'[i]
      /\ At(HeldOf(i))' = held'[i]
      /\ \A n : At(QueueOf(i, n))' = {queue'[i][k] : k \in {n} \cap DOMAIN queue'[i]}
      /\ \A n : At(JobOf(i, n))' = {j.copy : j \in {k \in jobs'[i] : k.slot = n}}
  BY DEF At, ClaimOf, HeldOf, QueueOf, JobOf
<1>. QED  BY <1>1

\* A step keeps both properties if every copy it leaves was there before, in a
\* place that no other copy comes from, and the copy's row is what it was.
LEMMA Carry ==
  ASSUME CopyOwnsRow, SingleCopy, dirty \subseteq dirty',
         NEW f \in [Places -> Places],
         \A p \in Places : \A c \in At(p)' : c.id \in Clean' =>
           /\ c \in At(f[p])
           /\ status'[c.id] = status[c.id] /\ retries'[c.id] = retries[c.id],
         \A p, q \in Places : f[p] = f[q] /\ At(p)' # {} /\ At(q)' # {} => p = q
  PROVE  CopyOwnsRow' /\ SingleCopy'
<1>0. ASSUME NEW e \in Clean' PROVE e \in Clean
  BY <1>0 DEF Clean
<1>1. ASSUME NEW p \in Places, NEW c \in At(p)', c.id \in Clean'
      PROVE  status'[c.id] = "processing" /\ retries'[c.id] = c.retry
  <2>1. c \in At(f[p]) /\ f[p] \in Places /\ c.id \in Clean
    BY <1>0, <1>1
  <2>. QED  BY <1>1, <2>1 DEF CopyOwnsRow
<1>2. ASSUME NEW p \in Places, NEW q \in Places, NEW c \in At(p)', NEW d \in At(q)',
             c.id = d.id, c.id \in Clean'
      PROVE  p = q /\ c = d
  <2>1. /\ c \in At(f[p]) /\ f[p] \in Places /\ c.id \in Clean
        /\ d \in At(f[q]) /\ f[q] \in Places
    BY <1>0, <1>2
  <2>2. f[p] = f[q] /\ c = d
    BY <1>2, <2>1 DEF SingleCopy
  <2>. QED  BY <1>2, <2>2
<1>3. CopyOwnsRow'
  BY <1>1 DEF CopyOwnsRow
<1>4. SingleCopy'
  BY <1>2 DEF SingleCopy
<1>. QED  BY <1>3, <1>4

\* The case in which nothing moves.
LEMMA CarryInPlace ==
  ASSUME CopyOwnsRow, SingleCopy, dirty \subseteq dirty',
         \A p \in Places : \A c \in At(p)' : c.id \in Clean' =>
           /\ c \in At(p)
           /\ status'[c.id] = status[c.id] /\ retries'[c.id] = retries[c.id]
  PROVE  CopyOwnsRow' /\ SingleCopy'
<1>. DEFINE f == [p \in Places |-> p]
<1>1. f \in [Places -> Places] /\ \A p \in Places : f[p] = p
  OBVIOUS
<1>. HIDE DEF f
<1>. QED  BY <1>1, Carry

\* Where the copies are and what the invariant says of rows depends on nothing else.
places == <<claim, held, queue, jobs>>

LEMMA AtUnchanged ==
  ASSUME UNCHANGED places, NEW p \in Places
  PROVE  At(p)' = At(p)
  BY DEF places, At

LEMMA InvStill ==
  ASSUME Inv, TypeOK', UNCHANGED places, dirty \subseteq dirty',
         \A p \in Places : \A c \in At(p) : c.id \in Clean =>
           status'[c.id] = status[c.id] /\ retries'[c.id] = retries[c.id]
  PROVE  Inv'
<1>1. TokensHeldOnce' /\ QueueFits'
  BY DEF Inv, places, TokensHeldOnce, QueueFits
<1>2. \A e \in Clean' : e \in Clean
  BY DEF Clean
<1>3. CopyOwnsRow' /\ SingleCopy'
  BY <1>2, AtUnchanged, CarryInPlace DEF Inv
<1>. QED  BY <1>1, <1>3 DEF Inv

\* A copy on its way is of a row in "processing", so a step that touches another
\* row only does not matter to it.
LEMMA InvOtherRow ==
  ASSUME Inv, TypeOK', UNCHANGED places, dirty \subseteq dirty',
         NEW e \in Events, status[e] # "processing",
         \A x \in Events \ {e} : status'[x] = status[x] /\ retries'[x] = retries[x]
  PROVE  Inv'
<1>1. ASSUME NEW p \in Places, NEW c \in At(p), c.id \in Clean
      PROVE  status'[c.id] = status[c.id] /\ retries'[c.id] = retries[c.id]
  <2>1. status[c.id] = "processing" /\ c.id \in Events
    BY <1>1 DEF Inv, CopyOwnsRow, Clean
  <2>. QED  BY <2>1
<1>. QED  BY <1>1, InvStill

LEMMA InvProcess ==
  ASSUME Inv, NEW i \in Instances, Process(i)
  PROVE  Inv'
<1>1. TypeOK'
  BY TypeProcess DEF Inv
<1>. USE DEF db, table, polling, working, manual, history, counts
<1>2. CASE Create(i) \/ Start(i) \/ Stop(i) \/ PollerReturn(i) \/ ProcessorReturn(i)
  <2>1. UNCHANGED <<places, dirty, status, retries>>
    BY <1>2 DEF Create, Start, Stop, PollerReturn, ProcessorReturn, places
  <2>. QED  BY <1>1, <2>1, InvStill
<1>3. CASE Exit(i)
  <2>1. /\ claim' = [claim EXCEPT ![i] = {}] /\ held' = [held EXCEPT ![i] = {}]
        /\ queue' = [queue EXCEPT ![i] = << >>] /\ jobs' = [jobs EXCEPT ![i] = {}]
        /\ dirty' = dirty /\ status' = status /\ retries' = retries
    BY <1>3 DEF Exit
  <2>2. /\ claim \in [Instances -> SUBSET RowCopies] /\ held \in [Instances -> SUBSET Copies]
        /\ queue \in [Instances -> Seq(Copies)] /\ jobs \in [Instances -> SUBSET Jobs]
    BY DEF Inv, TypeOK
  <2>3. \A p \in Places : At(p)' \subseteq At(p)
    <3>. SUFFICES ASSUME NEW p \in Places PROVE At(p)' \subseteq At(p)
      OBVIOUS
    <3>1. ASSUME NEW k \in Instances
          PROVE  /\ claim'[k] \subseteq claim[k] /\ held'[k] \subseteq held[k]
                 /\ jobs'[k] \subseteq jobs[k]
                 /\ DOMAIN queue'[k] = {} \/ queue'[k] = queue[k]
      BY <2>1, <2>2
    <3>2. ASSUME NEW k \in Instances, p = ClaimOf(k) PROVE At(p)' \subseteq At(p)
      BY <3>1, <3>2, AtPlace, AtPlaceNext
    <3>3. ASSUME NEW k \in Instances, p = HeldOf(k) PROVE At(p)' \subseteq At(p)
      BY <3>1, <3>3, AtPlace, AtPlaceNext
    <3>4. ASSUME NEW k \in Instances, NEW n \in 1..QueueCap, p = QueueOf(k, n)
          PROVE  At(p)' \subseteq At(p)
      BY <3>1, <3>4, AtPlace, AtPlaceNext
    <3>5. ASSUME NEW k \in Instances, NEW n \in 1..PoolSize, p = JobOf(k, n)
          PROVE  At(p)' \subseteq At(p)
      BY <3>1, <3>5, AtPlace, AtPlaceNext
    <3>. QED  BY <3>2, <3>3, <3>4, <3>5, PlaceCases
  <2>4. TokensHeldOnce'
    BY <2>1, <2>2 DEF Inv, TokensHeldOnce
  <2>5. QueueFits'
    <3>1. Len(<< >>) <= QueueCap
      BY ConstantsAssumption DEF ConstantsAssumption
    <3>. QED  BY <2>1, <2>2, <3>1 DEF Inv, QueueFits
  <2>6. CopyOwnsRow' /\ SingleCopy'
    BY <2>1, <2>3, CarryInPlace DEF Inv
  <2>. QED  BY <1>1, <2>4, <2>5, <2>6 DEF Inv
<1>. QED  BY <1>2, <1>3 DEF Process

LEMMA InvCalls ==
  ASSUME Inv, TypeOK',
         \/ \E i \in Instances, t \in Triggers : Register(i, t) \/ Unregister(i, t)
         \/ \E i \in Instances, m \in Manual : Invoke(i, m)
         \/ \E e \in Events : Capture(e) \/ Redeliver(e)
  PROVE  Inv'
<1>. USE DEF db, table, polling, working, manual, history, counts
<1>1. CASE \/ \E i \in Instances, t \in Triggers : Register(i, t) \/ Unregister(i, t)
           \/ \E i \in Instances, m \in Manual : Invoke(i, m)
  <2>1. UNCHANGED <<places, dirty, status, retries>>
    BY <1>1 DEF Register, Unregister, Invoke, places
  <2>. QED  BY <2>1, InvStill
<1>2. ASSUME NEW e \in Events, Capture(e) \/ Redeliver(e) PROVE Inv'
  <2>1. /\ UNCHANGED <<places, dirty>> /\ status[e] # "processing"
        /\ status' = [status EXCEPT ![e] = "pending"]
        /\ retries' = retries \/ retries' = [retries EXCEPT ![e] = 0]
    BY <1>2 DEF Capture, Redeliver, SetStatus, places
  <2>2. status \in [Events -> Statuses] /\ retries \in [Events -> Nat]
    BY DEF Inv, TypeOK
  <2>3. \A x \in Events \ {e} : status'[x] = status[x] /\ retries'[x] = retries[x]
    BY <2>1, <2>2
  <2>. QED  BY <2>1, <2>3, InvOtherRow
<1>. QED  BY <1>1, <1>2

LEMMA InvClaim ==
  ASSUME Inv, TypeOK', NEW i \in Instances, Claim(i)
  PROVE  Inv'
<1>. USE DEF db, table, polling, working, manual, history, counts
<1>1. PICK c \in NextRow(i) :
        /\ \/ /\ SetStatus(c.id, "processing")
              /\ dirty' = IF AsRead(c) THEN dirty ELSE dirty \cup {c.id}
           \/ UNCHANGED status /\ dirty' = dirty \cup {c.id}
        /\ claim' = [claim EXCEPT ![i] = {c}]
        /\ retries' = retries
  BY DEF Claim
<1>2. UNCHANGED <<held, queue, jobs>>
  BY DEF Claim
<1>3. /\ claim \in [Instances -> SUBSET RowCopies] /\ status \in [Events -> Statuses]
      /\ c \in RowCopies /\ c.id \in Events
  BY DEF Inv, TypeOK, NextRow, RowCopies
<1>4. ASSUME NEW p \in Places, p # ClaimOf(i), NEW d \in At(p)' PROVE d \in At(p)
  <2>1. ASSUME NEW k \in Instances, p = ClaimOf(k) PROVE d \in At(p)
    BY <1>1, <1>3, <1>4, <2>1, AtPlace, AtPlaceNext
  <2>2. ASSUME NEW k \in Instances, p = HeldOf(k) PROVE d \in At(p)
    BY <1>2, <1>4, <2>2, AtPlace, AtPlaceNext
  <2>3. ASSUME NEW k \in Instances, NEW n \in 1..QueueCap, p = QueueOf(k, n)
        PROVE  d \in At(p)
    BY <1>2, <1>4, <2>3, AtPlace, AtPlaceNext
  <2>4. ASSUME NEW k \in Instances, NEW n \in 1..PoolSize, p = JobOf(k, n)
        PROVE  d \in At(p)
    BY <1>2, <1>4, <2>4, AtPlace, AtPlaceNext
  <2>. QED  BY <2>1, <2>2, <2>3, <2>4, PlaceCases
<1>5. At(ClaimOf(i))' = {c}
  BY <1>1, <1>3, AtPlaceNext
<1>6. \A e \in Clean' : e \in Clean
  BY <1>1 DEF Clean
\* If the event stays clean its claim took the row as it was read, so that no other
\* copy of it was there.
<1>7. ASSUME c.id \in Clean'
      PROVE  /\ status'[c.id] = "processing" /\ retries'[c.id] = c.retry
             /\ \A p \in Places : \A d \in At(p) : d.id # c.id
  <2>1. AsRead(c) /\ SetStatus(c.id, "processing")
    BY <1>1, <1>3, <1>7 DEF Clean
  <2>2. ASSUME NEW p \in Places, NEW d \in At(p), d.id = c.id PROVE FALSE
    <3>1. status[c.id] = "processing"
      BY <1>6, <1>7, <2>2 DEF Inv, CopyOwnsRow
    <3>. QED  BY <2>1, <3>1 DEF AsRead
  <2>. QED  BY <1>1, <1>3, <2>1, <2>2 DEF AsRead, SetStatus
<1>8. CopyOwnsRow'
  <2>1. ASSUME NEW p \in Places, NEW d \in At(p)', d.id \in Clean'
        PROVE  status'[d.id] = "processing" /\ retries'[d.id] = d.retry
    <3>1. CASE p = ClaimOf(i)
      BY <1>5, <1>7, <2>1, <3>1
    <3>2. CASE p # ClaimOf(i)
      <4>1. d \in At(p) /\ d.id \in Clean
        BY <1>4, <1>6, <2>1, <3>2
      <4>2. status[d.id] = "processing" /\ retries[d.id] = d.retry
        BY <4>1 DEF Inv, CopyOwnsRow
      <4>3. d.id # c.id \/ d.id = c.id
        OBVIOUS
      <4>4. CASE d.id = c.id
        BY <1>7, <2>1, <4>1, <4>4
      <4>5. CASE d.id # c.id
        BY <1>1, <1>3, <4>1, <4>2, <4>5 DEF SetStatus, Clean
      <4>. QED  BY <4>4, <4>5
    <3>. QED  BY <3>1, <3>2
  <2>. QED  BY <2>1 DEF CopyOwnsRow
<1>9. SingleCopy'
  <2>1. ASSUME NEW p \in Places, NEW q \in Places, NEW d \in At(p)', NEW e \in At(q)',
               d.id = e.id, d.id \in Clean'
        PROVE  p = q /\ d = e
    <3>1. CASE p = ClaimOf(i) /\ q = ClaimOf(i)
      BY <1>5, <2>1, <3>1
    <3>2. CASE p = ClaimOf(i) /\ q # ClaimOf(i)
      BY <1>4, <1>5, <1>7, <2>1, <3>2
    <3>3. CASE p # ClaimOf(i) /\ q = ClaimOf(i)
      BY <1>4, <1>5, <1>7, <2>1, <3>3
    <3>4. CASE p # ClaimOf(i) /\ q # ClaimOf(i)
      BY <1>4, <1>6, <2>1, <3>4 DEF Inv, SingleCopy
    <3>. QED  BY <3>1, <3>2, <3>3, <3>4
  <2>. QED  BY <2>1 DEF SingleCopy
<1>10. TokensHeldOnce' /\ QueueFits'
  BY <1>2 DEF Inv, TokensHeldOnce, QueueFits
<1>. QED  BY <1>8, <1>9, <1>10 DEF Inv

\* queue[i] grows by a copy: the other positions keep theirs.
LEMMA Appended ==
  ASSUME Inv, NEW i \in Instances, NEW c \in Copies,
         Len(queue[i]) < QueueCap, queue' = [queue EXCEPT ![i] = Append(@, c)]
  PROVE  /\ \A k \in Instances \ {i} : queue'[k] = queue[k]
         /\ Len(queue[i]) + 1 \in 1..QueueCap
         /\ Len(queue'[i]) = Len(queue[i]) + 1
         /\ DOMAIN queue'[i] = 1..(Len(queue[i]) + 1)
         /\ DOMAIN queue[i] = 1..Len(queue[i])
         /\ queue'[i][Len(queue[i]) + 1] = c
         /\ \A n \in 1..Len(queue[i]) : queue'[i][n] = queue[i][n]
<1>1. queue \in [Instances -> Seq(Copies)] /\ queue[i] \in Seq(Copies)
  BY DEF Inv, TypeOK
<1>2. queue'[i] = Append(queue[i], c) /\ \A k \in Instances \ {i} : queue'[k] = queue[k]
  BY <1>1
<1>3. /\ Append(queue[i], c) \in Seq(Copies)
      /\ Len(Append(queue[i], c)) = Len(queue[i]) + 1
      /\ \A n \in 1..Len(queue[i]) : Append(queue[i], c)[n] = queue[i][n]
      /\ Append(queue[i], c)[Len(queue[i]) + 1] = c
  BY <1>1, AppendProperties
<1>4. Len(queue[i]) \in Nat /\ QueueCap \in Nat
  BY <1>1, LenProperties, ConstantsAssumption DEF ConstantsAssumption
<1>5. DOMAIN queue'[i] = 1..(Len(queue[i]) + 1) /\ DOMAIN queue[i] = 1..Len(queue[i])
  BY <1>1, <1>2, <1>3, LenProperties
<1>. QED  BY <1>2, <1>3, <1>4, <1>5

LEMMA AtAppended ==
  ASSUME Inv, NEW i \in Instances, NEW c \in Copies,
         Len(queue[i]) < QueueCap, queue' = [queue EXCEPT ![i] = Append(@, c)],
         \A k \in Instances : claim'[k] \subseteq claim[k],
         UNCHANGED <<held, jobs>>,
         NEW p \in Places, NEW d, d \in At(p)'
  PROVE  d \in At(p) \/ (d = c /\ p = QueueOf(i, Len(queue[i]) + 1))
<1>1. queue[i] \in Seq(Copies) /\ Len(queue[i]) \in Nat
  <2>1. queue[i] \in Seq(Copies)
    BY DEF Inv, TypeOK
  <2>. QED  BY <2>1, LenProperties
<1>2. /\ \A k \in Instances \ {i} : queue'[k] = queue[k]
      /\ DOMAIN queue'[i] = 1..(Len(queue[i]) + 1) /\ DOMAIN queue[i] = 1..Len(queue[i])
      /\ queue'[i][Len(queue[i]) + 1] = c
      /\ \A n \in 1..Len(queue[i]) : queue'[i][n] = queue[i][n]
  BY Appended
<1>3. ASSUME NEW k \in Instances, p = ClaimOf(k) PROVE d \in At(p)
  BY <1>3, AtPlace, AtPlaceNext
<1>4. ASSUME NEW k \in Instances, p = HeldOf(k) PROVE d \in At(p)
  BY <1>4, AtPlace, AtPlaceNext
<1>5. ASSUME NEW k \in Instances, NEW n \in 1..QueueCap, p = QueueOf(k, n)
      PROVE  d \in At(p) \/ (d = c /\ p = QueueOf(i, Len(queue[i]) + 1))
  <2>1. n \in DOMAIN queue'[k] /\ d = queue'[k][n]
    BY <1>5, AtPlaceNext
  <2>2. CASE k # i
    BY <1>2, <1>5, <2>1, <2>2, AtPlace
  <2>3. CASE k = i /\ n = Len(queue[i]) + 1
    BY <1>2, <1>5, <2>1, <2>3
  <2>4. CASE k = i /\ n # Len(queue[i]) + 1
    <3>1. n \in 1..(Len(queue[i]) + 1)
      BY <1>2, <2>1, <2>4
    <3>2. n \in 1..Len(queue[i])
      BY <1>1, <2>4, <3>1
    <3>3. n \in DOMAIN queue[i] /\ d = queue[i][n]
      BY <1>2, <2>1, <2>4, <3>2
    <3>. QED  BY <1>5, <2>4, <3>3, AtPlace
  <2>. QED  BY <2>2, <2>3, <2>4
<1>6. ASSUME NEW k \in Instances, NEW n \in 1..PoolSize, p = JobOf(k, n) PROVE d \in At(p)
  BY <1>6, AtPlace, AtPlaceNext
<1>. QED  BY <1>3, <1>4, <1>5, <1>6, PlaceCases

LEMMA FitsAppended ==
  ASSUME Inv, NEW i \in Instances, NEW c \in Copies,
         Len(queue[i]) < QueueCap, queue' = [queue EXCEPT ![i] = Append(@, c)]
  PROVE  QueueFits'
<1>1. ASSUME NEW k \in Instances PROVE Len(queue'[k]) <= QueueCap
  <2>1. CASE k = i
    <3>1. Len(queue'[i]) \in 1..QueueCap
      BY Appended
    <3>. QED  BY <2>1, <3>1
  <2>2. CASE k # i
    BY <2>2, Appended DEF Inv, QueueFits
  <2>. QED  BY <2>1, <2>2
<1>. QED  BY <1>1 DEF QueueFits

LEMMA InvEnqueue ==
  ASSUME Inv, TypeOK', NEW i \in Instances, Enqueue(i)
  PROVE  Inv'
<1>. USE DEF db, table, polling, working, manual, history, counts
<1>1. PICK c \in claim[i] : queue' = [queue EXCEPT ![i] = Append(@, c)]
  BY DEF Enqueue
<1>2. /\ Len(queue[i]) < QueueCap /\ claim' = [claim EXCEPT ![i] = {}]
      /\ UNCHANGED <<held, jobs, status, retries, dirty>>
  BY DEF Enqueue
<1>3. /\ claim \in [Instances -> SUBSET RowCopies] /\ queue \in [Instances -> Seq(Copies)]
      /\ c \in Copies
  BY RowCopiesAreCopies DEF Inv, TypeOK
<1>4. PICK n \in 1..QueueCap : n = Len(queue[i]) + 1
  BY <1>1, <1>2, <1>3, Appended
<1>. DEFINE last == QueueOf(i, n)
            f == [p \in Places |-> IF p = last THEN ClaimOf(i) ELSE p]
<1>5. /\ f \in [Places -> Places]
      /\ \A p \in Places : f[p] = IF p = last THEN ClaimOf(i) ELSE p
      /\ last # ClaimOf(i)
  BY PlacesAre DEF QueueOf, ClaimOf
<1>6. \A p \in Places : \A d \in At(p)' : d \in At(p) \/ (d = c /\ p = last)
  <2>1. \A k \in Instances : claim'[k] \subseteq claim[k]
    BY <1>2, <1>3
  <2>. QED  BY <1>1, <1>2, <1>3, <1>4, <2>1, AtAppended
<1>7. c \in At(ClaimOf(i)) /\ At(ClaimOf(i))' = {} /\ At(last) = {}
  <2>1. n \notin DOMAIN queue[i]
    <3>1. Len(queue[i]) \in Nat
      BY <1>3, LenProperties
    <3>. QED  BY <1>1, <1>2, <1>3, <1>4, <3>1, Appended
  <2>. QED  BY <1>2, <1>3, <2>1, AtPlace, AtPlaceNext
<1>. HIDE DEF f, last
<1>8. \A p \in Places : \A d \in At(p)' : d \in At(f[p])
  BY <1>5, <1>6, <1>7
<1>9. \A p, q \in Places : f[p] = f[q] /\ At(p)' # {} /\ At(q)' # {} => p = q
  BY <1>5, <1>7
<1>10. CopyOwnsRow' /\ SingleCopy'
  <2>1. dirty \subseteq dirty' /\ CopyOwnsRow /\ SingleCopy
    BY <1>2 DEF Inv
  <2>2. \A p \in Places : \A d \in At(p)' : d.id \in Clean' =>
          /\ d \in At(f[p])
          /\ status'[d.id] = status[d.id] /\ retries'[d.id] = retries[d.id]
    BY <1>2, <1>8
  <2>. QED  BY <1>5, <1>9, <2>1, <2>2, Carry
<1>11. TokensHeldOnce' /\ QueueFits'
  BY <1>1, <1>2, <1>3, FitsAppended DEF Inv, TokensHeldOnce
<1>. QED  BY <1>10, <1>11 DEF Inv

\* A manual event has no row: it is none of the clean ones.
LEMMA InvSendManual ==
  ASSUME Inv, TypeOK', NEW i \in Instances, NEW m \in Manual, SendManual(i, m)
  PROVE  Inv'
<1>. USE DEF db, table, polling, working, manual, history, counts
<1>. DEFINE c == [id |-> m, retry |-> 0]
<1>1. /\ queue' = [queue EXCEPT ![i] = Append(@, c)] /\ Len(queue[i]) < QueueCap
      /\ UNCHANGED <<claim, held, jobs, status, retries, dirty>>
  BY DEF SendManual
<1>2. c \in Copies /\ c.id = m /\ m \notin Clean'
  BY ConstantsAssumption DEF ConstantsAssumption, Copies, Ids, Clean
<1>. HIDE DEF c
<1>3. \A p \in Places : \A d \in At(p)' : d.id \in Clean' => d \in At(p)
  <2>1. \A p \in Places : \A d \in At(p)' : d \in At(p) \/ d = c
    BY <1>1, <1>2, AtAppended
  <2>. QED  BY <1>2, <2>1
<1>4. CopyOwnsRow' /\ SingleCopy'
  BY <1>1, <1>3, CarryInPlace DEF Inv
<1>5. TokensHeldOnce' /\ QueueFits'
  BY <1>1, <1>2, FitsAppended DEF Inv, TokensHeldOnce
<1>. QED  BY <1>4, <1>5 DEF Inv

\* The claim place of i empties; its copy goes nowhere, and only its row changes.
LEMMA InvRelease ==
  ASSUME Inv, TypeOK', NEW i \in Instances, Release(i)
  PROVE  Inv'
<1>. USE DEF db, table, polling, working, manual, history, counts
<1>1. PICK c \in claim[i] : UNCHANGED status \/ SetStatus(c.id, "pending")
  BY DEF Release
<1>2. /\ claim' = [claim EXCEPT ![i] = {}]
      /\ UNCHANGED <<held, queue, jobs, retries, dirty>>
  BY DEF Release
<1>3. claim \in [Instances -> SUBSET RowCopies] /\ status \in [Events -> Statuses]
  BY DEF Inv, TypeOK
<1>4. c \in At(ClaimOf(i)) /\ At(ClaimOf(i))' = {}
  BY <1>2, <1>3, AtPlace, AtPlaceNext
<1>5. ASSUME NEW p \in Places, NEW d, d \in At(p)' PROVE d \in At(p)
  <2>1. ASSUME NEW k \in Instances, p = ClaimOf(k) PROVE d \in At(p)
    BY <1>2, <1>3, <1>5, <2>1, AtPlace, AtPlaceNext
  <2>2. ASSUME NEW k \in Instances, p = HeldOf(k) PROVE d \in At(p)
    BY <1>2, <1>5, <2>2, AtPlace, AtPlaceNext
  <2>3. ASSUME NEW k \in Instances, NEW n \in 1..QueueCap, p = QueueOf(k, n)
        PROVE  d \in At(p)
    BY <1>2, <1>5, <2>3, AtPlace, AtPlaceNext
  <2>4. ASSUME NEW k \in Instances, NEW n \in 1..PoolSize, p = JobOf(k, n)
        PROVE  d \in At(p)
    BY <1>2, <1>5, <2>4, AtPlace, AtPlaceNext
  <2>. QED  BY <2>1, <2>2, <2>3, <2>4, PlaceCases
<1>6. ASSUME NEW p \in Places, NEW d, d \in At(p)', d.id \in Clean'
      PROVE  d \in At(p) /\ status'[d.id] = status[d.id] /\ retries'[d.id] = retries[d.id]
  <2>1. d \in At(p) /\ p # ClaimOf(i) /\ d.id \in Clean
    BY <1>2, <1>4, <1>5, <1>6 DEF Clean
  <2>2. d.id # c.id
    BY <1>4, <2>1, PlacesAre DEF Inv, SingleCopy
  <2>3. d.id \in Events
    BY <2>1 DEF Clean
  <2>. QED  BY <1>1, <1>2, <1>3, <2>1, <2>2, <2>3 DEF SetStatus
<1>7. CopyOwnsRow' /\ SingleCopy'
  <2>1. dirty \subseteq dirty' /\ CopyOwnsRow /\ SingleCopy
    BY <1>2 DEF Inv
  <2>. QED  BY <1>6, <2>1, CarryInPlace
<1>8. TokensHeldOnce' /\ QueueFits'
  BY <1>2 DEF Inv, TokensHeldOnce, QueueFits
<1>. QED  BY <1>7, <1>8 DEF Inv

\* The head of queue[i] is taken off: every position keeps what was behind it.
LEMMA Taken ==
  ASSUME Inv, NEW i \in Instances,
         queue[i] # << >>, queue' = [queue EXCEPT ![i] = Tail(@)]
  PROVE  /\ \A k \in Instances \ {i} : queue'[k] = queue[k]
         /\ Len(queue[i]) \in 1..QueueCap
         /\ Len(queue'[i]) = Len(queue[i]) - 1
         /\ DOMAIN queue'[i] = 1..(Len(queue[i]) - 1)
         /\ DOMAIN queue[i] = 1..Len(queue[i])
         /\ Head(queue[i]) = queue[i][1]
         /\ \A n \in 1..(Len(queue[i]) - 1) : queue'[i][n] = queue[i][n + 1]
<1>1. queue \in [Instances -> Seq(Copies)] /\ queue[i] \in Seq(Copies)
  BY DEF Inv, TypeOK
<1>2. queue'[i] = Tail(queue[i]) /\ \A k \in Instances \ {i} : queue'[k] = queue[k]
  BY <1>1
<1>3. /\ Tail(queue[i]) \in Seq(Copies)
      /\ Len(Tail(queue[i])) = Len(queue[i]) - 1
      /\ \A n \in 1..(Len(queue[i]) - 1) : Tail(queue[i])[n] = queue[i][n + 1]
  BY <1>1, HeadTailProperties
<1>4. Len(queue[i]) \in Nat /\ Len(queue[i]) # 0
  BY <1>1, LenProperties, EmptySeq
<1>5. QueueCap \in Nat /\ Len(queue[i]) <= QueueCap
  BY ConstantsAssumption DEF Inv, QueueFits, ConstantsAssumption
<1>6. DOMAIN queue'[i] = 1..(Len(queue[i]) - 1) /\ DOMAIN queue[i] = 1..Len(queue[i])
  BY <1>1, <1>2, <1>3, LenProperties
<1>7. Head(queue[i]) = queue[i][1]
  BY <1>1
<1>. QED  BY <1>2, <1>3, <1>4, <1>5, <1>6, <1>7

LEMMA InvTake ==
  ASSUME Inv, TypeOK', NEW i \in Instances, Take(i)
  PROVE  Inv'
<1>. USE DEF db, table, polling, working, manual, history, counts
<1>1. /\ held[i] = {} /\ queue[i] # << >>
      /\ held' = [held EXCEPT ![i] = {Head(queue[i])}]
      /\ queue' = [queue EXCEPT ![i] = Tail(@)]
      /\ UNCHANGED <<claim, jobs, status, retries, dirty>>
  BY DEF Take
<1>2. held \in [Instances -> SUBSET Copies] /\ queue \in [Instances -> Seq(Copies)]
  BY DEF Inv, TypeOK
<1>3. /\ \A k \in Instances \ {i} : queue'[k] = queue[k]
      /\ Len(queue[i]) \in 1..QueueCap
      /\ Len(queue'[i]) = Len(queue[i]) - 1
      /\ DOMAIN queue'[i] = 1..(Len(queue[i]) - 1)
      /\ DOMAIN queue[i] = 1..Len(queue[i])
      /\ Head(queue[i]) = queue[i][1]
      /\ \A n \in 1..(Len(queue[i]) - 1) : queue'[i][n] = queue[i][n + 1]
  BY <1>1, Taken
<1>4. QueueCap \in Nat
  BY ConstantsAssumption DEF ConstantsAssumption
<1>. DEFINE Moved(p) == p.kind = "queue" /\ p.inst = i /\ p.n < QueueCap
            f == [p \in Places |-> IF p = HeldOf(i) THEN QueueOf(i, 1)
                                   ELSE IF Moved(p) THEN QueueOf(i, p.n + 1) ELSE p]
<1>5. \A n \in 1..QueueCap : n < QueueCap => QueueOf(i, n + 1) \in Places
  BY <1>4, PlacesAre
<1>6. \A p \in Places : Moved(p) => p.n \in 1..QueueCap /\ p.n < QueueCap /\ p = QueueOf(i, p.n)
  <2>1. ASSUME NEW p \in Places, Moved(p)
        PROVE  p.n \in 1..QueueCap /\ p = QueueOf(i, p.n)
    BY <2>1, PlaceCases DEF ClaimOf, HeldOf, QueueOf, JobOf
  <2>. QED  BY <2>1
<1>7. \A p \in Places : f[p] = IF p = HeldOf(i) THEN QueueOf(i, 1)
                                 ELSE IF Moved(p) THEN QueueOf(i, p.n + 1) ELSE p
  OBVIOUS
<1>8. f \in [Places -> Places]
  <2>1. QueueOf(i, 1) \in Places
    BY <1>3, <1>4, PlacesAre
  <2>. QED  BY <1>5, <1>6, <2>1
<1>. HIDE DEF f
\* Where the copies come from.
<1>9. ASSUME NEW p \in Places, NEW d, d \in At(p)' PROVE d \in At(f[p])
  <2>1. ASSUME NEW k \in Instances, p = ClaimOf(k) PROVE d \in At(f[p])
    <3>1. f[p] = p
      BY <1>7, <2>1 DEF ClaimOf, HeldOf
    <3>2. d \in At(p)
      BY <1>1, <1>9, <2>1, AtPlace, AtPlaceNext
    <3>. QED  BY <3>1, <3>2
  <2>2. ASSUME NEW k \in Instances, p = HeldOf(k) PROVE d \in At(f[p])
    <3>1. CASE k = i
      <4>1. d = queue[i][1] /\ 1 \in DOMAIN queue[i] /\ f[p] = QueueOf(i, 1)
        BY <1>1, <1>2, <1>3, <1>7, <1>9, <2>2, <3>1, AtPlaceNext
      <4>. QED  BY <4>1, AtPlace
    <3>2. CASE k # i
      BY <1>1, <1>2, <1>7, <1>9, <2>2, <3>2, AtPlace, AtPlaceNext DEF HeldOf
    <3>. QED  BY <3>1, <3>2
  <2>3. ASSUME NEW k \in Instances, NEW n \in 1..QueueCap, p = QueueOf(k, n)
        PROVE  d \in At(f[p])
    <3>1. n \in DOMAIN queue'[k] /\ d = queue'[k][n]
      BY <1>9, <2>3, AtPlaceNext
    <3>2. CASE k = i
      <4>1. n \in 1..(Len(queue[i]) - 1) /\ n < QueueCap
        BY <1>3, <1>4, <3>1, <3>2
      <4>2. f[p] = QueueOf(i, n + 1)
        BY <1>7, <2>3, <3>2, <4>1 DEF QueueOf, HeldOf
      <4>3. n + 1 \in DOMAIN queue[i] /\ d = queue[i][n + 1]
        BY <1>3, <3>1, <3>2, <4>1
      <4>. QED  BY <4>2, <4>3, AtPlace
    <3>3. CASE k # i
      <4>1. f[p] = p
        BY <1>7, <2>3, <3>3 DEF QueueOf, HeldOf
      <4>. QED  BY <1>3, <2>3, <3>1, <3>3, <4>1, AtPlace
    <3>. QED  BY <3>2, <3>3
  <2>4. ASSUME NEW k \in Instances, NEW n \in 1..PoolSize, p = JobOf(k, n)
        PROVE  d \in At(f[p])
    <3>1. f[p] = p
      BY <1>7, <2>4 DEF JobOf, HeldOf
    <3>2. d \in At(p)
      BY <1>1, <1>9, <2>4, AtPlace, AtPlaceNext
    <3>. QED  BY <3>1, <3>2
  <2>. QED  BY <2>1, <2>2, <2>3, <2>4, PlaceCases
\* The last position, which f leaves where it is, has become free.
<1>10. ASSUME NEW p \in Places, NEW q \in Places, f[p] = f[q], At(p)' # {}, At(q)' # {}
       PROVE  p = q
  <2>1. At(QueueOf(i, QueueCap))' = {}
    <3>1. QueueCap \notin DOMAIN queue'[i]
      BY <1>3, <1>4
    <3>. QED  BY <3>1, AtPlaceNext
  <2>2. ASSUME NEW x \in Places, ~Moved(x), x # HeldOf(i), At(x)' # {}
        PROVE  f[x] = x /\ ~(x.kind = "queue" /\ x.inst = i)
    <3>1. f[x] = x
      BY <1>7, <2>2
    <3>2. ASSUME x.kind = "queue", x.inst = i PROVE FALSE
      <4>1. PICK n \in 1..QueueCap : x = QueueOf(i, n)
        BY <3>2, PlaceCases DEF ClaimOf, HeldOf, QueueOf, JobOf
      <4>2. n = QueueCap
        BY <1>4, <2>2, <3>2, <4>1 DEF QueueOf
      <4>. QED  BY <2>1, <2>2, <4>1, <4>2
    <3>. QED  BY <3>1, <3>2
  <2>3. ASSUME NEW x \in Places, Moved(x) \/ x = HeldOf(i)
        PROVE  f[x].kind = "queue" /\ f[x].inst = i
               /\ f[x].n = IF x = HeldOf(i) THEN 1 ELSE x.n + 1
    <3>1. CASE x = HeldOf(i)
      <4>1. f[x] = QueueOf(i, 1)
        BY <1>7, <3>1
      <4>. QED  BY <3>1, <4>1 DEF QueueOf
    <3>2. CASE x # HeldOf(i)
      <4>1. f[x] = QueueOf(i, x.n + 1)
        BY <1>7, <2>3, <3>2
      <4>. QED  BY <3>2, <4>1 DEF QueueOf
    <3>. QED  BY <3>1, <3>2
  <2>4. CASE (Moved(p) \/ p = HeldOf(i)) /\ (Moved(q) \/ q = HeldOf(i))
    <3>1. /\ (IF p = HeldOf(i) THEN 1 ELSE p.n + 1) = (IF q = HeldOf(i) THEN 1 ELSE q.n + 1)
      BY <1>10, <2>3, <2>4
    <3>2. CASE Moved(p) /\ Moved(q)
      <4>1. p # HeldOf(i) /\ q # HeldOf(i)
        BY <3>2 DEF HeldOf
      <4>2. p.n = q.n
        BY <1>6, <3>1, <3>2, <4>1
      <4>. QED  BY <1>6, <3>2, <4>2
    <3>3. CASE p = HeldOf(i) /\ q # HeldOf(i)
      BY <1>6, <2>4, <3>1, <3>3
    <3>4. CASE q = HeldOf(i) /\ p # HeldOf(i)
      BY <1>6, <2>4, <3>1, <3>4
    <3>5. CASE p = HeldOf(i) /\ q = HeldOf(i)
      BY <3>5
    <3>. QED  BY <2>4, <3>2, <3>3, <3>4, <3>5
  <2>5. CASE ~(Moved(p) \/ p = HeldOf(i)) /\ ~(Moved(q) \/ q = HeldOf(i))
    BY <1>10, <2>2, <2>5
  <2>6. CASE (Moved(p) \/ p = HeldOf(i)) /\ ~(Moved(q) \/ q = HeldOf(i))
    BY <1>10, <2>2, <2>3, <2>6
  <2>7. CASE ~(Moved(p) \/ p = HeldOf(i)) /\ (Moved(q) \/ q = HeldOf(i))
    BY <1>10, <2>2, <2>3, <2>7
  <2>. QED  BY <2>4, <2>5, <2>6, <2>7
<1>11. CopyOwnsRow' /\ SingleCopy'
  <2>1. dirty \subseteq dirty' /\ CopyOwnsRow /\ SingleCopy
    BY <1>1 DEF Inv
  <2>2. \A p \in Places : \A d \in At(p)' : d.id \in Clean' =>
          /\ d \in At(f[p])
          /\ status'[d.id] = status[d.id] /\ retries'[d.id] = retries[d.id]
    BY <1>1, <1>9
  <2>3. \A p, q \in Places : f[p] = f[q] /\ At(p)' # {} /\ At(q)' # {} => p = q
    BY <1>10
  <2>. QED  BY <1>8, <2>1, <2>2, <2>3, Carry
<1>12. TokensHeldOnce'
  BY <1>1 DEF Inv, TokensHeldOnce
<1>13. QueueFits'
  <2>1. ASSUME NEW k \in Instances PROVE Len(queue'[k]) <= QueueCap
    <3>1. CASE k = i
      BY <1>3, <1>4, <3>1
    <3>2. CASE k # i
      BY <1>3, <3>2 DEF Inv, QueueFits
    <3>. QED  BY <3>1, <3>2
  <2>. QED  BY <2>1 DEF QueueFits
<1>. QED  BY <1>11, <1>12, <1>13 DEF Inv

\* A step that touches the jobs of i only leaves the other places alone.
LEMMA AtNoJob ==
  ASSUME Inv, NEW i \in Instances, UNCHANGED <<claim, queue>>,
         \A k \in Instances : held'[k] \subseteq held[k],
         \A k \in Instances \ {i} : jobs'[k] = jobs[k],
         NEW p \in Places, NEW d, d \in At(p)'
  PROVE  d \in At(p) \/ (\E n \in 1..PoolSize : p = JobOf(i, n))
<1>1. ASSUME NEW k \in Instances, p = ClaimOf(k) PROVE d \in At(p)
  BY <1>1, AtPlace, AtPlaceNext
<1>2. ASSUME NEW k \in Instances, p = HeldOf(k) PROVE d \in At(p)
  BY <1>2, AtPlace, AtPlaceNext
<1>3. ASSUME NEW k \in Instances, NEW n \in 1..QueueCap, p = QueueOf(k, n) PROVE d \in At(p)
  BY <1>3, AtPlace, AtPlaceNext
<1>4. ASSUME NEW k \in Instances \ {i}, NEW n \in 1..PoolSize, p = JobOf(k, n)
      PROVE  d \in At(p)
  BY <1>4, AtPlace, AtPlaceNext
<1>. QED  BY <1>1, <1>2, <1>3, <1>4, PlaceCases

LEMMA InvStartJob ==
  ASSUME Inv, TypeOK', NEW i \in Instances, StartJob(i)
  PROVE  Inv'
<1>. USE DEF db, table, polling, working, manual, history, counts
<1>1. PICK c \in held[i], s \in Idle(i) :
        jobs' = [jobs EXCEPT ![i] = @ \cup {[slot |-> s, copy |-> c, pc |-> "lookup"]}]
  BY DEF StartJob
<1>2. /\ held' = [held EXCEPT ![i] = {}]
      /\ UNCHANGED <<claim, queue, status, retries, dirty>>
  BY DEF StartJob
<1>3. held \in [Instances -> SUBSET Copies] /\ jobs \in [Instances -> SUBSET Jobs]
  BY DEF Inv, TypeOK
<1>4. s \in 1..PoolSize /\ \A j \in jobs[i] : j.slot # s
  BY DEF Idle
<1>. DEFINE new == [slot |-> s, copy |-> c, pc |-> "lookup"]
            f == [p \in Places |-> IF p = JobOf(i, s) THEN HeldOf(i) ELSE p]
<1>5. /\ jobs'[i] = jobs[i] \cup {new} /\ \A k \in Instances \ {i} : jobs'[k] = jobs[k]
      /\ new.slot = s /\ new.copy = c
  BY <1>1, <1>3
<1>6. /\ f \in [Places -> Places]
      /\ \A p \in Places : f[p] = IF p = JobOf(i, s) THEN HeldOf(i) ELSE p
      /\ JobOf(i, s) # HeldOf(i)
  BY <1>4, PlacesAre DEF JobOf, HeldOf
<1>. HIDE DEF f, new
<1>7. At(HeldOf(i))' = {} /\ c \in At(HeldOf(i))
  BY <1>2, <1>3, AtPlace, AtPlaceNext
<1>8. ASSUME NEW p \in Places, NEW d, d \in At(p)' PROVE d \in At(f[p])
  <2>1. CASE p = JobOf(i, s)
    <3>1. PICK j \in jobs'[i] : j.slot = s /\ j.copy = d
      BY <1>8, <2>1, AtPlaceNext
    <3>2. d = c
      BY <1>4, <1>5, <3>1
    <3>. QED  BY <1>6, <1>7, <2>1, <3>2
  <2>2. CASE p # JobOf(i, s)
    <3>1. ASSUME NEW n \in 1..PoolSize, p = JobOf(i, n) PROVE d \in At(p)
      <4>1. PICK j \in jobs'[i] : j.slot = n /\ j.copy = d
        BY <1>8, <3>1, AtPlaceNext
      <4>2. n # s
        BY <2>2, <3>1
      <4>3. j \in jobs[i]
        BY <1>5, <4>1, <4>2
      <4>. QED  BY <3>1, <4>1, <4>3, AtPlace
    <3>2. \A k \in Instances : held'[k] \subseteq held[k]
      BY <1>2, <1>3
    <3>3. d \in At(p) \/ (\E n \in 1..PoolSize : p = JobOf(i, n))
      BY <1>2, <1>5, <1>8, <3>2, AtNoJob
    <3>. QED  BY <1>6, <2>2, <3>1, <3>3
  <2>. QED  BY <2>1, <2>2
<1>9. \A p, q \in Places : f[p] = f[q] /\ At(p)' # {} /\ At(q)' # {} => p = q
  BY <1>6, <1>7
<1>10. CopyOwnsRow' /\ SingleCopy'
  <2>1. dirty \subseteq dirty' /\ CopyOwnsRow /\ SingleCopy
    BY <1>2 DEF Inv
  <2>2. \A p \in Places : \A d \in At(p)' : d.id \in Clean' =>
          /\ d \in At(f[p])
          /\ status'[d.id] = status[d.id] /\ retries'[d.id] = retries[d.id]
    BY <1>2, <1>8
  <2>. QED  BY <1>6, <1>9, <2>1, <2>2, Carry
<1>11. TokensHeldOnce'
  <2>1. ASSUME NEW k \in Instances, NEW j \in jobs'[k], NEW l \in jobs'[k], j.slot = l.slot
        PROVE  j = l
    <3>1. CASE k # i
      BY <1>5, <2>1, <3>1 DEF Inv, TokensHeldOnce
    <3>2. CASE k = i
      BY <1>4, <1>5, <2>1, <3>2 DEF Inv, TokensHeldOnce
    <3>. QED  BY <3>1, <3>2
  <2>. QED  BY <2>1 DEF TokensHeldOnce
<1>12. QueueFits'
  BY <1>2 DEF Inv, QueueFits
<1>. QED  BY <1>10, <1>11, <1>12 DEF Inv

\* A worker goes on with the copy and the token it has.
LEMMA InvAdvance ==
  ASSUME Inv, TypeOK', NEW i \in Instances, NEW j \in jobs[i], NEW pc, Advance(i, j, pc),
         UNCHANGED <<claim, held, queue, status, retries, dirty>>
  PROVE  Inv'
<1>1. jobs \in [Instances -> SUBSET Jobs]
  BY DEF Inv, TypeOK
<1>. DEFINE new == [slot |-> j.slot, copy |-> j.copy, pc |-> pc]
<1>2. /\ jobs'[i] = (jobs[i] \ {j}) \cup {new}
      /\ \A k \in Instances \ {i} : jobs'[k] = jobs[k]
      /\ new.slot = j.slot /\ new.copy = j.copy
  BY <1>1 DEF Advance
<1>. HIDE DEF new
<1>3. ASSUME NEW p \in Places, NEW d, d \in At(p)' PROVE d \in At(p)
  <2>1. ASSUME NEW n \in 1..PoolSize, p = JobOf(i, n) PROVE d \in At(p)
    <3>1. PICK l \in jobs'[i] : l.slot = n /\ l.copy = d
      BY <1>3, <2>1, AtPlaceNext
    <3>2. \E k \in jobs[i] : k.slot = n /\ k.copy = d
      BY <1>2, <3>1
    <3>. QED  BY <2>1, <3>2, AtPlace
  <2>2. d \in At(p) \/ (\E n \in 1..PoolSize : p = JobOf(i, n))
    BY <1>2, <1>3, AtNoJob
  <2>. QED  BY <2>1, <2>2
<1>4. CopyOwnsRow' /\ SingleCopy'
  BY <1>3, CarryInPlace DEF Inv
<1>5. TokensHeldOnce'
  <2>1. ASSUME NEW k \in Instances, NEW l \in jobs'[k], NEW m \in jobs'[k], l.slot = m.slot
        PROVE  l = m
    <3>1. CASE k # i
      BY <1>2, <2>1, <3>1 DEF Inv, TokensHeldOnce
    <3>2. CASE k = i
      <4>1. \A x \in jobs[i] \ {j} : x.slot # j.slot
        BY DEF Inv, TokensHeldOnce
      <4>. QED  BY <1>2, <2>1, <3>2, <4>1 DEF Inv, TokensHeldOnce
    <3>. QED  BY <3>1, <3>2
  <2>. QED  BY <2>1 DEF TokensHeldOnce
<1>6. QueueFits'
  BY DEF Inv, QueueFits
<1>. QED  BY <1>4, <1>5, <1>6 DEF Inv

\* The worker ends with its copy: no other copy cares for the row it writes.
LEMMA InvMark ==
  ASSUME Inv, TypeOK', NEW i \in Instances, NEW j \in jobs[i], Mark(i, j)
  PROVE  Inv'
<1>. USE DEF db, table, polling, working, manual, history, counts
<1>1. /\ jobs' = [jobs EXCEPT ![i] = @ \ {j}]
      /\ UNCHANGED <<claim, held, queue, dirty>>
      /\ UNCHANGED table \/ Record(j.copy.id, j.pc)
  BY DEF Mark
<1>2. /\ jobs \in [Instances -> SUBSET Jobs] /\ j.slot \in 1..PoolSize
      /\ status \in [Events -> Statuses] /\ retries \in [Events -> Nat]
  BY DEF Inv, TypeOK, Jobs
<1>3. jobs'[i] = jobs[i] \ {j} /\ \A k \in Instances \ {i} : jobs'[k] = jobs[k]
  BY <1>1, <1>2
<1>4. j.copy \in At(JobOf(i, j.slot)) /\ JobOf(i, j.slot) \in Places
  BY <1>2, AtPlace, PlacesAre
<1>5. \A d : d \notin At(JobOf(i, j.slot))'
  <2>1. \A l \in jobs'[i] : l.slot # j.slot
    BY <1>3 DEF Inv, TokensHeldOnce
  <2>. QED  BY <2>1, AtPlaceNext
<1>6. ASSUME NEW p \in Places, NEW d, d \in At(p)' PROVE d \in At(p)
  <2>1. ASSUME NEW n \in 1..PoolSize, p = JobOf(i, n) PROVE d \in At(p)
    BY <1>3, <1>6, <2>1, AtPlace, AtPlaceNext
  <2>2. d \in At(p) \/ (\E n \in 1..PoolSize : p = JobOf(i, n))
    BY <1>1, <1>3, <1>6, AtNoJob
  <2>. QED  BY <2>1, <2>2
<1>7. ASSUME NEW p \in Places, NEW d, d \in At(p)', d.id \in Clean'
      PROVE  d \in At(p) /\ status'[d.id] = status[d.id] /\ retries'[d.id] = retries[d.id]
  <2>1. d \in At(p) /\ p # JobOf(i, j.slot) /\ d.id \in Clean /\ d.id \in Events
    BY <1>1, <1>5, <1>6, <1>7 DEF Clean
  <2>2. d.id # j.copy.id
    BY <1>4, <2>1 DEF Inv, SingleCopy
  <2>3. CASE UNCHANGED table
    BY <2>1, <2>3
  <2>4. CASE Record(j.copy.id, j.pc)
    <3>1. /\ status' = [status EXCEPT ![j.copy.id] = NewStatus(j.pc)]
          /\ retries' = retries \/ retries' = [retries EXCEPT ![j.copy.id] = @ + 1]
      BY <2>4 DEF Record, SetStatus
    <3>. QED  BY <1>2, <2>1, <2>2, <3>1
  <2>. QED  BY <1>1, <2>3, <2>4
<1>8. CopyOwnsRow' /\ SingleCopy'
  <2>1. dirty \subseteq dirty' /\ CopyOwnsRow /\ SingleCopy
    BY <1>1 DEF Inv
  <2>. QED  BY <1>7, <2>1, CarryInPlace
<1>9. TokensHeldOnce' /\ QueueFits'
  BY <1>1, <1>3 DEF Inv, TokensHeldOnce, QueueFits
<1>. QED  BY <1>8, <1>9 DEF Inv

LEMMA InvNext ==
  ASSUME Inv, [Next]_vars
  PROVE  Inv'
<1>. USE DEF db, table, polling, working, manual, history, counts
<1>1. CASE UNCHANGED vars
  <2>1. TypeOK'
    BY <1>1 DEF vars, Inv, TypeOK
  <2>2. UNCHANGED <<places, dirty, status, retries>>
    BY <1>1 DEF vars, places
  <2>. QED  BY <2>1, <2>2, InvStill
<1>2. ASSUME NEW i \in Instances, Process(i) PROVE Inv'
  BY <1>2, InvProcess
<1>3. ASSUME NEW i \in Instances, Poller(i) \/ SelectEnds(i) PROVE Inv'
  <2>1. TypeOK'
    BY <1>3, TypePoller DEF Inv
  <2>2. CASE Fetch(i) \/ QueueFull(i) \/ FetchEnds(i) \/ SelectEnds(i)
    <3>1. UNCHANGED <<places, dirty, status, retries>>
      BY <2>2 DEF Fetch, QueueFull, FetchEnds, SelectEnds, places
    <3>. QED  BY <2>1, <3>1, InvStill
  <2>3. CASE Claim(i)
    BY <2>1, <2>3, InvClaim
  <2>4. CASE Enqueue(i)
    BY <2>1, <2>4, InvEnqueue
  <2>5. CASE Release(i)
    BY <2>1, <2>5, InvRelease
  <2>. QED  BY <1>3, <2>2, <2>3, <2>4, <2>5 DEF Poller
<1>4. ASSUME NEW i \in Instances, Processor(i) PROVE Inv'
  <2>1. TypeOK'
    BY <1>4, TypeWorking DEF Inv
  <2>. QED  BY <1>4, <2>1, InvTake, InvStartJob DEF Processor
<1>5. ASSUME NEW i \in Instances, NEW j \in jobs[i], Worker(i, j) PROVE Inv'
  <2>1. TypeOK'
    BY <1>5, TypeWorking DEF Inv
  <2>2. CASE Lookup(i, j)
    BY <2>1, <2>2, InvAdvance DEF Lookup
  <2>3. CASE Post(i, j)
    BY <2>1, <2>3, InvAdvance DEF Post
  <2>4. CASE Mark(i, j)
    BY <2>1, <2>4, InvMark
  <2>. QED  BY <1>5, <2>2, <2>3, <2>4 DEF Worker
<1>6. CASE \/ \E i \in Instances, t \in Triggers : Register(i, t) \/ Unregister(i, t)
           \/ \E i \in Instances, m \in Manual : Invoke(i, m) \/ SendManual(i, m)
           \/ \E e \in Events : Capture(e) \/ Redeliver(e)
  <2>1. TypeOK'
    BY <1>6, TypeCalls DEF Inv
  <2>. QED  BY <1>6, <2>1, InvCalls, InvSendManual
<1>. QED  BY <1>1, <1>2, <1>3, <1>4, <1>5, <1>6 DEF Next

LEMMA InvInit == Init => Inv
<1>. SUFFICES ASSUME Init PROVE Inv
  OBVIOUS
<1>1. TypeOK
  BY TypeInit
<1>2. TokensHeldOnce
  BY DEF Init, TokensHeldOnce
<1>3. QueueFits
  <2>1. Len(<< >>) <= QueueCap
    BY ConstantsAssumption DEF ConstantsAssumption
  <2>. QED  BY <2>1 DEF Init, QueueFits
<1>4. ASSUME NEW p \in Places, NEW c, c \in At(p) PROVE FALSE
  <2>1. \A k \in Instances : claim[k] = {} /\ held[k] = {} /\ jobs[k] = {}
    BY DEF Init
  <2>2. \A k \in Instances, n \in 1..QueueCap : n \notin DOMAIN queue[k]
    <3>1. \A n \in 1..QueueCap : n \notin DOMAIN << >>
      OBVIOUS
    <3>. QED  BY <3>1 DEF Init
  <2>3. ASSUME NEW k \in Instances, p = ClaimOf(k) PROVE FALSE
    BY <1>4, <2>1, <2>3, AtPlace
  <2>4. ASSUME NEW k \in Instances, p = HeldOf(k) PROVE FALSE
    BY <1>4, <2>1, <2>4, AtPlace
  <2>5. ASSUME NEW k \in Instances, NEW n \in 1..QueueCap, p = QueueOf(k, n) PROVE FALSE
    BY <1>4, <2>5, <2>2, AtPlace
  <2>6. ASSUME NEW k \in Instances, NEW n \in 1..PoolSize, p = JobOf(k, n) PROVE FALSE
    BY <1>4, <2>1, <2>6, AtPlace
  <2>. QED  BY <2>3, <2>4, <2>5, <2>6, PlaceCases
<1>5. CopyOwnsRow /\ SingleCopy
  BY <1>4 DEF CopyOwnsRow, SingleCopy
<1>. QED  BY <1>1, <1>2, <1>3, <1>5 DEF Inv

\* One copy at most of every event whose claims took the row as it was read: claims,
\* queues and workers of any number of processes never hold two, through failed
\* statements, crashes, full queues and redeliveries.
THEOREM OneCopy == Spec => []SingleCopy
<1>1. Inv => SingleCopy
  BY DEF Inv
<1>. QED  BY <1>1, InvInit, InvNext, PTL DEF Spec

\* The row of such a copy says "processing" and has the copy's retry count: what the
\* worker decides and writes is not stale.
THEOREM RowIsCopys == Spec => []CopyOwnsRow
<1>1. Inv => CopyOwnsRow
  BY DEF Inv
<1>. QED  BY <1>1, InvInit, InvNext, PTL DEF Spec

-----------------------------------------------------------------------------
(* What becomes of an event: its attempts, its outcome, and that none is lost *)

\* Copies of process i that no worker has yet.
Waiting(i) == claim[i] \cup held[i] \cup Queued(i)

\* The webhook has seen the event once per retry that its row records, and answered
\* none of them.
Fresh(c) == posts[c.id] = c.retry /\ c.id \notin acked

LimitOf(c) == RetryLimit[TriggerOf[c.id]]

JobTells(j) ==
  /\ j.pc \in {"lookup", "missing", "post", "bad"} => Fresh(j.copy)
  /\ j.pc \in {"ok", "giveup", "retry"} => posts[j.copy.id] = j.copy.retry + 1
  /\ j.copy.id \in acked <=> j.pc = "ok"
  /\ j.pc = "giveup" => j.copy.retry >= LimitOf(j.copy)
  /\ j.pc = "retry" => j.copy.retry < LimitOf(j.copy)

RowTells(e) ==
  /\ retries[e] < Budget(e) /\ posts[e] <= Budget(e)
  /\ status[e] \in {"none", "pending", "retrying"} => posts[e] = retries[e] /\ e \notin acked
  /\ status[e] = "delivered" => e \in acked
  /\ status[e] = "failed" => e \notin acked /\ (error[e] = "post" => posts[e] = Budget(e))

\* What the history of a clean event was is told by its row and by its copy.
Told ==
  /\ \A i \in Instances : \A c \in Waiting(i) : c.id \in Clean => Fresh(c)
  /\ \A i \in Instances : \A j \in jobs[i] : j.copy.id \in Clean => JobTells(j)
  /\ \A e \in Clean : RowTells(e)

\* The poller has a copy in hand exactly between the claim and the next row, the
\* processor has one at most.
OneInHand ==
  \A i \in Instances :
    /\ IF pollPc[i] \in {"send", "release"} THEN \E c \in claim[i] : claim[i] = {c}
                                            ELSE claim[i] = {}
    /\ \A c, d \in held[i] : c = d

Carried(i) == Waiting(i) \cup {j.copy : j \in jobs[i]}

\* What NoOrphan says of a step.
Kept ==
  \A e \in Events :
    (status[e] = "processing" /\ ~OnItsWay(e))' =>
      \/ status[e] = "processing" /\ ~OnItsWay(e)
      \/ exits' # exits \/ faults' # faults \/ LeftBehind(e)'

\* One process without faults: the rows it has read stay as they were.
BatchAsRead == dirty = {} /\ \A i \in Instances : \A c \in batch[i] : AsRead(c)

-----------------------------------------------------------------------------
(* Copies and places *)

LEMMA CarriedAt ==
  ASSUME Inv, NEW i \in Instances, NEW c
  PROVE  c \in Carried(i) <=> \E p \in Places : p.inst = i /\ c \in At(p)
<1>1. ASSUME c \in Carried(i) PROVE \E p \in Places : p.inst = i /\ c \in At(p)
  <2>1. CASE c \in claim[i]
    <3>1. ClaimOf(i) \in Places /\ c \in At(ClaimOf(i))
      BY <2>1, AtPlace, PlacesAre
    <3>2. ClaimOf(i).inst = i
      BY DEF ClaimOf
    <3>. QED  BY <3>1, <3>2
  <2>2. CASE c \in held[i]
    <3>1. HeldOf(i) \in Places /\ c \in At(HeldOf(i))
      BY <2>2, AtPlace, PlacesAre
    <3>2. HeldOf(i).inst = i
      BY DEF HeldOf
    <3>. QED  BY <3>1, <3>2
  <2>3. ASSUME NEW n \in DOMAIN queue[i], c = queue[i][n]
        PROVE  \E p \in Places : p.inst = i /\ c \in At(p)
    <3>1. n \in 1..QueueCap
      <4>1. queue[i] \in Seq(Copies) /\ Len(queue[i]) <= QueueCap
        BY DEF Inv, TypeOK, QueueFits
      <4>2. QueueCap \in Nat
        BY ConstantsAssumption DEF ConstantsAssumption
      <4>. QED  BY <2>3, <4>1, <4>2, LenProperties
    <3>2. QueueOf(i, n) \in Places /\ c \in At(QueueOf(i, n)) /\ QueueOf(i, n).inst = i
      BY <2>3, <3>1, AtPlace, PlacesAre DEF QueueOf
    <3>. QED  BY <3>2
  <2>4. ASSUME NEW j \in jobs[i], c = j.copy
        PROVE  \E p \in Places : p.inst = i /\ c \in At(p)
    <3>1. j.slot \in 1..PoolSize
      BY DEF Inv, TypeOK, Jobs
    <3>2. JobOf(i, j.slot) \in Places /\ c \in At(JobOf(i, j.slot)) /\ JobOf(i, j.slot).inst = i
      BY <2>4, <3>1, AtPlace, PlacesAre DEF JobOf
    <3>. QED  BY <3>2
  <2>. QED  BY <1>1, <2>1, <2>2, <2>3, <2>4 DEF Carried, Waiting, Queued
<1>2. ASSUME NEW p \in Places, p.inst = i, c \in At(p) PROVE c \in Carried(i)
  <2>1. ASSUME NEW k \in Instances, p = ClaimOf(k) PROVE c \in Carried(i)
    BY <1>2, <2>1, AtPlace DEF ClaimOf, Carried, Waiting
  <2>2. ASSUME NEW k \in Instances, p = HeldOf(k) PROVE c \in Carried(i)
    BY <1>2, <2>2, AtPlace DEF HeldOf, Carried, Waiting, Queued
  <2>3. ASSUME NEW k \in Instances, NEW n \in 1..QueueCap, p = QueueOf(k, n)
        PROVE  c \in Carried(i)
    BY <1>2, <2>3, AtPlace DEF QueueOf, Carried, Waiting, Queued
  <2>4. ASSUME NEW k \in Instances, NEW n \in 1..PoolSize, p = JobOf(k, n)
        PROVE  c \in Carried(i)
    BY <1>2, <2>4, AtPlace DEF JobOf, Carried
  <2>. QED  BY <2>1, <2>2, <2>3, <2>4, PlaceCases
<1>. QED  BY <1>1, <1>2

LEMMA CarriedType ==
  ASSUME Inv, NEW i \in Instances, NEW c \in Carried(i)
  PROVE  c \in Copies /\ c.id \in Ids /\ c.retry \in Nat
<1>1. c \in Copies
  <2>1. claim[i] \subseteq Copies /\ held[i] \subseteq Copies
    BY RowCopiesAreCopies DEF Inv, TypeOK
  <2>2. \A n \in DOMAIN queue[i] : queue[i][n] \in Copies
    <3>1. queue[i] \in Seq(Copies)
      BY DEF Inv, TypeOK
    <3>. QED  BY <3>1, LenProperties
  <2>3. \A j \in jobs[i] : j.copy \in Copies
    BY DEF Inv, TypeOK, Jobs
  <2>. QED  BY <2>1, <2>2, <2>3 DEF Carried, Waiting, Queued
<1>. QED  BY <1>1 DEF Copies

\* CopyOwnsRow and SingleCopy, without places.
LEMMA Owned ==
  ASSUME Inv, NEW i \in Instances, NEW c \in Carried(i), c.id \in Clean
  PROVE  status[c.id] = "processing" /\ retries[c.id] = c.retry
  BY CarriedAt DEF Inv, CopyOwnsRow

LEMMA Alone ==
  ASSUME Inv, NEW i \in Instances, NEW j \in jobs[i], j.copy.id \in Clean,
         NEW k \in Instances
  PROVE  /\ \A c \in Waiting(k) : c.id # j.copy.id
         /\ \A l \in jobs[k] : l.copy.id = j.copy.id => k = i /\ l = j
<1>1. /\ j.slot \in 1..PoolSize /\ JobOf(i, j.slot) \in Places
      /\ j.copy \in At(JobOf(i, j.slot))
  <2>1. j.slot \in 1..PoolSize
    BY DEF Inv, TypeOK, Jobs
  <2>. QED  BY <2>1, AtPlace, PlacesAre
<1>2. ASSUME NEW p \in Places, NEW c \in At(p), c.id = j.copy.id PROVE p = JobOf(i, j.slot)
  BY <1>1, <1>2 DEF Inv, SingleCopy
<1>3. ASSUME NEW c \in Waiting(k), c.id = j.copy.id PROVE FALSE
  <2>1. CASE c \in claim[k]
    <3>1. ClaimOf(k) \in Places /\ c \in At(ClaimOf(k))
      BY <2>1, AtPlace, PlacesAre
    <3>2. ClaimOf(k) # JobOf(i, j.slot)
      BY DEF ClaimOf, JobOf
    <3>. QED  BY <1>2, <1>3, <3>1, <3>2
  <2>2. CASE c \in held[k]
    <3>1. HeldOf(k) \in Places /\ c \in At(HeldOf(k))
      BY <2>2, AtPlace, PlacesAre
    <3>2. HeldOf(k) # JobOf(i, j.slot)
      BY DEF HeldOf, JobOf
    <3>. QED  BY <1>2, <1>3, <3>1, <3>2
  <2>3. ASSUME NEW n \in DOMAIN queue[k], c = queue[k][n] PROVE FALSE
    <3>1. n \in 1..QueueCap
      <4>1. queue[k] \in Seq(Copies) /\ Len(queue[k]) <= QueueCap
        BY DEF Inv, TypeOK, QueueFits
      <4>2. QueueCap \in Nat
        BY ConstantsAssumption DEF ConstantsAssumption
      <4>. QED  BY <2>3, <4>1, <4>2, LenProperties
    <3>2. QueueOf(k, n) \in Places /\ c \in At(QueueOf(k, n))
      BY <2>3, <3>1, AtPlace, PlacesAre
    <3>3. QueueOf(k, n) # JobOf(i, j.slot)
      BY DEF QueueOf, JobOf
    <3>. QED  BY <1>2, <1>3, <3>2, <3>3
  <2>. QED  BY <1>3, <2>1, <2>2, <2>3 DEF Waiting, Queued
<1>4. ASSUME NEW l \in jobs[k], l.copy.id = j.copy.id PROVE k = i /\ l = j
  <2>1. l.slot \in 1..PoolSize
    BY DEF Inv, TypeOK, Jobs
  <2>2. JobOf(k, l.slot) = JobOf(i, j.slot)
    BY <1>2, <1>4, <2>1, AtPlace, PlacesAre
  <2>3. k = i /\ l.slot = j.slot
    BY <2>2 DEF JobOf
  <2>. QED  BY <2>3 DEF Inv, TokensHeldOnce
<1>. QED  BY <1>3, <1>4

\* A queue that grows or shrinks by a copy.
LEMMA WaitingAppended ==
  ASSUME Inv, NEW i \in Instances, NEW c \in Copies,
         Len(queue[i]) < QueueCap, queue' = [queue EXCEPT ![i] = Append(@, c)],
         NEW k \in Instances
  PROVE  Queued(k)' = Queued(k) \cup (IF k = i THEN {c} ELSE {})
<1>. USE DEF Queued
<1>1. CASE k # i
  BY <1>1, Appended
<1>2. CASE k = i
  <2>1. Len(queue[i]) \in Nat
    BY LenProperties DEF Inv, TypeOK
  <2>2. 1..(Len(queue[i]) + 1) = (1..Len(queue[i])) \cup {Len(queue[i]) + 1}
    BY <2>1
  <2>. DEFINE L == Len(queue[i])
  <2>3. /\ DOMAIN queue'[i] = 1..(L + 1) /\ DOMAIN queue[i] = 1..L
        /\ queue'[i][L + 1] = c /\ \A n \in 1..L : queue'[i][n] = queue[i][n]
    BY Appended
  <2>. HIDE DEF L
  <2>4. \A n \in 1..(L + 1) : n \in 1..L \/ n = L + 1
    BY <2>2 DEF L
  <2>5. L + 1 \in 1..(L + 1) /\ \A n \in 1..L : n \in 1..(L + 1)
    BY <2>1 DEF L
  <2>6. ASSUME NEW d, d \in {queue'[i][n] : n \in DOMAIN queue'[i]}
        PROVE  d \in {queue[i][n] : n \in DOMAIN queue[i]} \cup {c}
    BY <2>3, <2>4, <2>6
  <2>7. ASSUME NEW d, d \in {queue[i][n] : n \in DOMAIN queue[i]} \cup {c}
        PROVE  d \in {queue'[i][n] : n \in DOMAIN queue'[i]}
    BY <2>3, <2>5, <2>7
  <2>. QED  BY <1>2, <2>6, <2>7
<1>. QED  BY <1>1, <1>2

LEMMA WaitingTaken ==
  ASSUME Inv, NEW i \in Instances,
         queue[i] # << >>, queue' = [queue EXCEPT ![i] = Tail(@)],
         NEW k \in Instances
  PROVE  Queued(k) = Queued(k)' \cup (IF k = i THEN {Head(queue[i])} ELSE {})
<1>. USE DEF Queued
<1>1. CASE k # i
  BY <1>1, Taken
<1>2. CASE k = i
  <2>1. Len(queue[i]) \in Nat \ {0}
    BY EmptySeq DEF Inv, TypeOK
  <2>. DEFINE L == Len(queue[i])
  <2>2. /\ DOMAIN queue'[i] = 1..(L - 1) /\ DOMAIN queue[i] = 1..L
        /\ Head(queue[i]) = queue[i][1]
        /\ \A n \in 1..(L - 1) : queue'[i][n] = queue[i][n + 1]
    BY Taken
  <2>. HIDE DEF L
  <2>3. L \in Nat \ {0}
    BY <2>1 DEF L
  <2>4. ASSUME NEW n \in 1..L PROVE n = 1 \/ (n - 1 \in 1..(L - 1) /\ queue'[i][n - 1] = queue[i][n])
    BY <2>2, <2>3
  <2>5. \A n \in 1..(L - 1) : n + 1 \in 1..L /\ 1 \in 1..L
    BY <2>3
  <2>6. ASSUME NEW d, d \in {queue[i][n] : n \in DOMAIN queue[i]}
        PROVE  d \in {queue'[i][n] : n \in DOMAIN queue'[i]} \cup {Head(queue[i])}
    <3>1. PICK n \in 1..L : d = queue[i][n]
      BY <2>2, <2>6
    <3>2. n = 1 \/ (n - 1 \in 1..(L - 1) /\ queue'[i][n - 1] = queue[i][n])
      BY <2>4
    <3>. QED  BY <2>2, <3>1, <3>2
  <2>7. ASSUME NEW d, d \in {queue'[i][n] : n \in DOMAIN queue'[i]}
        PROVE  d \in {queue[i][n] : n \in DOMAIN queue[i]}
    BY <2>2, <2>5, <2>7
  <2>8. Head(queue[i]) \in {queue[i][n] : n \in DOMAIN queue[i]}
    <3>1. 1 \in 1..L
      BY <2>3
    <3>. QED  BY <2>2, <3>1
  <2>. QED  BY <1>2, <2>6, <2>7, <2>8
<1>. QED  BY <1>1, <1>2

-----------------------------------------------------------------------------
(* Told is preserved *)

\* Steps that change no history: what a copy, a job or a row says is as before, or
\* is said anew.
LEMMA ToldRows ==
  ASSUME Told, dirty \subseteq dirty', UNCHANGED <<posts, acked>>,
         \A k \in Instances : \A c \in Waiting(k)' :
           c.id \in Clean' => Fresh(c) \/ \E i \in Instances : c \in Waiting(i),
         \A k \in Instances : \A j \in jobs'[k] :
           j.copy.id \in Clean' => JobTells(j) \/ j \in jobs[k],
         \A e \in Clean' :
           \/ RowTells(e)'
           \/ status'[e] = status[e] /\ retries'[e] = retries[e] /\ error'[e] = error[e]
  PROVE  Told'
<1>0. \A e \in Clean' : e \in Clean
  BY DEF Clean
<1>1. ASSUME NEW k \in Instances, NEW c \in Waiting(k)', c.id \in Clean' PROVE Fresh(c)'
  <2>1. Fresh(c)
    BY <1>0, <1>1 DEF Told
  <2>. QED  BY <2>1 DEF Fresh
<1>2. ASSUME NEW k \in Instances, NEW j \in jobs'[k], j.copy.id \in Clean' PROVE JobTells(j)'
  <2>1. JobTells(j)
    BY <1>0, <1>2 DEF Told
  <2>. QED  BY <2>1 DEF JobTells, Fresh
<1>3. ASSUME NEW e \in Clean' PROVE RowTells(e)'
  <2>1. RowTells(e)
    BY <1>0 DEF Told
  <2>. QED  BY <1>3, <2>1 DEF RowTells
<1>. QED  BY <1>1, <1>2, <1>3 DEF Told

LEMMA WaitingStill ==
  ASSUME UNCHANGED <<claim, held, queue>>, NEW k
  PROVE  Waiting(k)' = Waiting(k)
  BY DEF Waiting, Queued

LEMMA ToldStill ==
  ASSUME Told, UNCHANGED <<places, table, posts, acked>>, dirty \subseteq dirty'
  PROVE  Told'
<1>1. \A k \in Instances : Waiting(k)' = Waiting(k)
  BY WaitingStill DEF places
<1>2. /\ UNCHANGED <<jobs, posts, acked>>
      /\ UNCHANGED <<status, retries, error>>
  BY DEF places, table
<1>. QED  BY <1>1, <1>2, ToldRows

LEMMA ToldProcess ==
  ASSUME Inv, Told, NEW i \in Instances, Process(i)
  PROVE  Told'
<1>. USE DEF db, table, polling, working, manual, history, counts
<1>1. CASE Create(i) \/ Start(i) \/ Stop(i) \/ PollerReturn(i) \/ ProcessorReturn(i)
  <2>1. UNCHANGED <<places, table, posts, acked, dirty>>
    BY <1>1 DEF Create, Start, Stop, PollerReturn, ProcessorReturn, places
  <2>. QED  BY <2>1, ToldStill
<1>2. CASE Exit(i)
  <2>1. /\ claim' = [claim EXCEPT ![i] = {}] /\ held' = [held EXCEPT ![i] = {}]
        /\ queue' = [queue EXCEPT ![i] = << >>] /\ jobs' = [jobs EXCEPT ![i] = {}]
        /\ UNCHANGED <<table, posts, acked, dirty>>
    BY <1>2 DEF Exit
  <2>2. /\ claim \in [Instances -> SUBSET RowCopies] /\ held \in [Instances -> SUBSET Copies]
        /\ queue \in [Instances -> Seq(Copies)] /\ jobs \in [Instances -> SUBSET Jobs]
    BY DEF Inv, TypeOK
  <2>3. ASSUME NEW k \in Instances PROVE Waiting(k)' \subseteq Waiting(k) /\ jobs'[k] \subseteq jobs[k]
    <3>1. CASE k = i
      BY <2>1, <2>2, <3>1 DEF Waiting, Queued
    <3>2. CASE k # i
      BY <2>1, <2>2, <3>2 DEF Waiting, Queued
    <3>. QED  BY <3>1, <3>2
  <2>. QED  BY <2>1, <2>3, ToldRows
<1>. QED  BY <1>1, <1>2 DEF Process

\* No copy is on its way of a row that does not say "processing".
LEMMA ToldCalls ==
  ASSUME Inv, Told,
         \/ \E i \in Instances, t \in Triggers : Register(i, t) \/ Unregister(i, t)
         \/ \E i \in Instances, m \in Manual : Invoke(i, m)
         \/ \E e \in Events : Capture(e) \/ Redeliver(e)
  PROVE  Told'
<1>. USE DEF db, table, polling, working, manual, history, counts
<1>1. CASE \/ \E i \in Instances, t \in Triggers : Register(i, t) \/ Unregister(i, t)
           \/ \E i \in Instances, m \in Manual : Invoke(i, m)
  <2>1. UNCHANGED <<places, table, posts, acked, dirty>>
    BY <1>1 DEF Register, Unregister, Invoke, places
  <2>. QED  BY <2>1, ToldStill
<1>2. ASSUME NEW e \in Events, Capture(e) PROVE Told'
  <2>1. /\ UNCHANGED <<places, retries, error, posts, acked, dirty>>
        /\ status[e] = "none" /\ status' = [status EXCEPT ![e] = "pending"]
    BY <1>2 DEF Capture, SetStatus, places
  <2>2. status \in [Events -> Statuses]
    BY DEF Inv, TypeOK
  <2>3. ASSUME e \in Clean PROVE RowTells(e)'
    BY <2>1, <2>2, <2>3 DEF Told, RowTells
  <2>4. \A x \in Clean' : x \in Clean /\ x \in Events
    BY <2>1 DEF Clean
  <2>5. \A x \in Events : x = e \/ status'[x] = status[x]
    BY <2>1, <2>2
  <2>6. \A k \in Instances : Waiting(k)' = Waiting(k) /\ jobs'[k] = jobs[k]
    BY <2>1, WaitingStill DEF places
  <2>. QED  BY <2>1, <2>3, <2>4, <2>5, <2>6, ToldRows
<1>3. ASSUME NEW e \in Events, Redeliver(e) PROVE Told'
  <2>1. /\ UNCHANGED <<places, error, dirty>>
        /\ status[e] = "failed" /\ status' = [status EXCEPT ![e] = "pending"]
        /\ retries' = [retries EXCEPT ![e] = 0] /\ posts' = [posts EXCEPT ![e] = 0]
        /\ acked' = acked \ {e}
    BY <1>3 DEF Redeliver, SetStatus, places
  <2>2. /\ status \in [Events -> Statuses] /\ retries \in [Events -> Nat]
        /\ posts \in [Ids -> Nat] /\ e \in Ids
    BY DEF Inv, TypeOK, Ids
  <2>3. Clean' = Clean /\ Clean \subseteq Events /\ Clean \subseteq Ids
    BY <2>1 DEF Clean, Ids
  <2>4. ASSUME NEW x \in Clean, x # e
        PROVE  /\ posts'[x] = posts[x] /\ (x \in acked' <=> x \in acked)
               /\ status'[x] = status[x] /\ retries'[x] = retries[x] /\ error'[x] = error[x]
    BY <2>1, <2>2, <2>3, <2>4
  <2>5. ASSUME NEW k \in Instances, NEW c \in Waiting(k)', c.id \in Clean' PROVE Fresh(c)'
    <3>1. c \in Waiting(k)
      BY <2>1, WaitingStill DEF places
    <3>2. c.id # e /\ c.id \in Clean
      BY <2>1, <2>3, <2>5, <3>1, Owned DEF Carried
    <3>. QED  BY <2>4, <3>1, <3>2 DEF Told, Fresh
  <2>6. ASSUME NEW k \in Instances, NEW j \in jobs'[k], j.copy.id \in Clean' PROVE JobTells(j)'
    <3>1. j \in jobs[k]
      BY <2>1 DEF places
    <3>2. j.copy.id # e /\ j.copy.id \in Clean
      BY <2>1, <2>3, <2>6, <3>1, Owned DEF Carried
    <3>. QED  BY <2>4, <3>1, <3>2 DEF Told, JobTells, Fresh
  <2>7. ASSUME NEW x \in Clean' PROVE RowTells(x)'
    <3>1. CASE x = e
      <4>1. status'[e] = "pending" /\ retries'[e] = 0 /\ posts'[e] = 0 /\ e \notin acked'
        BY <2>1, <2>2
      <4>2. 0 < Budget(e) /\ 0 <= Budget(e)
        BY ConstantsAssumption DEF ConstantsAssumption, Budget, Ids
      <4>. QED  BY <3>1, <4>1, <4>2 DEF RowTells, Budget
    <3>2. CASE x # e
      BY <2>3, <2>4, <3>2 DEF Told, RowTells
    <3>. QED  BY <3>1, <3>2
  <2>. QED  BY <2>5, <2>6, <2>7 DEF Told
<1>. QED  BY <1>1, <1>2, <1>3

LEMMA ToldPoller ==
  ASSUME Inv, Told, NEW i \in Instances, Poller(i) \/ SelectEnds(i)
  PROVE  Told'
<1>. USE DEF db, table, polling, working, manual, history, counts
<1>1. CASE Fetch(i) \/ QueueFull(i) \/ FetchEnds(i) \/ SelectEnds(i)
  <2>1. UNCHANGED <<places, table, posts, acked, dirty>>
    BY <1>1 DEF Fetch, QueueFull, FetchEnds, SelectEnds, places
  <2>. QED  BY <2>1, ToldStill
\* A row that is claimed as it was read is pending or retrying: its history is that of
\* its retry count, which the copy takes along.
<1>2. CASE Claim(i)
  <2>1. PICK c \in NextRow(i) :
          /\ \/ /\ SetStatus(c.id, "processing")
                /\ dirty' = IF AsRead(c) THEN dirty ELSE dirty \cup {c.id}
             \/ UNCHANGED status /\ dirty' = dirty \cup {c.id}
          /\ claim' = [claim EXCEPT ![i] = {c}]
    BY <1>2 DEF Claim
  <2>2. UNCHANGED <<held, queue, jobs, retries, error, posts, acked>>
    BY <1>2 DEF Claim
  <2>3. /\ claim \in [Instances -> SUBSET RowCopies] /\ status \in [Events -> Statuses]
        /\ c \in RowCopies /\ c.id \in Events
    BY DEF Inv, TypeOK, NextRow, RowCopies
  <2>4. \A e \in Clean' : e \in Clean /\ e \in Events
    BY <2>1 DEF Clean
  <2>5. ASSUME c.id \in Clean'
        PROVE  AsRead(c) /\ Fresh(c) /\ status'[c.id] = "processing"
    <3>1. AsRead(c) /\ SetStatus(c.id, "processing")
      BY <2>1, <2>3, <2>5 DEF Clean
    <3>2. RowTells(c.id)
      BY <2>4, <2>5 DEF Told
    <3>3. Fresh(c)
      BY <3>1, <3>2 DEF RowTells, AsRead, Fresh
    <3>. QED  BY <2>3, <3>1, <3>3 DEF SetStatus
  <2>6. ASSUME NEW k \in Instances, NEW d \in Waiting(k)', d.id \in Clean'
        PROVE  Fresh(d) \/ d \in Waiting(k)
    <3>1. d \in Waiting(k) \/ d = c
      BY <2>1, <2>2, <2>3 DEF Waiting, Queued
    <3>. QED  BY <2>5, <2>6, <3>1
  <2>7. ASSUME NEW e \in Clean'
        PROVE  RowTells(e)' \/ (status'[e] = status[e] /\ retries'[e] = retries[e]
                                                       /\ error'[e] = error[e])
    <3>1. CASE e = c.id
      <4>1. RowTells(e)
        BY <2>4 DEF Told
      <4>. QED  BY <2>2, <2>5, <2>7, <3>1, <4>1 DEF RowTells
    <3>2. CASE e # c.id
      BY <2>1, <2>2, <2>3, <2>4, <3>2 DEF SetStatus
    <3>. QED  BY <3>1, <3>2
  <2>8. dirty \subseteq dirty'
    BY <2>1
  <2>. QED  BY <2>2, <2>6, <2>7, <2>8, ToldRows
<1>3. CASE Enqueue(i)
  <2>1. PICK c \in claim[i] : queue' = [queue EXCEPT ![i] = Append(@, c)]
    BY <1>3 DEF Enqueue
  <2>2. /\ Len(queue[i]) < QueueCap /\ claim' = [claim EXCEPT ![i] = {}]
        /\ UNCHANGED <<held, jobs, table, posts, acked, dirty>>
    BY <1>3 DEF Enqueue
  <2>3. c \in Copies /\ claim \in [Instances -> SUBSET RowCopies]
    BY RowCopiesAreCopies DEF Inv, TypeOK
  <2>4. ASSUME NEW k \in Instances PROVE Waiting(k)' \subseteq Waiting(k)
    <3>1. claim'[k] \subseteq claim[k]
      BY <2>2, <2>3
    <3>2. Queued(k)' = Queued(k) \cup (IF k = i THEN {c} ELSE {})
      BY <2>1, <2>2, <2>3, WaitingAppended
    <3>. QED  BY <2>2, <3>1, <3>2 DEF Waiting
  <2>. QED  BY <2>2, <2>4, ToldRows
<1>4. CASE Release(i)
  <2>1. PICK c \in claim[i] : UNCHANGED status \/ SetStatus(c.id, "pending")
    BY <1>4 DEF Release
  <2>2. /\ claim' = [claim EXCEPT ![i] = {}]
        /\ UNCHANGED <<held, queue, jobs, retries, error, posts, acked, dirty>>
    BY <1>4 DEF Release
  <2>3. claim \in [Instances -> SUBSET RowCopies] /\ status \in [Events -> Statuses]
    BY DEF Inv, TypeOK
  <2>4. \A k \in Instances : Waiting(k)' \subseteq Waiting(k)
    BY <2>2, <2>3 DEF Waiting, Queued
  <2>5. ASSUME NEW e \in Clean'
        PROVE  RowTells(e)' \/ (status'[e] = status[e] /\ retries'[e] = retries[e]
                                                       /\ error'[e] = error[e])
    <3>1. e \in Clean /\ e \in Events
      BY <2>2 DEF Clean
    <3>2. CASE e = c.id /\ SetStatus(c.id, "pending")
      <4>1. c \in Waiting(i) /\ c \in Carried(i)
        BY DEF Waiting, Carried
      <4>2. Fresh(c) /\ retries[e] = c.retry /\ RowTells(e)
        BY <3>1, <3>2, <4>1, Owned DEF Told
      <4>3. status'[e] = "pending"
        BY <2>3, <3>1, <3>2 DEF SetStatus
      <4>. QED  BY <2>2, <3>2, <4>2, <4>3 DEF RowTells, Fresh
    <3>3. CASE e # c.id \/ UNCHANGED status
      BY <2>1, <2>2, <2>3, <3>1, <3>3 DEF SetStatus
    <3>. QED  BY <2>1, <3>2, <3>3
  <2>. QED  BY <2>2, <2>4, <2>5, ToldRows
<1>. QED  BY <1>1, <1>2, <1>3, <1>4 DEF Poller

LEMMA ToldSendManual ==
  ASSUME Inv, Told, NEW i \in Instances, NEW m \in Manual, SendManual(i, m)
  PROVE  Told'
<1>. USE DEF db, table, polling, working, manual, history, counts
<1>. DEFINE c == [id |-> m, retry |-> 0]
<1>1. /\ queue' = [queue EXCEPT ![i] = Append(@, c)] /\ Len(queue[i]) < QueueCap
      /\ UNCHANGED <<claim, held, jobs, table, posts, acked, dirty>>
  BY DEF SendManual
<1>2. c \in Copies /\ c.id = m /\ m \notin Clean'
  BY ConstantsAssumption DEF ConstantsAssumption, Copies, Ids, Clean
<1>. HIDE DEF c
<1>3. ASSUME NEW k \in Instances, NEW d \in Waiting(k)', d.id \in Clean' PROVE d \in Waiting(k)
  <2>1. Queued(k)' = Queued(k) \cup (IF k = i THEN {c} ELSE {})
    BY <1>1, <1>2, WaitingAppended
  <2>2. d # c
    BY <1>2, <1>3
  <2>. QED  BY <1>1, <1>3, <2>1, <2>2 DEF Waiting
<1>. QED  BY <1>1, <1>3, ToldRows

LEMMA ToldProcessor ==
  ASSUME Inv, Told, NEW i \in Instances, Processor(i)
  PROVE  Told'
<1>. USE DEF db, table, polling, working, manual, history, counts
<1>1. /\ held \in [Instances -> SUBSET Copies] /\ jobs \in [Instances -> SUBSET Jobs]
  BY DEF Inv, TypeOK
<1>2. CASE Take(i)
  <2>1. /\ queue[i] # << >> /\ queue' = [queue EXCEPT ![i] = Tail(@)]
        /\ held' = [held EXCEPT ![i] = {Head(queue[i])}]
        /\ UNCHANGED <<claim, jobs, table, posts, acked, dirty>>
    BY <1>2 DEF Take
  <2>2. ASSUME NEW k \in Instances PROVE Waiting(k)' \subseteq Waiting(k)
    <3>1. Queued(k) = Queued(k)' \cup (IF k = i THEN {Head(queue[i])} ELSE {})
      BY <2>1, WaitingTaken
    <3>2. held'[k] \subseteq held[k] \cup (IF k = i THEN {Head(queue[i])} ELSE {})
      BY <1>1, <2>1
    <3>. QED  BY <2>1, <3>1, <3>2 DEF Waiting
  <2>. QED  BY <2>1, <2>2, ToldRows
<1>3. CASE StartJob(i)
  <2>1. PICK c \in held[i], s \in Idle(i) :
          jobs' = [jobs EXCEPT ![i] = @ \cup {[slot |-> s, copy |-> c, pc |-> "lookup"]}]
    BY <1>3 DEF StartJob
  <2>2. /\ held' = [held EXCEPT ![i] = {}]
        /\ UNCHANGED <<claim, queue, table, posts, acked, dirty>>
    BY <1>3 DEF StartJob
  <2>. DEFINE new == [slot |-> s, copy |-> c, pc |-> "lookup"]
  <2>3. new.copy = c /\ new.pc = "lookup"
    OBVIOUS
  <2>4. \A k \in Instances : jobs'[k] \subseteq jobs[k] \cup (IF k = i THEN {new} ELSE {})
    BY <1>1, <2>1
  <2>. HIDE DEF new
  <2>5. \A k \in Instances : Waiting(k)' \subseteq Waiting(k)
    BY <1>1, <2>2 DEF Waiting, Queued
  <2>6. ASSUME c.id \in Clean' PROVE JobTells(new)
    <3>1. c \in Waiting(i) /\ c.id \in Clean
      BY <2>2, <2>6 DEF Waiting, Clean
    <3>2. Fresh(c)
      BY <3>1 DEF Told
    <3>. QED  BY <2>3, <3>2 DEF JobTells, Fresh
  <2>7. ASSUME NEW k \in Instances, NEW j \in jobs'[k], j.copy.id \in Clean'
        PROVE  JobTells(j) \/ j \in jobs[k]
    BY <2>3, <2>4, <2>6, <2>7
  <2>. QED  BY <2>2, <2>5, <2>7, ToldRows
<1>. QED  BY <1>2, <1>3 DEF Processor

\* A worker that advances puts its job back with another pc.
LEMMA Advanced ==
  ASSUME Inv, NEW i \in Instances, NEW j \in jobs[i], NEW pc, Advance(i, j, pc)
  PROVE  \E new : /\ new.slot = j.slot /\ new.copy = j.copy /\ new.pc = pc
                  /\ jobs'[i] = (jobs[i] \ {j}) \cup {new}
                  /\ \A k \in Instances \ {i} : jobs'[k] = jobs[k]
<1>. DEFINE new == [slot |-> j.slot, copy |-> j.copy, pc |-> pc]
<1>1. jobs \in [Instances -> SUBSET Jobs]
  BY DEF Inv, TypeOK
<1>2. /\ new.slot = j.slot /\ new.copy = j.copy /\ new.pc = pc
      /\ jobs'[i] = (jobs[i] \ {j}) \cup {new}
      /\ \A k \in Instances \ {i} : jobs'[k] = jobs[k]
  BY <1>1 DEF Advance
<1>. QED  BY <1>2

LEMMA ToldLookup ==
  ASSUME Inv, Told, NEW i \in Instances, NEW j \in jobs[i], Lookup(i, j)
  PROVE  Told'
<1>. USE DEF db, table, polling, working, manual, history, counts
<1>. DEFINE to == IF TriggerOf[j.copy.id] \in registered[i] THEN "post" ELSE "missing"
<1>1. /\ j.pc = "lookup" /\ Advance(i, j, to)
      /\ UNCHANGED <<claim, held, queue, table, posts, acked, dirty>>
  BY DEF Lookup
<1>. HIDE DEF to
<1>2. PICK new : /\ new.copy = j.copy /\ new.pc = to
                 /\ jobs'[i] = (jobs[i] \ {j}) \cup {new}
                 /\ \A k \in Instances \ {i} : jobs'[k] = jobs[k]
  BY <1>1, Advanced
<1>3. ASSUME NEW k \in Instances, NEW l \in jobs'[k], l.copy.id \in Clean'
      PROVE  JobTells(l) \/ l \in jobs[k]
  <2>1. CASE l = new
    <3>1. JobTells(j)
      BY <1>1, <1>2, <1>3, <2>1 DEF Told, Clean
    <3>2. to \in {"post", "missing"}
      BY DEF to
    <3>. QED  BY <1>1, <1>2, <2>1, <3>1, <3>2 DEF JobTells
  <2>. QED  BY <1>2, <1>3, <2>1
<1>4. \A k \in Instances : Waiting(k)' = Waiting(k)
  BY <1>1, WaitingStill
<1>. QED  BY <1>1, <1>3, <1>4, ToldRows

\* The one step that changes the history: no other copy of the event is there that it
\* would make stale.
LEMMA ToldPost ==
  ASSUME Inv, Told, NEW i \in Instances, NEW j \in jobs[i], Post(i, j)
  PROVE  Told'
<1>. USE DEF db, table, polling, working, manual, history, counts
<1>. DEFINE e == j.copy.id
<1>1. PICK pc :
        /\ j.pc = "post" /\ Advance(i, j, pc)
        /\ UNCHANGED <<claim, held, queue, table, dirty>>
        /\ \/ pc = "bad" /\ UNCHANGED <<posts, acked>>
           \/ /\ pc = "ok" /\ posts' = [posts EXCEPT ![e] = @ + 1]
              /\ acked' = acked \cup {e}
           \/ /\ pc = AfterFailure(j.copy) /\ posts' = [posts EXCEPT ![e] = @ + 1]
              /\ acked' = acked
  BY DEF Post
<1>2. PICK new : /\ new.copy = j.copy /\ new.pc = pc
                 /\ jobs'[i] = (jobs[i] \ {j}) \cup {new}
                 /\ \A k \in Instances \ {i} : jobs'[k] = jobs[k]
  BY <1>1, Advanced
<1>3. /\ j.copy \in Carried(i) /\ j.copy \in Copies /\ e \in Ids /\ j.copy.retry \in Nat
      /\ posts \in [Ids -> Nat]
  <2>1. j.copy \in Carried(i)
    BY DEF Carried
  <2>. QED  BY <2>1, CarriedType DEF Inv, TypeOK
<1>4. Clean' = Clean /\ Clean \subseteq Ids
  BY <1>1 DEF Clean, Ids
<1>11. new.copy.id = e
  BY <1>2
<1>. HIDE DEF e
<1>5. ASSUME NEW x \in Clean, x # e
      PROVE  posts'[x] = posts[x] /\ (x \in acked' <=> x \in acked)
  BY <1>1, <1>3, <1>4, <1>5
<1>6. ASSUME NEW k \in Instances, NEW c \in Waiting(k)', c.id \in Clean' PROVE Fresh(c)'
  <2>1. c \in Waiting(k) /\ c.id \in Clean
    BY <1>1, <1>4, <1>6, WaitingStill
  <2>2. c.id # e
    BY <2>1, Alone DEF e
  <2>. QED  BY <1>5, <2>1, <2>2 DEF Told, Fresh
<1>7. ASSUME NEW k \in Instances, NEW l \in jobs'[k], l.copy.id \in Clean', l # new \/ k # i
      PROVE  JobTells(l)'
  <2>1. l \in jobs[k] /\ l.copy.id \in Clean /\ (k # i \/ l # j)
    BY <1>2, <1>4, <1>7
  <2>2. l.copy.id # e
    BY <2>1, Alone DEF e
  <2>. QED  BY <1>5, <2>1, <2>2 DEF Told, JobTells, Fresh
<1>8. ASSUME e \in Clean PROVE JobTells(new)' /\ RowTells(e)'
  <2>1. posts[e] = j.copy.retry /\ e \notin acked
    BY <1>1, <1>8 DEF Told, JobTells, Fresh, e
  <2>2. status[e] = "processing" /\ retries[e] = j.copy.retry
    BY <1>3, <1>8, Owned DEF e
  <2>3. retries[e] < Budget(e) /\ posts[e] <= Budget(e) /\ Budget(e) \in Int
    <3>1. RetryLimit[TriggerOf[e]] \in Int
      BY <1>3, ConstantsAssumption DEF ConstantsAssumption
    <3>2. Budget(e) \in Int
      BY <3>1 DEF Budget
    <3>. QED  BY <1>8, <3>2 DEF Told, RowTells
  <2>4. RowTells(e)'
    <3>1. posts'[e] = posts[e] \/ posts'[e] = posts[e] + 1
      BY <1>1, <1>3
    <3>2. posts'[e] <= Budget(e)
      BY <1>3, <2>1, <2>2, <2>3, <3>1
    <3>. QED  BY <1>1, <2>2, <2>3, <3>2 DEF RowTells, Budget
  <2>5. CASE pc = "bad" /\ UNCHANGED <<posts, acked>>
    BY <1>2, <1>11, <2>1, <2>4, <2>5 DEF JobTells, Fresh
  <2>6. CASE pc # "bad" \/ ~UNCHANGED <<posts, acked>>
    <3>1. posts'[e] = j.copy.retry + 1
      BY <1>1, <1>3, <2>1, <2>6
    <3>2. CASE pc = "ok" /\ acked' = acked \cup {e}
      BY <1>2, <1>11, <2>4, <3>1, <3>2 DEF JobTells
    <3>3. CASE pc = AfterFailure(j.copy) /\ acked' = acked
      <4>1. LimitOf(j.copy) \in Int
        BY <1>3, ConstantsAssumption DEF ConstantsAssumption, LimitOf, e
      <4>2. \/ pc = "giveup" /\ j.copy.retry >= LimitOf(j.copy)
            \/ pc = "retry" /\ j.copy.retry < LimitOf(j.copy)
        BY <1>3, <3>3, <4>1 DEF AfterFailure, LimitOf
      <4>. QED  BY <1>2, <1>11, <2>1, <2>4, <3>1, <3>3, <4>2 DEF JobTells, LimitOf
    <3>. QED  BY <1>1, <2>6, <3>2, <3>3
  <2>. QED  BY <2>4, <2>5, <2>6
<1>9. ASSUME NEW x \in Clean' PROVE RowTells(x)'
  <2>1. CASE x # e
    BY <1>1, <1>4, <1>5, <2>1 DEF Told, RowTells
  <2>. QED  BY <1>4, <1>8, <2>1
<1>10. ASSUME NEW k \in Instances, NEW l \in jobs'[k], l.copy.id \in Clean' PROVE JobTells(l)'
  <2>1. CASE l = new /\ k = i
    <3>1. e \in Clean
      BY <1>2, <1>4, <1>10, <2>1 DEF e
    <3>. QED  BY <1>8, <2>1, <3>1
  <2>. QED  BY <1>7, <1>10, <2>1
<1>. QED  BY <1>6, <1>9, <1>10 DEF Told

\* The worker writes what it has told.
LEMMA ToldMark ==
  ASSUME Inv, Told, NEW i \in Instances, NEW j \in jobs[i], Mark(i, j)
  PROVE  Told'
<1>. USE DEF db, table, polling, working, manual, history, counts
<1>. DEFINE e == j.copy.id
<1>1. /\ j.pc \notin {"lookup", "post"} /\ jobs' = [jobs EXCEPT ![i] = @ \ {j}]
      /\ UNCHANGED <<claim, held, queue, posts, acked, dirty>>
      /\ UNCHANGED table \/ (e \in Events /\ Record(e, j.pc))
  BY DEF Mark
<1>2. /\ j.copy \in Carried(i) /\ j.copy \in Copies /\ e \in Ids /\ j.copy.retry \in Nat
      /\ j.pc \in {"lookup", "missing", "post", "bad", "ok", "giveup", "retry"}
      /\ jobs \in [Instances -> SUBSET Jobs]
  <2>1. j.copy \in Carried(i)
    BY DEF Carried
  <2>2. j \in Jobs /\ jobs \in [Instances -> SUBSET Jobs]
    BY DEF Inv, TypeOK
  <2>. QED  BY <2>1, <2>2, CarriedType DEF Jobs
<1>3. \A k \in Instances : Waiting(k)' = Waiting(k) /\ jobs'[k] \subseteq jobs[k]
  BY <1>1, <1>2, WaitingStill
<1>4. /\ status \in [Events -> Statuses] /\ retries \in [Events -> Nat]
      /\ error \in [Events -> Reasons] /\ posts \in [Ids -> Nat]
  BY DEF Inv, TypeOK
<1>. HIDE DEF e
<1>5. ASSUME NEW x \in Clean'
      PROVE  RowTells(x)' \/ (status'[x] = status[x] /\ retries'[x] = retries[x]
                                                     /\ error'[x] = error[x])
  <2>1. x \in Clean /\ x \in Events
    BY <1>1 DEF Clean
  <2>2. CASE UNCHANGED table
    BY <2>2
  <2>3. CASE e \in Events /\ Record(e, j.pc) /\ x # e
    <3>1. status'[x] = status[x]
      BY <1>4, <2>1, <2>3 DEF Record, SetStatus
    <3>2. retries'[x] = retries[x]
      BY <1>4, <2>1, <2>3 DEF Record
    <3>3. error'[x] = error[x]
      BY <1>4, <2>1, <2>3 DEF Record
    <3>. QED  BY <3>1, <3>2, <3>3
  <2>4. CASE e \in Events /\ Record(e, j.pc) /\ x = e
    <3>1. JobTells(j) /\ RowTells(e) /\ retries[e] = j.copy.retry
      BY <1>2, <2>1, <2>4, Owned DEF Told, e
    <3>2. status'[e] = NewStatus(j.pc)
      BY <1>4, <2>4 DEF Record, SetStatus
    <3>3. retries'[e] = IF j.pc = "retry" THEN retries[e] + 1 ELSE retries[e]
      BY <1>4, <2>4 DEF Record
    <3>4. j.pc # "ok" => error'[e] = NewError(j.pc)
      BY <1>4, <2>4 DEF Record
    <3>5. RetryLimit[TriggerOf[e]] \in Int /\ posts[e] \in Nat /\ retries[e] \in Nat
      BY <1>2, <1>4, <2>4, ConstantsAssumption DEF ConstantsAssumption
    <3>6. /\ LimitOf(j.copy) = RetryLimit[TriggerOf[e]]
          /\ Budget(e) = IF RetryLimit[TriggerOf[e]] > 0 THEN RetryLimit[TriggerOf[e]] + 1 ELSE 1
      BY DEF LimitOf, Budget, e
    <3>7. CASE j.pc = "ok"
      <4>1. status'[e] = "delivered" /\ e \in acked
        BY <3>1, <3>2, <3>7 DEF NewStatus, JobTells, e
      <4>. QED  BY <1>1, <2>4, <3>1, <3>3, <3>7, <4>1 DEF RowTells, Budget
    <3>8. CASE j.pc = "retry"
      <4>1. status'[e] = "retrying" /\ e \notin acked /\ posts[e] = retries[e] + 1
        BY <3>1, <3>2, <3>8 DEF NewStatus, JobTells, e
      <4>2. retries[e] + 1 < Budget(e)
        BY <3>1, <3>5, <3>6, <3>8 DEF JobTells
      <4>. QED  BY <1>1, <2>4, <3>1, <3>3, <3>8, <4>1, <4>2 DEF RowTells, Budget
    <3>9. CASE j.pc = "giveup"
      <4>1. status'[e] = "failed" /\ e \notin acked /\ posts[e] = retries[e] + 1
        BY <3>1, <3>2, <3>9 DEF NewStatus, JobTells, e
      <4>2. posts[e] = Budget(e)
        <5>1. retries[e] >= RetryLimit[TriggerOf[e]] /\ retries[e] < Budget(e)
          BY <3>1, <3>6, <3>9 DEF JobTells, RowTells
        <5>. QED  BY <3>5, <3>6, <4>1, <5>1
      <4>. QED  BY <1>1, <2>4, <3>1, <3>3, <3>9, <4>1, <4>2 DEF RowTells, Budget
    <3>10. CASE j.pc \in {"missing", "bad"}
      <4>1. status'[e] = "failed" /\ e \notin acked /\ error'[e] # "post"
        BY <3>1, <3>2, <3>4, <3>10 DEF NewStatus, NewError, JobTells, e
      <4>. QED  BY <1>1, <2>4, <3>1, <3>3, <3>10, <4>1 DEF RowTells, Budget
    <3>. QED  BY <1>1, <1>2, <3>7, <3>8, <3>9, <3>10
  <2>. QED  BY <1>1, <2>2, <2>3, <2>4
<1>. QED  BY <1>1, <1>3, <1>5, ToldRows

LEMMA ToldInit == Init => Told
<1>. SUFFICES ASSUME Init PROVE Told
  OBVIOUS
<1>1. ASSUME NEW i \in Instances PROVE Waiting(i) = {} /\ jobs[i] = {}
  <2>1. claim[i] = {} /\ held[i] = {} /\ jobs[i] = {} /\ queue[i] = << >>
    BY DEF Init
  <2>2. Queued(i) = {}
    BY <2>1 DEF Queued
  <2>. QED  BY <2>1, <2>2 DEF Waiting
<1>2. ASSUME NEW e \in Clean PROVE RowTells(e)
  <2>1. e \in Events /\ e \in Ids
    BY DEF Clean, Ids
  <2>2. status[e] = "none" /\ retries[e] = 0 /\ posts[e] = 0 /\ e \notin acked
    BY <2>1 DEF Init
  <2>3. RetryLimit[TriggerOf[e]] \in Int
    BY <2>1, ConstantsAssumption DEF ConstantsAssumption
  <2>. QED  BY <2>2, <2>3 DEF RowTells, Budget
<1>. QED  BY <1>1, <1>2 DEF Told

LEMMA ToldNext ==
  ASSUME Inv, Told, [Next]_vars
  PROVE  Told'
<1>1. CASE UNCHANGED vars
  <2>1. UNCHANGED <<places, table, posts, acked, dirty>>
    BY <1>1 DEF vars, places, db, polling, working, history
  <2>. QED  BY <2>1, ToldStill
<1>2. ASSUME NEW i \in Instances, NEW j \in jobs[i], Worker(i, j) PROVE Told'
  BY <1>2, ToldLookup, ToldPost, ToldMark DEF Worker
<1>3. ASSUME NEW i \in Instances, Poller(i) \/ SelectEnds(i) PROVE Told'
  BY <1>3, ToldPoller
<1>. QED  BY <1>1, <1>2, <1>3, ToldProcess, ToldProcessor, ToldCalls, ToldSendManual DEF Next

LEMMA ToldAlways == Spec => [](Inv /\ Told)
  BY InvInit, InvNext, ToldInit, ToldNext, PTL DEF Spec

-----------------------------------------------------------------------------
(* Attempts and outcomes *)

\* Through retries, crashes, failed statements and any number of processes, a webhook
\* sees an event whose claims were undisturbed no more often than its retry limit
\* allows, and exactly that often before the event is given up.
THEOREM AttemptsBounded == Spec => []RetryBudget
<1>1. Inv /\ Told => RetryBudget
  BY DEF Told, RowTells, RetryBudget
<1>. QED  BY <1>1, ToldAlways, PTL

\* The status of such an event is what the webhook answered, and nothing that is on
\* its way will be posted again once it has answered with 2xx.
THEOREM OutcomeTold == Spec => []StatusTellsOutcome
<1>1. ASSUME Inv, Told PROVE StatusTellsOutcome
  <2>1. ASSUME NEW e \in Clean, e \in acked, NEW p \in Places, NEW c \in At(p), c.id = e
        PROVE  p.kind = "job" /\ \A j \in jobs[p.inst] : j.copy = c => j.pc = "ok"
    <3>1. p.inst \in Instances
      BY DEF Places
    <3>2. ASSUME p.kind # "job" PROVE FALSE
      <4>1. c \in Waiting(p.inst)
        <5>1. ASSUME NEW k \in Instances, p = ClaimOf(k) PROVE c \in Waiting(p.inst)
          BY <2>1, <5>1, AtPlace DEF ClaimOf, Waiting
        <5>2. ASSUME NEW k \in Instances, p = HeldOf(k) PROVE c \in Waiting(p.inst)
          BY <2>1, <5>2, AtPlace DEF HeldOf, Waiting
        <5>3. ASSUME NEW k \in Instances, NEW n \in 1..QueueCap, p = QueueOf(k, n)
              PROVE  c \in Waiting(p.inst)
          BY <2>1, <5>3, AtPlace DEF QueueOf, Waiting, Queued
        <5>. QED  BY <3>2, <5>1, <5>2, <5>3, PlaceCases DEF JobOf
      <4>. QED  BY <1>1, <2>1, <3>1, <4>1 DEF Told, Fresh
    <3>3. ASSUME NEW j \in jobs[p.inst], j.copy = c PROVE j.pc = "ok"
      BY <1>1, <2>1, <3>1, <3>3 DEF Told, JobTells
    <3>. QED  BY <3>2, <3>3
  <2>2. ASSUME NEW e \in Clean
        PROVE  /\ status[e] = "delivered" => e \in acked
               /\ status[e] \in {"failed", "pending", "retrying"} => e \notin acked
    BY <1>1, <2>2 DEF Told, RowTells
  <2>. QED  BY <2>1, <2>2 DEF StatusTellsOutcome
<1>. QED  BY <1>1, ToldAlways, PTL

-----------------------------------------------------------------------------
(* No row is stranded *)

LEMMA OneInHandNext ==
  ASSUME Inv, OneInHand, [Next]_vars
  PROVE  OneInHand'
<1>. USE DEF OneInHand, db, table, polling, working, manual, history, counts
<1>1. /\ pollPc \in [Instances -> {"idle", "rows", "send", "release", "done"}]
      /\ claim \in [Instances -> SUBSET RowCopies] /\ held \in [Instances -> SUBSET Copies]
  BY DEF Inv, TypeOK
<1>2. CASE UNCHANGED <<pollPc, claim, held>>
  BY <1>2
<1>3. ASSUME NEW i \in Instances, Process(i) PROVE OneInHand'
  <2>1. CASE Create(i) \/ Start(i) \/ Stop(i) \/ ProcessorReturn(i)
    BY <1>2, <2>1 DEF Create, Start, Stop, ProcessorReturn
  <2>2. CASE PollerReturn(i)
    BY <1>1, <2>2 DEF PollerReturn
  <2>3. CASE Exit(i)
    BY <1>1, <2>3 DEF Exit
  <2>. QED  BY <1>3, <2>1, <2>2, <2>3 DEF Process
<1>4. ASSUME NEW i \in Instances, Poller(i) \/ SelectEnds(i) PROVE OneInHand'
  <2>1. CASE Fetch(i)
    BY <1>1, <2>1 DEF Fetch
  <2>2. CASE Claim(i)
    <3>1. PICK c : claim' = [claim EXCEPT ![i] = {c}]
      BY <2>2 DEF Claim
    <3>2. pollPc' = [pollPc EXCEPT ![i] = "send"] /\ held' = held
      BY <2>2 DEF Claim
    <3>. QED  BY <1>1, <3>1, <3>2
  <2>3. CASE Enqueue(i)
    BY <1>1, <2>3 DEF Enqueue
  <2>4. CASE QueueFull(i)
    BY <1>1, <2>4 DEF QueueFull
  <2>5. CASE Release(i)
    BY <1>1, <2>5 DEF Release
  <2>6. CASE FetchEnds(i)
    BY <1>1, <2>6 DEF FetchEnds
  <2>7. CASE SelectEnds(i)
    BY <1>2, <2>7 DEF SelectEnds
  <2>. QED  BY <1>4, <2>1, <2>2, <2>3, <2>4, <2>5, <2>6, <2>7 DEF Poller
<1>5. ASSUME NEW i \in Instances, Processor(i) PROVE OneInHand'
  <2>1. /\ UNCHANGED <<pollPc, claim>>
        /\ \E d : held' = [held EXCEPT ![i] = {d}] \/ held' = [held EXCEPT ![i] = {}]
    BY <1>5 DEF Processor, Take, StartJob
  <2>. QED  BY <1>1, <2>1
<1>6. ASSUME NEW i \in Instances, NEW j \in jobs[i], Worker(i, j) PROVE OneInHand'
  BY <1>2, <1>6 DEF Worker, Lookup, Post, Mark
<1>7. CASE \/ \E i \in Instances, t \in Triggers : Register(i, t) \/ Unregister(i, t)
           \/ \E i \in Instances, m \in Manual : Invoke(i, m) \/ SendManual(i, m)
           \/ \E e \in Events : Capture(e) \/ Redeliver(e)
  BY <1>2, <1>7 DEF Register, Unregister, Invoke, SendManual, Capture, Redeliver
<1>8. CASE UNCHANGED vars
  BY <1>2, <1>8 DEF vars
<1>. QED  BY <1>3, <1>4, <1>5, <1>6, <1>7, <1>8 DEF Next

\* A row that says "processing" after a step without fault did so before it, and its
\* copies are still carried; or one has come.
LEMMA KeptIf ==
  ASSUME ASSUME faults' = faults, NEW e \in Events, status'[e] = "processing"
         PROVE  \/ \E i \in Instances : \E c \in Carried(i)' : c.id = e
                \/ /\ status[e] = "processing"
                   /\ \A i \in Instances : \A c \in Carried(i) : c.id = e => c \in Carried(i)'
  PROVE  Kept
<1>. SUFFICES ASSUME NEW e \in Events, status'[e] = "processing", ~OnItsWay(e)',
                     faults' = faults, ~LeftBehind(e)'
              PROVE  status[e] = "processing" /\ ~OnItsWay(e)
  BY DEF Kept
<1>1. ASSUME NEW i \in Instances, NEW c \in Carried(i)', c.id = e PROVE FALSE
  <2>1. CASE c \in Queued(i)' /\ i \in procDone'
    BY <1>1, <2>1 DEF LeftBehind
  <2>2. CASE c \in (claim[i] \cup held[i] \cup {j.copy : j \in jobs[i]}
                    \cup (IF i \in procDone THEN {} ELSE Queued(i)))'
    BY <1>1, <2>2 DEF OnItsWay
  <2>. QED  BY <1>1, <2>1, <2>2 DEF Carried, Waiting
<1>2. /\ status[e] = "processing"
      /\ \A i \in Instances : \A c \in Carried(i) : c.id = e => c \in Carried(i)'
  BY <1>1
<1>3. \A i \in Instances : \A c \in Carried(i) : c.id # e
  BY <1>1, <1>2
<1>. QED  BY <1>2, <1>3 DEF OnItsWay, Carried, Waiting

LEMMA CarriedStill ==
  ASSUME NEW k, UNCHANGED places
  PROVE  Carried(k)' = Carried(k)
  BY DEF places, Carried, Waiting, Queued

LEMMA KeptPoller ==
  ASSUME Inv, OneInHand, NEW i \in Instances, Poller(i) \/ SelectEnds(i)
  PROVE  Kept
<1>. USE DEF db, table, polling, working, manual, history, counts
<1>1. /\ claim \in [Instances -> SUBSET RowCopies] /\ status \in [Events -> Statuses]
      /\ faults \in Nat
  BY ConstantsAssumption DEF ConstantsAssumption, Inv, TypeOK
<1>2. CASE Fetch(i) \/ QueueFull(i) \/ FetchEnds(i) \/ SelectEnds(i)
  <2>1. UNCHANGED <<places, status>>
    BY <1>2 DEF Fetch, QueueFull, FetchEnds, SelectEnds, places
  <2>. QED  BY <2>1, CarriedStill, KeptIf
<1>3. CASE Claim(i)
  <2>1. PICK c \in NextRow(i) :
          /\ SetStatus(c.id, "processing") \/ Fails
          /\ claim' = [claim EXCEPT ![i] = {c}]
    BY <1>3 DEF Claim
  <2>2. UNCHANGED <<held, queue, jobs>> /\ claim[i] = {}
    BY <1>3 DEF Claim, OneInHand
  <2>3. \A k \in Instances : Carried(k) \subseteq Carried(k)' /\ c \in Carried(i)'
    BY <1>1, <2>1, <2>2 DEF Carried, Waiting, Queued
  <2>4. ASSUME faults' = faults, NEW e \in Events, status'[e] = "processing", status[e] # "processing"
        PROVE  e = c.id
    BY <1>1, <2>1, <2>4 DEF Fails, SetStatus
  <2>. QED  BY <2>3, <2>4, KeptIf
<1>4. CASE Enqueue(i)
  <2>1. PICK c \in claim[i] : queue' = [queue EXCEPT ![i] = Append(@, c)]
    BY <1>4 DEF Enqueue
  <2>2. /\ Len(queue[i]) < QueueCap /\ claim' = [claim EXCEPT ![i] = {}]
        /\ UNCHANGED <<held, jobs, status>> /\ claim[i] = {c}
    BY <1>4, <2>1 DEF Enqueue, OneInHand
  <2>3. c \in Copies
    BY <1>1, RowCopiesAreCopies
  <2>4. ASSUME NEW k \in Instances PROVE Carried(k) \subseteq Carried(k)'
    <3>1. Queued(k)' = Queued(k) \cup (IF k = i THEN {c} ELSE {})
      BY <2>1, <2>2, <2>3, WaitingAppended
    <3>2. claim[k] \subseteq claim'[k] \cup (IF k = i THEN {c} ELSE {})
      BY <1>1, <2>2
    <3>. QED  BY <2>2, <3>1, <3>2 DEF Carried, Waiting
  <2>. QED  BY <2>2, <2>4, KeptIf
<1>5. CASE Release(i)
  <2>1. PICK c \in claim[i] : SetStatus(c.id, "pending") \/ Fails
    BY <1>5 DEF Release
  <2>2. /\ claim' = [claim EXCEPT ![i] = {}] /\ claim[i] = {c}
        /\ UNCHANGED <<held, queue, jobs>>
        /\ UNCHANGED status \/ SetStatus(c.id, "pending")
    <3>1. claim[i] = {c}
      BY <1>5, <2>1 DEF Release, OneInHand
    <3>. QED  BY <1>5, <3>1 DEF Release
  <2>3. \A k \in Instances : \A d \in Carried(k) : d = c \/ d \in Carried(k)'
    BY <1>1, <2>2 DEF Carried, Waiting, Queued
  <2>4. c.id \in Events
    BY <1>1, <2>2 DEF RowCopies
  <2>5. ASSUME faults' = faults, NEW e \in Events, status'[e] = "processing"
        PROVE  status[e] = "processing" /\ e # c.id
    BY <1>1, <2>1, <2>2, <2>4, <2>5 DEF Fails, SetStatus
  <2>. QED  BY <2>3, <2>5, KeptIf
<1>. QED  BY <1>2, <1>3, <1>4, <1>5 DEF Poller

LEMMA KeptWorking ==
  ASSUME Inv, OneInHand, NEW i \in Instances,
         Processor(i) \/ \E j \in jobs[i] : Worker(i, j)
  PROVE  Kept
<1>. USE DEF db, table, polling, working, manual, history, counts
<1>1. /\ held \in [Instances -> SUBSET Copies] /\ jobs \in [Instances -> SUBSET Jobs]
      /\ status \in [Events -> Statuses] /\ faults \in Nat
  BY ConstantsAssumption DEF ConstantsAssumption, Inv, TypeOK
<1>2. CASE Take(i)
  <2>1. /\ queue[i] # << >> /\ queue' = [queue EXCEPT ![i] = Tail(@)] /\ held[i] = {}
        /\ held' = [held EXCEPT ![i] = {Head(queue[i])}]
        /\ UNCHANGED <<claim, jobs, status>>
    BY <1>2 DEF Take
  <2>2. ASSUME NEW k \in Instances PROVE Carried(k) \subseteq Carried(k)'
    <3>1. Queued(k) = Queued(k)' \cup (IF k = i THEN {Head(queue[i])} ELSE {})
      BY <2>1, WaitingTaken
    <3>2. held[k] \cup (IF k = i THEN {Head(queue[i])} ELSE {}) \subseteq held'[k]
      BY <1>1, <2>1
    <3>. QED  BY <2>1, <3>1, <3>2 DEF Carried, Waiting
  <2>. QED  BY <2>1, <2>2, KeptIf
<1>3. CASE StartJob(i)
  <2>1. PICK c \in held[i], s \in Idle(i) :
          jobs' = [jobs EXCEPT ![i] = @ \cup {[slot |-> s, copy |-> c, pc |-> "lookup"]}]
    BY <1>3 DEF StartJob
  <2>2. /\ held' = [held EXCEPT ![i] = {}] /\ held[i] = {c}
        /\ UNCHANGED <<claim, queue, status>>
    BY <1>3, <2>1 DEF StartJob, OneInHand
  <2>. DEFINE new == [slot |-> s, copy |-> c, pc |-> "lookup"]
  <2>3. /\ new.copy = c /\ new \in jobs'[i]
        /\ \A k \in Instances : jobs[k] \subseteq jobs'[k]
    BY <1>1, <2>1
  <2>. HIDE DEF new
  <2>4. \A k \in Instances : \A d \in held[k] : d \in held'[k] \/ (k = i /\ d = c)
    BY <1>1, <2>2
  <2>5. \A k \in Instances : Carried(k) \subseteq Carried(k)'
    BY <2>2, <2>3, <2>4 DEF Carried, Waiting, Queued
  <2>. QED  BY <2>2, <2>5, KeptIf
<1>4. ASSUME NEW j \in jobs[i], NEW pc, Advance(i, j, pc),
             UNCHANGED <<claim, held, queue, status>>
      PROVE  Kept
  <2>1. PICK new : /\ new.copy = j.copy
                   /\ jobs'[i] = (jobs[i] \ {j}) \cup {new}
                   /\ \A k \in Instances \ {i} : jobs'[k] = jobs[k]
    BY <1>4, Advanced
  <2>2. \A k \in Instances : {l.copy : l \in jobs[k]} \subseteq {l.copy : l \in jobs'[k]}
    BY <2>1
  <2>3. \A k \in Instances : Carried(k) \subseteq Carried(k)'
    BY <1>4, <2>2, WaitingStill DEF Carried
  <2>. QED  BY <1>4, <2>3, KeptIf
<1>5. ASSUME NEW j \in jobs[i], Lookup(i, j) \/ Post(i, j) PROVE Kept
  <2>1. \E pc : Advance(i, j, pc)
    BY <1>5 DEF Lookup, Post
  <2>2. UNCHANGED <<claim, held, queue, status>>
    BY <1>5 DEF Lookup, Post
  <2>. QED  BY <1>4, <2>1, <2>2
<1>6. ASSUME NEW j \in jobs[i], Mark(i, j) PROVE Kept
  <2>1. /\ jobs' = [jobs EXCEPT ![i] = @ \ {j}] /\ UNCHANGED <<claim, held, queue>>
        /\ \/ j.copy.id \in Events /\ SetStatus(j.copy.id, NewStatus(j.pc))
           \/ j.copy.id \notin Events /\ UNCHANGED status
           \/ Fails /\ UNCHANGED status
    BY <1>6 DEF Mark, Record
  <2>2. NewStatus(j.pc) # "processing"
    BY DEF NewStatus
  <2>3. ASSUME faults' = faults, NEW e \in Events, status'[e] = "processing"
        PROVE  status[e] = "processing" /\ e # j.copy.id
    BY <1>1, <2>1, <2>2, <2>3 DEF Fails, SetStatus
  <2>4. \A k \in Instances : \A l \in jobs[k] : l \in jobs'[k] \/ l = j
    BY <1>1, <2>1
  <2>5. \A k \in Instances : \A c \in Carried(k) : c \in Carried(k)' \/ c = j.copy
    BY <2>1, <2>4, WaitingStill DEF Carried
  <2>. QED  BY <2>3, <2>5, KeptIf
<1>. QED  BY <1>2, <1>3, <1>5, <1>6 DEF Processor, Worker

LEMMA KeptNext ==
  ASSUME Inv, OneInHand, [Next]_vars
  PROVE  Kept
<1>. USE DEF db, table, polling, working, manual, history, counts
<1>2. CASE UNCHANGED <<places, status>>
  BY <1>2, CarriedStill, KeptIf
<1>3. ASSUME NEW i \in Instances, Process(i) PROVE Kept
  <2>1. CASE Exit(i)
    <3>1. exits' = exits + 1 /\ exits \in Nat
      BY <2>1, ConstantsAssumption DEF Exit, ConstantsAssumption, Inv, TypeOK
    <3>. QED  BY <3>1 DEF Kept
  <2>. QED  BY <1>2, <1>3, <2>1 DEF Process, Create, Start, Stop, PollerReturn,
                                    ProcessorReturn, places
<1>4. ASSUME NEW i \in Instances, NEW t \in Triggers, Register(i, t) \/ Unregister(i, t)
      PROVE  Kept
  BY <1>2, <1>4 DEF Register, Unregister, places
<1>5. ASSUME NEW i \in Instances, NEW m \in Manual, Invoke(i, m) PROVE Kept
  BY <1>2, <1>5 DEF Invoke, places
<1>6. ASSUME NEW i \in Instances, NEW m \in Manual, SendManual(i, m) PROVE Kept
  <2>. DEFINE c == [id |-> m, retry |-> 0]
  <2>1. /\ queue' = [queue EXCEPT ![i] = Append(@, c)] /\ Len(queue[i]) < QueueCap
        /\ UNCHANGED <<claim, held, jobs, status>>
    BY <1>6 DEF SendManual
  <2>2. c \in Copies
    BY DEF Copies, Ids
  <2>. HIDE DEF c
  <2>4. ASSUME NEW k \in Instances PROVE Carried(k) \subseteq Carried(k)'
    <3>1. Queued(k)' = Queued(k) \cup (IF k = i THEN {c} ELSE {})
      BY <2>1, <2>2, WaitingAppended
    <3>. QED  BY <2>1, <3>1 DEF Carried, Waiting
  <2>. QED  BY <2>1, <2>4, KeptIf
<1>7. ASSUME NEW e \in Events, Capture(e) \/ Redeliver(e) PROVE Kept
  <2>1. UNCHANGED places /\ SetStatus(e, "pending") /\ status \in [Events -> Statuses]
    BY <1>7 DEF Capture, Redeliver, places, Inv, TypeOK
  <2>2. \A x \in Events : status'[x] = "processing" => status[x] = "processing"
    BY <2>1 DEF SetStatus
  <2>. QED  BY <2>1, <2>2, CarriedStill, KeptIf
<1>8. CASE UNCHANGED vars
  BY <1>2, <1>8 DEF vars, places
<1>. QED  BY <1>3, <1>4, <1>5, <1>6, <1>7, <1>8, KeptPoller, KeptWorking DEF Next

\* For any number of processes, events, workers and faults: a row that says
\* "processing" stops being on its way only when its process ends, an UPDATE fails, or
\* its copy is in the queue of a processor that has returned.
THEOREM NoneStranded == Spec => NoOrphan
<1>1. Init => OneInHand
  BY DEF Init, OneInHand
<1>2. Inv /\ OneInHand /\ [Next]_vars => [Kept]_vars
  BY KeptNext
<1>3. Inv /\ OneInHand /\ [Next]_vars => (Inv /\ OneInHand)'
  BY InvNext, OneInHandNext
<1>4. Spec => [][Kept]_vars
  BY <1>1, <1>2, <1>3, InvInit, PTL DEF Spec
<1>. QED  BY <1>4 DEF NoOrphan, Kept

-----------------------------------------------------------------------------
(* One process without faults implements EventDelivery *)

\* The claim of any other process, and a claim that fails, is what makes a row that
\* was read another row: the assumptions under which BatchAsRead holds.
Sole == MaxFaults = 0 /\ \A i, k \in Instances : i = k

LEMMA NeverFails ==
  ASSUME Inv, MaxFaults = 0
  PROVE  ~Fails
  BY ConstantsAssumption DEF ConstantsAssumption, Fails, Inv, TypeOK

LEMMA AsReadKeep ==
  ASSUME BatchAsRead, UNCHANGED dirty, \A k \in Instances : batch'[k] \subseteq batch[k],
         \A k \in Instances : \A c \in batch'[k] :
           status'[c.id] = status[c.id] /\ retries'[c.id] = retries[c.id]
  PROVE  BatchAsRead'
  BY DEF BatchAsRead, AsRead

LEMMA AsReadNext ==
  ASSUME Sole, Inv, BatchAsRead, OneInHand, [Next]_vars
  PROVE  BatchAsRead'
<1>. USE DEF db, table, polling, working, manual, history, counts
<1>1. /\ batch \in [Instances -> SUBSET RowCopies] /\ claim \in [Instances -> SUBSET RowCopies]
      /\ status \in [Events -> Statuses] /\ retries \in [Events -> Nat]
  BY DEF Inv, TypeOK
<1>2. \A e \in Events : e \in Clean
  BY DEF BatchAsRead, Clean
<1>3. CASE UNCHANGED <<status, retries, batch, dirty>>
  BY <1>3, AsReadKeep
<1>4. ASSUME NEW i \in Instances, Process(i) PROVE BatchAsRead'
  <2>1. CASE Exit(i)
    BY <1>1, <2>1, AsReadKeep DEF Exit
  <2>. QED  BY <1>3, <1>4, <2>1 DEF Process, Create, Start, Stop, PollerReturn, ProcessorReturn
<1>5. CASE \E i \in Instances : Fetch(i)
  <2>1. PICK i \in Instances :
          /\ batch' = [batch EXCEPT ![i] =
                         {[id |-> e, retry |-> retries[e]] : e \in Oldest(Eligible)}]
          /\ UNCHANGED <<status, retries, dirty>>
    BY <1>5 DEF Fetch
  <2>2. ASSUME NEW k \in Instances, NEW c \in batch'[k] PROVE AsRead(c)'
    <3>1. k = i
      BY DEF Sole
    <3>2. PICK e \in Oldest(Eligible) : c = [id |-> e, retry |-> retries[e]]
      BY <1>1, <2>1, <2>2, <3>1
    <3>. QED  BY <2>1, <3>2 DEF AsRead, Oldest, Eligible
  <2>. QED  BY <2>1, <2>2 DEF BatchAsRead
<1>6. ASSUME NEW i \in Instances, Claim(i) PROVE BatchAsRead'
  <2>1. PICK c \in NextRow(i) :
          /\ SetStatus(c.id, "processing")
          /\ dirty' = IF AsRead(c) THEN dirty ELSE dirty \cup {c.id}
          /\ batch' = [batch EXCEPT ![i] = @ \ {c}]
    BY <1>6, NeverFails DEF Claim, Sole
  <2>2. c \in batch[i] /\ AsRead(c) /\ UNCHANGED <<retries, dirty>>
    BY <1>6, <2>1 DEF NextRow, BatchAsRead, Claim
  <2>3. ASSUME NEW k \in Instances, NEW d \in batch'[k]
        PROVE  d \in batch[k] /\ status'[d.id] = status[d.id]
    <3>1. d \in batch[i] /\ d # c /\ k = i
      BY <1>1, <2>1, <2>3 DEF Sole
    <3>2. d.id # c.id
      <4>1. retries[d.id] = d.retry /\ retries[c.id] = c.retry
        BY <2>2, <3>1 DEF BatchAsRead, AsRead
      <4>2. c \in RowCopies /\ d \in RowCopies
        BY <1>1, <2>2, <3>1
      <4>. QED  BY <3>1, <4>1, <4>2 DEF RowCopies
    <3>. QED  BY <1>1, <2>1, <3>1, <3>2 DEF SetStatus
  <2>. QED  BY <2>2, <2>3, AsReadKeep
<1>7. CASE \E i \in Instances : FetchEnds(i) \/ Enqueue(i) \/ QueueFull(i) \/ SelectEnds(i)
  <2>1. CASE \E i \in Instances : FetchEnds(i)
    BY <1>1, <2>1, AsReadKeep DEF FetchEnds
  <2>. QED  BY <1>3, <1>7, <2>1 DEF Enqueue, QueueFull, SelectEnds
\* A statement that touches a row none of whose copies says that it can be read.
<1>8. ASSUME NEW e \in Events, status[e] \notin {"pending", "retrying"},
             UNCHANGED <<dirty, batch>>,
             \A x \in Events \ {e} : status'[x] = status[x] /\ retries'[x] = retries[x]
      PROVE  BatchAsRead'
  <2>1. ASSUME NEW k \in Instances, NEW c \in batch[k] PROVE c.id \in Events /\ c.id # e
    <3>1. c.id \in Events
      BY <1>1 DEF RowCopies
    <3>. QED  BY <1>8, <3>1 DEF BatchAsRead, AsRead
  <2>. QED  BY <1>8, <2>1, AsReadKeep
<1>9. ASSUME NEW i \in Instances, Release(i) PROVE BatchAsRead'
  <2>1. PICK c \in claim[i] : SetStatus(c.id, "pending")
    BY <1>9, NeverFails DEF Release, Sole
  <2>2. c.id \in Events
    BY <1>1 DEF RowCopies
  <2>3. c \in Carried(i)
    BY DEF Carried, Waiting
  <2>4. status[c.id] = "processing"
    BY <1>2, <2>2, <2>3, Owned
  <2>5. UNCHANGED <<dirty, batch, retries>>
    BY <1>9 DEF Release
  <2>. QED  BY <1>1, <1>8, <2>1, <2>2, <2>4, <2>5 DEF SetStatus
<1>10. ASSUME NEW i \in Instances, NEW j \in jobs[i], Mark(i, j) PROVE BatchAsRead'
  <2>1. UNCHANGED <<dirty, batch>>
    BY <1>10 DEF Mark
  <2>2. CASE j.copy.id \in Events /\ Record(j.copy.id, j.pc)
    <3>1. j.copy \in Carried(i)
      BY DEF Carried
    <3>2. status[j.copy.id] = "processing"
      BY <1>2, <2>2, <3>1, Owned
    <3>. QED  BY <1>1, <1>8, <2>1, <2>2, <3>2 DEF Record, SetStatus
  <2>. QED  BY <1>3, <1>10, <2>1, <2>2 DEF Mark
<1>11. CASE \/ \E i \in Instances : Processor(i)
            \/ \E i \in Instances : \E j \in jobs[i] : Lookup(i, j) \/ Post(i, j)
            \/ \E i \in Instances, t \in Triggers : Register(i, t) \/ Unregister(i, t)
            \/ \E i \in Instances, m \in Manual : Invoke(i, m) \/ SendManual(i, m)
            \/ UNCHANGED vars
  <2>1. CASE \E i \in Instances : Processor(i)
    BY <1>3, <2>1 DEF Processor, Take, StartJob
  <2>2. CASE \E i \in Instances : \E j \in jobs[i] : Lookup(i, j) \/ Post(i, j)
    BY <1>3, <2>2 DEF Lookup, Post
  <2>3. CASE \E i \in Instances, t \in Triggers : Register(i, t) \/ Unregister(i, t)
    BY <1>3, <2>3 DEF Register, Unregister
  <2>. QED  BY <1>3, <1>11, <2>1, <2>2, <2>3 DEF Invoke, SendManual, vars
<1>12. ASSUME NEW e \in Events, Capture(e) \/ Redeliver(e) PROVE BatchAsRead'
  BY <1>1, <1>8, <1>12 DEF Capture, Redeliver, SetStatus
<1>. QED  BY <1>4, <1>5, <1>6, <1>7, <1>9, <1>10, <1>11, <1>12 DEF Next, Poller, Worker

Step == [Delivery!Next]_(Delivery!vars)

\* What EventDelivery sees of an event.
Unseen(e) == /\ OutcomeOf(e)' = OutcomeOf(e) /\ posts'[e] = posts[e]
             /\ e \in acked' <=> e \in acked

LEMMA Stutters ==
  ASSUME \A e \in Events : Unseen(e)
  PROVE  Step
<1>1. [e \in Events |-> OutcomeOf(e)]' = [e \in Events |-> OutcomeOf(e)]
  BY DEF Unseen
<1>2. [e \in Events |-> posts[e]]' = [e \in Events |-> posts[e]]
  BY DEF Unseen
<1>3. (acked \cap Events)' = acked \cap Events
  BY DEF Unseen
<1>. QED  BY <1>1, <1>2, <1>3 DEF Step, Delivery!vars

\* Rows whose status moves among the open ones, and nothing else.
LEMMA StaysOpen ==
  ASSUME UNCHANGED <<error, posts, acked>>,
         \A e \in Events : \/ status'[e] = status[e]
                           \/ {status[e], status'[e]} \subseteq {"pending", "processing", "retrying"}
  PROVE  Step
<1>1. \A e \in Events : OutcomeOf(e)' = OutcomeOf(e)
  BY DEF OutcomeOf
<1>. QED  BY <1>1, Stutters DEF Unseen

\* An UPDATE of one row, seen through the refinement mapping.
LEMMA Becomes ==
  ASSUME Inv, NEW e \in Events, NEW s \in Statuses, SetStatus(e, s),
         \A x \in Events \ {e} : error'[x] = error[x],
         NEW from, OutcomeOf(e) \in from
  PROVE  Delivery!Become(e, from, OutcomeOf(e)')
<1>1. status' = [status EXCEPT ![e] = s] /\ status \in [Events -> Statuses]
  BY DEF SetStatus, Inv, TypeOK
<1>2. \A x \in Events \ {e} : OutcomeOf(x)' = OutcomeOf(x)
  BY <1>1 DEF OutcomeOf
<1>. DEFINE out == [x \in Events |-> OutcomeOf(x)]
<1>3. out' = [out EXCEPT ![e] = OutcomeOf(e)']
  BY <1>2
<1>. QED  BY <1>3 DEF Delivery!Become

LEMMA StepCalls ==
  ASSUME Inv, Told, BatchAsRead, NEW e \in Events, Capture(e) \/ Redeliver(e)
  PROVE  Step
<1>. USE DEF db, table, polling, working, manual, history, counts
<1>1. SetStatus(e, "pending") /\ "pending" \in Statuses /\ UNCHANGED error
  BY DEF Capture, Redeliver, Statuses
<1>2. OutcomeOf(e)' = "open"
  BY <1>1 DEF SetStatus, OutcomeOf, Inv, TypeOK
<1>3. CASE Capture(e)
  <2>1. OutcomeOf(e) \in {"none"}
    BY <1>3 DEF Capture, OutcomeOf
  <2>2. Delivery!Become(e, {"none"}, "open")
    BY <1>1, <1>2, <2>1, Becomes
  <2>3. UNCHANGED <<[x \in Events |-> posts[x]], acked \cap Events>>
    BY <1>3 DEF Capture
  <2>4. Delivery!Capture(e)
    BY <2>2, <2>3 DEF Delivery!Capture
  <2>. QED  BY <2>4 DEF Step, Delivery!Next
<1>4. CASE Redeliver(e)
  <2>1. OutcomeOf(e) \in {"exhausted", "rejected"}
    BY <1>4 DEF Redeliver, OutcomeOf
  <2>2. Delivery!Become(e, {"exhausted", "rejected"}, "open")
    BY <1>1, <1>2, <2>1, Becomes
  <2>3. posts' = [posts EXCEPT ![e] = 0] /\ acked' = acked \ {e} /\ posts \in [Ids -> Nat]
    BY <1>4 DEF Redeliver, Inv, TypeOK
  <2>. DEFINE tries == [x \in Events |-> posts[x]]
  <2>4. tries' = [tries EXCEPT ![e] = 0]
    BY <2>3 DEF Ids
  <2>5. e \notin acked
    BY <1>4 DEF Redeliver, Told, RowTells, Clean, BatchAsRead
  <2>6. UNCHANGED (acked \cap Events)
    BY <2>3, <2>5
  <2>7. Delivery!Reopen(e)
    BY <2>2, <2>4, <2>6 DEF Delivery!Reopen
  <2>. QED  BY <2>7 DEF Step, Delivery!Next
<1>. QED  BY <1>3, <1>4

LEMMA StepPost ==
  ASSUME Inv, Told, BatchAsRead, NEW i \in Instances, NEW j \in jobs[i], Post(i, j)
  PROVE  Step
<1>. USE DEF db, table, polling, working, manual, history, counts
<1>. DEFINE e == j.copy.id
<1>1. UNCHANGED <<status, error>>
  BY DEF Post
<1>2. j.copy \in Carried(i)
  BY DEF Carried
<1>3. \/ UNCHANGED <<posts, acked>>
      \/ posts' = [posts EXCEPT ![e] = @ + 1] /\ acked' \in {acked, acked \cup {e}}
  BY DEF Post
<1>4. posts \in [Ids -> Nat] /\ Events \subseteq Ids
  BY DEF Inv, TypeOK, Ids
<1>5. CASE UNCHANGED <<posts, acked>>
  BY <1>1, <1>5, StaysOpen
<1>6. CASE e \notin Events /\ ~UNCHANGED <<posts, acked>>
  <2>1. \A x \in Events : Unseen(x)
    BY <1>1, <1>3, <1>4, <1>6 DEF Unseen, OutcomeOf
  <2>. QED  BY <2>1, Stutters
<1>7. CASE e \in Events /\ ~UNCHANGED <<posts, acked>>
  <2>1. e \in Clean
    BY <1>7 DEF Clean, BatchAsRead
  <2>2. status[e] = "processing" /\ retries[e] = j.copy.retry
    BY <1>2, <2>1, Owned
  <2>3. posts[e] = j.copy.retry /\ e \notin acked
    BY <2>1 DEF Told, JobTells, Fresh, Post
  <2>4. retries[e] < Budget(e)
    BY <2>1 DEF Told, RowTells
  <2>. DEFINE tries == [x \in Events |-> posts[x]]
  <2>5. tries' = [tries EXCEPT ![e] = @ + 1] /\ tries[e] < Budget(e)
    BY <1>3, <1>4, <1>7, <2>2, <2>3, <2>4
  <2>6. (acked \cap Events)' \in {acked \cap Events, (acked \cap Events) \cup {e}}
    BY <1>3, <1>7
  <2>7. [x \in Events |-> OutcomeOf(x)]' = [x \in Events |-> OutcomeOf(x)]
    BY <1>1 DEF OutcomeOf
  <2>8. [x \in Events |-> OutcomeOf(x)][e] = "open"
    BY <1>7, <2>2 DEF OutcomeOf
  <2>9. [x \in Events |-> Budget(x)][e] = Budget(e)
    BY <1>7
  <2>10. Delivery!Attempt(e)
    BY <2>3, <2>5, <2>6, <2>7, <2>8, <2>9 DEF Delivery!Attempt
  <2>. QED  BY <1>7, <2>10 DEF Step, Delivery!Next
<1>. QED  BY <1>5, <1>6, <1>7

LEMMA StepMark ==
  ASSUME Sole, Inv, Told, BatchAsRead, NEW i \in Instances, NEW j \in jobs[i], Mark(i, j)
  PROVE  Step
<1>. USE DEF db, table, polling, working, manual, history, counts
<1>. DEFINE e == j.copy.id
<1>1. UNCHANGED <<posts, acked>>
  BY DEF Mark
<1>2. CASE UNCHANGED table
  BY <1>1, <1>2, StaysOpen
<1>3. CASE e \in Events /\ Record(e, j.pc)
  <2>1. e \in Clean /\ j.copy \in Carried(i)
    BY <1>3 DEF Clean, BatchAsRead, Carried
  <2>2. status[e] = "processing" /\ retries[e] = j.copy.retry
    BY <2>1, Owned
  <2>3. JobTells(j) /\ retries[e] < Budget(e)
    BY <2>1 DEF Told, RowTells
  <2>4. /\ SetStatus(e, NewStatus(j.pc)) /\ NewStatus(j.pc) \in Statuses
        /\ error' = IF j.pc = "ok" THEN error ELSE [error EXCEPT ![e] = NewError(j.pc)]
    BY <1>3 DEF Record, NewStatus, Statuses
  <2>5. status \in [Events -> Statuses] /\ error \in [Events -> Reasons]
    BY DEF Inv, TypeOK
  <2>6. status'[e] = NewStatus(j.pc) /\ \A x \in Events \ {e} : error'[x] = error[x]
    BY <1>3, <2>4, <2>5 DEF SetStatus
  <2>7. OutcomeOf(e) \in {"open"}
    BY <2>2 DEF OutcomeOf
  <2>8. Delivery!Become(e, {"open"}, OutcomeOf(e)')
    BY <1>3, <2>4, <2>6, <2>7, Becomes
  <2>9. UNCHANGED <<[x \in Events |-> posts[x]], acked \cap Events>>
    BY <1>1
  <2>10. [x \in Events |-> posts[x]][e] = posts[e] /\ [x \in Events |-> Budget(x)][e] = Budget(e)
    BY <1>3
  <2>11. e \in acked \cap Events <=> j.pc = "ok"
    BY <1>3, <2>3 DEF JobTells
  <2>12. CASE j.pc = "ok"
    <3>1. OutcomeOf(e)' = "delivered"
      BY <2>6, <2>12 DEF OutcomeOf, NewStatus
    <3>2. Delivery!Deliver(e)
      BY <2>8, <2>9, <2>11, <2>12, <3>1 DEF Delivery!Deliver
    <3>. QED  BY <1>3, <3>2 DEF Step, Delivery!Next
  <2>13. CASE j.pc = "giveup"
    <3>1. OutcomeOf(e)' = "exhausted"
      BY <1>3, <2>4, <2>5, <2>6, <2>13 DEF OutcomeOf, NewStatus, NewError
    <3>2. posts[e] = Budget(e)
      <4>1. /\ posts[e] = j.copy.retry + 1 /\ j.copy.retry >= RetryLimit[TriggerOf[e]]
            /\ j.copy.retry < Budget(e)
        BY <2>2, <2>3, <2>13 DEF JobTells, LimitOf
      <4>2. j.copy.retry \in Nat /\ RetryLimit[TriggerOf[e]] \in Int
        BY <1>3, <2>1, CarriedType, ConstantsAssumption DEF ConstantsAssumption, Ids
      <4>. QED  BY <4>1, <4>2 DEF Budget
    <3>3. Delivery!Exhaust(e)
      BY <2>8, <2>9, <2>10, <2>11, <2>13, <3>1, <3>2 DEF Delivery!Exhaust
    <3>. QED  BY <1>3, <3>3 DEF Step, Delivery!Next
  <2>14. CASE j.pc \in {"missing", "bad"}
    <3>1. OutcomeOf(e)' = "rejected"
      BY <1>3, <2>4, <2>5, <2>6, <2>14 DEF OutcomeOf, NewStatus, NewError
    <3>2. Delivery!Reject(e)
      BY <2>8, <2>9, <2>11, <2>14, <3>1 DEF Delivery!Reject
    <3>. QED  BY <1>3, <3>2 DEF Step, Delivery!Next
  <2>15. CASE j.pc = "retry"
    <3>1. OutcomeOf(e)' = "open"
      BY <2>6, <2>15 DEF OutcomeOf, NewStatus
    <3>2. \A x \in Events \ {e} : OutcomeOf(x)' = OutcomeOf(x)
      BY <2>4, <2>5, <2>6 DEF OutcomeOf, SetStatus
    <3>. QED  BY <1>1, <2>7, <3>1, <3>2, Stutters DEF Unseen
  <2>16. j.pc \in {"missing", "bad", "ok", "giveup", "retry"}
    BY DEF Mark, Inv, TypeOK, Jobs
  <2>. QED  BY <2>12, <2>13, <2>14, <2>15, <2>16
<1>. QED  BY <1>2, <1>3 DEF Mark

LEMMA StepPoller ==
  ASSUME Sole, Inv, BatchAsRead, NEW i \in Instances, Poller(i) \/ SelectEnds(i)
  PROVE  Step
<1>. USE DEF db, table, polling, working, manual, history, counts
<1>1. /\ batch \in [Instances -> SUBSET RowCopies] /\ claim \in [Instances -> SUBSET RowCopies]
      /\ status \in [Events -> Statuses]
  BY DEF Inv, TypeOK
<1>2. CASE Fetch(i) \/ Enqueue(i) \/ QueueFull(i) \/ FetchEnds(i) \/ SelectEnds(i)
  <2>1. UNCHANGED <<status, error, posts, acked>>
    BY <1>2 DEF Fetch, Enqueue, QueueFull, FetchEnds, SelectEnds
  <2>. QED  BY <2>1, StaysOpen
<1>3. CASE Claim(i)
  <2>1. PICK c \in batch[i] : SetStatus(c.id, "processing")
    BY <1>3, NeverFails DEF Claim, NextRow, Sole
  <2>2. c.id \in Events /\ status[c.id] \in {"pending", "retrying"}
    BY <1>1, <2>1 DEF RowCopies, BatchAsRead, AsRead
  <2>3. UNCHANGED <<error, posts, acked>>
    BY <1>3 DEF Claim
  <2>. QED  BY <1>1, <2>1, <2>2, <2>3, StaysOpen DEF SetStatus
<1>4. CASE Release(i)
  <2>1. PICK c \in claim[i] : SetStatus(c.id, "pending")
    BY <1>4, NeverFails DEF Release, Sole
  <2>2. c.id \in Events /\ c \in Carried(i)
    BY <1>1, <2>1 DEF RowCopies, Carried, Waiting
  <2>3. status[c.id] = "processing"
    BY <2>2, Owned DEF Clean, BatchAsRead
  <2>4. UNCHANGED <<error, posts, acked>>
    BY <1>4 DEF Release
  <2>. QED  BY <1>1, <2>1, <2>2, <2>3, <2>4, StaysOpen DEF SetStatus
<1>. QED  BY <1>2, <1>3, <1>4 DEF Poller

LEMMA StepRefines ==
  ASSUME Sole, Inv, Told, BatchAsRead, [Next]_vars
  PROVE  Step
<1>. USE DEF db, table, polling, working, manual, history, counts
<1>1. CASE UNCHANGED <<status, error, posts, acked>>
  BY <1>1, StaysOpen
<1>2. CASE UNCHANGED vars
  BY <1>1, <1>2 DEF vars
<1>3. ASSUME NEW i \in Instances, Process(i) PROVE Step
  BY <1>1, <1>3 DEF Process, Create, Start, Stop, PollerReturn, ProcessorReturn, Exit
<1>4. ASSUME NEW i \in Instances, Processor(i) PROVE Step
  BY <1>1, <1>4 DEF Processor, Take, StartJob
<1>5. ASSUME NEW i \in Instances, NEW j \in jobs[i], Worker(i, j) PROVE Step
  <2>1. CASE Lookup(i, j)
    BY <1>1, <2>1 DEF Lookup
  <2>. QED  BY <1>5, <2>1, StepPost, StepMark DEF Worker
<1>6. ASSUME NEW i \in Instances, NEW t \in Triggers, Register(i, t) \/ Unregister(i, t)
      PROVE  Step
  BY <1>1, <1>6 DEF Register, Unregister
<1>7. ASSUME NEW i \in Instances, NEW m \in Manual, Invoke(i, m) \/ SendManual(i, m)
      PROVE  Step
  BY <1>1, <1>7 DEF Invoke, SendManual
<1>. QED  BY <1>2, <1>3, <1>4, <1>5, <1>6, <1>7, StepPoller, StepCalls DEF Next

\* One process whose statements work does to every event what EventDelivery allows,
\* whatever crashes, restarts, full queues and redeliveries lie between.
THEOREM KeepsPromise == ASSUME Sole PROVE Spec => DeliversAsPromised
<1>1. Init => Delivery!Init /\ OneInHand /\ BatchAsRead
  <2>. SUFFICES ASSUME Init PROVE Delivery!Init /\ OneInHand /\ BatchAsRead
    OBVIOUS
  <2>1. [e \in Events |-> OutcomeOf(e)] = [e \in Events |-> "none"]
    BY DEF Init, OutcomeOf
  <2>2. [e \in Events |-> posts[e]] = [e \in Events |-> 0] /\ acked \cap Events = {}
    BY DEF Init, Ids
  <2>. QED  BY <2>1, <2>2 DEF Init, OneInHand, BatchAsRead, Delivery!Init
<1>. DEFINE All == Inv /\ Told /\ OneInHand /\ BatchAsRead
<1>2. Init => All
  BY <1>1, InvInit, ToldInit
<1>3. All /\ [Next]_vars => All'
  BY InvNext, ToldNext, OneInHandNext, AsReadNext
<1>4. All /\ [Next]_vars => [Delivery!Next]_(Delivery!vars)
  BY StepRefines DEF Step
<1>. HIDE DEF All
<1>. QED  BY <1>1, <1>2, <1>3, <1>4, PTL DEF Spec, DeliversAsPromised, Delivery!Spec
=============================================================================
