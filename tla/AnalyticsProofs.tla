--------------------------- MODULE AnalyticsProofs ---------------------------
(* Theorems about Analytics, for any number of aggregates, groups, rows and   *)
(* refreshes in flight, any lifetimes and deadlines, and every configuration. *)
EXTENDS Analytics, TLAPS

-----------------------------------------------------------------------------
(* The inductive invariant *)

\* Key k had n rows at t, or has had them since.
Had(k, n, t) == n \in DOMAIN lastHad[k] /\ t <= lastHad[k][n]

History ==
  /\ now \in Nat /\ lastHad = [k \in Keys |-> lastHad[k]]
  /\ \A k \in Keys :
       /\ Number(source, k) \in DOMAIN lastHad[k] /\ lastHad[k][Number(source, k)] = now
       /\ \A n \in DOMAIN lastHad[k] : lastHad[k][n] \in Nat /\ lastHad[k][n] <= now

\* A row of an aggregate: its key had the number when the refresh or the request that
\* stored it began, or later; a refresh with a deadline stored it in time.
Fits(v, k) ==
  /\ v.since \in Nat /\ v.at \in Nat /\ v.at <= now
  /\ ~Misread(v, k) => Had(k, v.n, v.since)
  /\ v.by \in DOMAIN Timeout => v.at <= v.since + Timeout[v.by]

Sound(stored) == \A k \in DOMAIN stored : k \in Keys /\ Fits(stored[k], k)

Stored ==
  /\ values = [id \in Ids |-> values[id]]
  /\ \A id \in Ids : Sound(values[id])

\* A refresh under way, and what its query found.
Shape(r) ==
  /\ r = [pc |-> r.pc, by |-> r.by, id |-> r.id, then |-> r.then, since |-> r.since,
          snap |-> r.snap, left |-> r.left, alone |-> r.alone]
  /\ r.pc \in {"clear", "query", "store", "touch"} /\ r.id \in Ids /\ r.then \subseteq Ids
  /\ r.since \in Nat /\ r.since <= now /\ r.alone \in BOOLEAN
  /\ r.pc = "clear" => ~r.alone
  /\ r.pc = "touch" => r.left = {}

Found(r) ==
  r.pc \in {"store", "touch"} =>
    /\ r.left \subseteq DOMAIN r.snap /\ DOMAIN r.snap \subseteq Keys
    /\ \A k \in DOMAIN r.snap : Had(k, r.snap[k], r.since)

\* A refresh that nobody has disturbed has stored what it has found and not yet left.
Exact(r, stored) ==
  r.alone =>
    /\ r.pc = "query" => DOMAIN stored = {}
    /\ r.pc \in {"store", "touch"} =>
         /\ DOMAIN stored = DOMAIN r.snap \ r.left
         /\ \A k \in DOMAIN stored : stored[k].n = r.snap[k]

Working ==
  /\ work = [w \in Workers |-> work[w]]
  /\ \A w \in Workers :
       work[w] # Idle =>
         Shape(work[w]) /\ Found(work[w]) /\ Exact(work[w], values[work[w].id])

Asked ==
  request # NoRequest =>
    /\ request.id \in Ids /\ request.key \in Keys
    /\ request.since \in Nat /\ request.since <= now
    /\ ReadsAsItself(request.key)
         => Had(request.key, request.n, request.since)

Inv == setup \in Setups /\ History /\ Stored /\ Working /\ Asked

LEMMA KeysOfKeys == \A id : KeysOf(id) \subseteq Keys
  BY DEF KeysOf, Keys

LEMMA InvInit == Init => Inv
<1>. SUFFICES ASSUME Init PROVE Inv
  OBVIOUS
<1>1. setup \in Setups /\ now = 0 /\ request = NoRequest
      /\ lastHad = [k \in Keys |-> [n \in {Number(source, k)} |-> 0]]
      /\ values = [id \in Ids |-> << >>] /\ work = [w \in Workers |-> Idle]
  BY DEF Init, AggInit
<1>2. DOMAIN << >> = {}
  OBVIOUS
<1>3. History
  BY <1>1 DEF History
<1>4. Stored
  BY <1>1, <1>2 DEF Stored, Sound
<1>. QED  BY <1>1, <1>3, <1>4 DEF Inv, Working, Asked

-----------------------------------------------------------------------------
(* The world *)

\* Time and the table only add to the history.
LEMMA HistoryGrows ==
  ASSUME History, now' \in Nat, now <= now', lastHad' = Noted(lastHad, source', now')
  PROVE  /\ History'
         /\ \A k \in Keys : \A n \in DOMAIN lastHad[k] :
              n \in DOMAIN lastHad'[k] /\ lastHad[k][n] <= lastHad'[k][n]
<1>1. ASSUME NEW k \in Keys
      PROVE  /\ DOMAIN lastHad'[k] = DOMAIN lastHad[k] \cup {Number(source', k)}
             /\ lastHad'[k][Number(source', k)] = now'
             /\ \A n \in DOMAIN lastHad[k] : lastHad'[k][n] = now' \/ lastHad'[k][n] = lastHad[k][n]
  BY DEF Noted, With
<1>2. lastHad' = [k \in Keys |-> lastHad'[k]]
  BY DEF Noted
<1>3. \A k \in Keys : \A n \in DOMAIN lastHad[k] : lastHad[k][n] \in Nat /\ lastHad[k][n] <= now
  BY DEF History
<1>4. ASSUME NEW k \in Keys, NEW n \in DOMAIN lastHad[k]
      PROVE  n \in DOMAIN lastHad'[k] /\ lastHad[k][n] <= lastHad'[k][n]
  BY <1>1, <1>3 DEF History
<1>5. ASSUME NEW k \in Keys, NEW n \in DOMAIN lastHad'[k]
      PROVE  lastHad'[k][n] \in Nat /\ lastHad'[k][n] <= now'
  BY <1>1, <1>3 DEF History
<1>. QED  BY <1>1, <1>2, <1>4, <1>5 DEF History

LEMMA InvWorld ==
  ASSUME Inv, now' \in Nat, now <= now', lastHad' = Noted(lastHad, source', now'),
         UNCHANGED <<values, work, request, setup>>
  PROVE  Inv'
<1>1. /\ History'
      /\ \A k \in Keys : \A n \in DOMAIN lastHad[k] :
           n \in DOMAIN lastHad'[k] /\ lastHad[k][n] <= lastHad'[k][n]
  BY HistoryGrows DEF Inv
<1>2. \A k \in Keys : \A n \in DOMAIN lastHad[k] : lastHad[k][n] \in Nat /\ lastHad'[k][n] \in Nat
  BY <1>1 DEF Inv, History
<1>3. Stored'
  <2>. SUFFICES ASSUME NEW id \in Ids, NEW k \in DOMAIN values[id]
                PROVE  k \in Keys /\ Fits(values[id][k], k)'
    BY DEF Inv, Stored, Sound
  <2>. DEFINE v == values[id][k]
  <2>1. k \in Keys /\ Fits(v, k) /\ now \in Nat
    BY DEF Inv, Stored, Sound, History
  <2>. HIDE DEF v
  <2>2. v.at \in Nat /\ v.at <= now'
    BY <2>1 DEF Fits
  <2>3. ASSUME Had(k, v.n, v.since)
        PROVE  v.n \in DOMAIN lastHad'[k] /\ v.since <= lastHad'[k][v.n]
    BY <1>1, <1>2, <2>1, <2>3 DEF Had, Fits
  <2>4. /\ v.since \in Nat /\ v.at \in Nat /\ v.at <= now'
        /\ ~Misread(v, k) => v.n \in DOMAIN lastHad'[k] /\ v.since <= lastHad'[k][v.n]
        /\ v.by \in DOMAIN Timeout => v.at <= v.since + Timeout[v.by]
    BY <2>1, <2>2, <2>3 DEF Fits
  <2>5. values'[id][k] = v
    BY DEF v
  <2>. QED  BY <2>1, <2>4, <2>5 DEF Had, Fits, Misread
<1>4. Working'
  <2>. SUFFICES ASSUME NEW w \in Workers, work[w] # Idle
                PROVE  Shape(work[w])' /\ Found(work[w])' /\ Exact(work[w], values[work[w].id])'
    BY DEF Inv, Working
  <2>. DEFINE r == work[w]
  <2>1. Shape(r) /\ Found(r) /\ Exact(r, values[r.id]) /\ r' = r
    BY DEF Inv, Working
  <2>2. r.since <= now'
    BY <2>1 DEF Shape, Inv, History
  <2>3. Shape(r)'
    BY <2>1, <2>2 DEF Shape
  <2>4. ASSUME r.pc \in {"store", "touch"}, NEW k \in DOMAIN r.snap PROVE Had(k, r.snap[k], r.since)'
    BY <1>1, <1>2, <2>1, <2>4 DEF Found, Had, Shape
  <2>5. Found(r)'
    BY <2>1, <2>4 DEF Found
  <2>. QED  BY <2>1, <2>3, <2>5 DEF Exact
<1>5. Asked'
  <2>1. now <= now' /\ now' \in Nat
    OBVIOUS
  <2>2. request # NoRequest => request.since <= now'
    BY DEF Inv, Asked, History
  <2>. QED  BY <1>1, <1>2, <2>1, <2>2 DEF Inv, Asked, Had
<1>. QED  BY <1>1, <1>3, <1>4, <1>5 DEF Inv

-----------------------------------------------------------------------------
(* Steps of refreshes *)

LEMMA InvGoes ==
  ASSUME Inv, UNCHANGED <<data, values, request, setup>>, NEW w \in Workers, NEW r,
         work' = [work EXCEPT ![w] = r],
         r # Idle => Shape(r) /\ Found(r) /\ Exact(r, values[r.id])
  PROVE  Inv'
<1>1. History' /\ Stored' /\ Asked'
  BY DEF Inv, data, History, Stored, Sound, Fits, Asked, Had
<1>2. Working'
  <2>. SUFFICES ASSUME NEW v \in Workers, work'[v] # Idle
                PROVE  Shape(work[v])' /\ Found(work[v])' /\ Exact(work[v], values[work[v].id])'
    BY DEF Inv, Working
  <2>1. work'[v] = IF v = w THEN r ELSE work[v]
    BY DEF Inv, Working
  <2>2. Shape(work'[v]) /\ Found(work'[v]) /\ Exact(work'[v], values[work'[v].id])
    BY <2>1 DEF Inv, Working
  <2>. QED  BY <2>2 DEF Shape, Found, Exact, Had, data
<1>. QED  BY <1>1, <1>2 DEF Inv

\* The fields of a record of a refresh, after one has changed.
LEMMA Changed ==
  ASSUME NEW s, NEW x,
         s = [pc |-> s.pc, by |-> s.by, id |-> s.id, then |-> s.then, since |-> s.since,
              snap |-> s.snap, left |-> s.left, alone |-> s.alone]
  PROVE  /\ [s EXCEPT !.pc = x]
              = [pc |-> x, by |-> s.by, id |-> s.id, then |-> s.then, since |-> s.since,
                 snap |-> s.snap, left |-> s.left, alone |-> s.alone]
         /\ [s EXCEPT !.left = x]
              = [pc |-> s.pc, by |-> s.by, id |-> s.id, then |-> s.then, since |-> s.since,
                 snap |-> s.snap, left |-> x, alone |-> s.alone]
         /\ [s EXCEPT !.alone = x]
              = [pc |-> s.pc, by |-> s.by, id |-> s.id, then |-> s.then, since |-> s.since,
                 snap |-> s.snap, left |-> s.left, alone |-> x]
         /\ [s EXCEPT !.snap = x]
              = [pc |-> s.pc, by |-> s.by, id |-> s.id, then |-> s.then, since |-> s.since,
                 snap |-> x, left |-> s.left, alone |-> s.alone]
<1>1. PICK pc, by, id, then, since, snap, left, alone :
        s = [pc |-> pc, by |-> by, id |-> id, then |-> then, since |-> since,
             snap |-> snap, left |-> left, alone |-> alone]
  OBVIOUS
<1>2. s.pc = pc /\ s.by = by /\ s.id = id /\ s.then = then /\ s.since = since
      /\ s.snap = snap /\ s.left = left /\ s.alone = alone
  BY <1>1
<1>3. [s EXCEPT !.pc = x]
        = [pc |-> x, by |-> s.by, id |-> s.id, then |-> s.then, since |-> s.since,
           snap |-> s.snap, left |-> s.left, alone |-> s.alone]
  <2>1. [s EXCEPT !.pc = x]
          = [pc |-> x, by |-> by, id |-> id, then |-> then, since |-> since,
             snap |-> snap, left |-> left, alone |-> alone]
    BY <1>1
  <2>. QED  BY <1>2, <2>1
<1>4. [s EXCEPT !.left = x]
        = [pc |-> s.pc, by |-> s.by, id |-> s.id, then |-> s.then, since |-> s.since,
           snap |-> s.snap, left |-> x, alone |-> s.alone]
  <2>1. [s EXCEPT !.left = x]
          = [pc |-> pc, by |-> by, id |-> id, then |-> then, since |-> since,
             snap |-> snap, left |-> x, alone |-> alone]
    BY <1>1
  <2>. QED  BY <1>2, <2>1
<1>5. [s EXCEPT !.alone = x]
        = [pc |-> s.pc, by |-> s.by, id |-> s.id, then |-> s.then, since |-> s.since,
           snap |-> s.snap, left |-> s.left, alone |-> x]
  <2>1. [s EXCEPT !.alone = x]
          = [pc |-> pc, by |-> by, id |-> id, then |-> then, since |-> since,
             snap |-> snap, left |-> left, alone |-> x]
    BY <1>1
  <2>. QED  BY <1>2, <2>1
<1>6. [s EXCEPT !.snap = x]
        = [pc |-> s.pc, by |-> s.by, id |-> s.id, then |-> s.then, since |-> s.since,
           snap |-> x, left |-> s.left, alone |-> s.alone]
  <2>1. [s EXCEPT !.snap = x]
          = [pc |-> pc, by |-> by, id |-> id, then |-> then, since |-> since,
             snap |-> x, left |-> left, alone |-> alone]
    BY <1>1
  <2>. QED  BY <1>2, <2>1
<1>. QED  BY <1>3, <1>4, <1>5, <1>6

\* A refresh writes values of its aggregate, or somebody else does (w is no worker).
LEMMA InvWrites ==
  ASSUME Inv, UNCHANGED <<data, setup>>, NEW id \in Ids, NEW V, Sound(V),
         values' = [values EXCEPT ![id] = V], NEW w, NEW r, work' = Written(w, id, r),
         w \in Workers /\ r # Idle => r.id = id /\ Shape(r) /\ Found(r) /\ Exact(r, V),
         request' = request \/ request' = NoRequest
  PROVE  Inv'
<1>1. History' /\ Asked'
  BY DEF Inv, data, History, Asked, Had
<1>2. \A i \in Ids : values'[i] = IF i = id THEN V ELSE values[i]
  BY DEF Inv, Stored
<1>3. Stored'
  BY <1>2 DEF Inv, data, Stored, Sound, Fits, Had
<1>4. Working'
  <2>1. work' = [v \in Workers |-> work'[v]]
    BY DEF Written
  <2>. SUFFICES ASSUME NEW v \in Workers, work'[v] # Idle
                PROVE  Shape(work[v])' /\ Found(work[v])' /\ Exact(work[v], values[work[v].id])'
    BY <2>1 DEF Working
  <2>2. CASE v = w
    <3>1. work'[v] = r
      BY <2>2 DEF Written
    <3>. QED  BY <1>2, <2>2, <3>1 DEF Shape, Found, Exact, Had, data
  <2>3. CASE v # w /\ work[v] # Idle /\ work[v].id = id
    <3>. DEFINE s == work[v]
    <3>1. work'[v] = [s EXCEPT !.alone = FALSE]
      BY <2>3 DEF Written
    <3>2. Shape(s) /\ Found(s)
      BY <2>3 DEF Inv, Working
    <3>3. s = [pc |-> s.pc, by |-> s.by, id |-> s.id, then |-> s.then, since |-> s.since,
               snap |-> s.snap, left |-> s.left, alone |-> s.alone]
      BY <3>2 DEF Shape
    <3>. HIDE DEF s
    <3>4. [s EXCEPT !.alone = FALSE]
            = [pc |-> s.pc, by |-> s.by, id |-> s.id, then |-> s.then, since |-> s.since,
               snap |-> s.snap, left |-> s.left, alone |-> FALSE]
      BY <3>3, Changed
    <3>. QED  BY <3>1, <3>2, <3>4 DEF Shape, Found, Exact, Had, data
  <2>4. CASE v # w /\ ~(work[v] # Idle /\ work[v].id = id)
    <3>1. work'[v] = work[v]
      BY <2>4 DEF Written
    <3>2. Shape(work[v]) /\ Found(work[v]) /\ Exact(work[v], values[work[v].id]) /\ work[v].id # id
      BY <2>4, <3>1 DEF Inv, Working
    <3>3. values'[work[v].id] = values[work[v].id]
      BY <1>2, <3>2 DEF Shape
    <3>. QED  BY <3>1, <3>2, <3>3 DEF Shape, Found, Exact, Had, data
  <2>. QED  BY <2>2, <2>3, <2>4
<1>. QED  BY <1>1, <1>3, <1>4 DEF Inv

\* What a refresh turns into when it is over.
LEMMA AfterIsClean ==
  ASSUME History, NEW r, Shape(r)
  PROVE  After(r) # Idle => Shape(After(r)) /\ After(r).pc = "clear" /\ ~After(r).alone
<1>. SUFFICES ASSUME r.then # {}
              PROVE  Shape(After(r)) /\ After(r).pc = "clear" /\ ~After(r).alone
  BY DEF After
<1>. DEFINE id == CHOOSE i \in r.then : TRUE
<1>1. id \in r.then /\ r.then \subseteq Ids /\ r.since \in Nat /\ r.since <= now
  BY DEF Shape
<1>2. After(r) = Refresh(r.by, id, r.then \ {id})
  BY DEF After
<1>. HIDE DEF id
<1>3. After(r) = [pc |-> "clear", by |-> r.by, id |-> id, then |-> r.then \ {id},
                  since |-> now, snap |-> <<>>, left |-> {}, alone |-> FALSE]
  BY <1>2 DEF Refresh
<1>. QED  BY <1>1, <1>3 DEF Shape, History

LEMMA RefreshIsClean ==
  ASSUME History, NEW by, NEW id \in Ids, NEW T \in SUBSET Ids
  PROVE  /\ Shape(Refresh(by, id, T)) /\ Refresh(by, id, T).pc = "clear"
         /\ ~Refresh(by, id, T).alone
  BY DEF History, Refresh, Shape

LEMMA CleanIsFine ==
  ASSUME NEW r, r.pc = "clear", ~r.alone PROVE Found(r) /\ \A stored : Exact(r, stored)
  BY DEF Found, Exact

LEMMA InvGoesOn ==
  ASSUME Inv, UNCHANGED <<data, values, request, setup>>, NEW w \in Workers, work[w] # Idle,
         work' = [work EXCEPT ![w] = After(work[w])]
  PROVE  Inv'
<1>. DEFINE r == After(work[w])
<1>1. r # Idle => Shape(r) /\ r.pc = "clear" /\ ~r.alone
  BY AfterIsClean DEF Inv, Working
<1>2. work' = [work EXCEPT ![w] = r]
  OBVIOUS
<1>. HIDE DEF r
<1>3. r # Idle => Shape(r) /\ Found(r) /\ Exact(r, values[r.id])
  BY <1>1, CleanIsFine
<1>. QED  BY <1>2, <1>3, InvGoes

LEMMA InvSpawn ==
  ASSUME Inv, UNCHANGED <<data, values, request, setup>>, NEW by, NEW S \in SUBSET Ids, NEW n,
         Spawn(by, S, n)
  PROVE  Inv'
<1>1. History' /\ Stored' /\ Asked'
  BY DEF Inv, data, History, Stored, Sound, Fits, Asked, Had
<1>2. work' = [w \in Workers |-> work'[w]]
  BY DEF Spawn, Inv, Working
<1>3. ASSUME NEW w \in Workers, work'[w] # work[w]
      PROVE  \E id \in Ids : work'[w] = Refresh(by, id, {})
  BY <1>3 DEF Spawn
<1>4. ASSUME NEW w \in Workers, work'[w] # Idle
      PROVE  Shape(work'[w]) /\ Found(work'[w]) /\ Exact(work'[w], values[work'[w].id])
  <2>1. CASE work'[w] = work[w]
    BY <1>4, <2>1 DEF Inv, Working
  <2>2. CASE work'[w] # work[w]
    <3>1. PICK id \in Ids : work'[w] = Refresh(by, id, {})
      BY <1>3, <2>2
    <3>. QED  BY <3>1, RefreshIsClean, CleanIsFine DEF Inv
  <2>. QED  BY <2>1, <2>2
<1>5. Working'
  BY <1>2, <1>4 DEF Working, Shape, Found, Exact, Had, data
<1>. QED  BY <1>1, <1>5 DEF Inv

LEMMA InvClear ==
  ASSUME Inv, UNCHANGED setup, NEW w \in Workers, ClearAggregateValues(w)
  PROVE  Inv'
<1>. DEFINE s == work[w]
            r == [s EXCEPT !.pc = "query", !.alone = TRUE]
<1>1. s.pc = "clear" /\ values' = [values EXCEPT ![s.id] = << >>] /\ work' = Written(w, s.id, r)
      /\ UNCHANGED <<data, request>>
  BY DEF ClearAggregateValues, Others
<1>2. Shape(s)
  BY <1>1 DEF Inv, Working, Idle
<1>3. s = [pc |-> s.pc, by |-> s.by, id |-> s.id, then |-> s.then, since |-> s.since,
           snap |-> s.snap, left |-> s.left, alone |-> s.alone]
  BY <1>2 DEF Shape
<1>. HIDE DEF s
<1>4. r = [pc |-> "query", by |-> s.by, id |-> s.id, then |-> s.then, since |-> s.since,
           snap |-> s.snap, left |-> s.left, alone |-> TRUE]
  <2>. DEFINE q == [s EXCEPT !.pc = "query"]
  <2>1. q = [pc |-> "query", by |-> s.by, id |-> s.id, then |-> s.then, since |-> s.since,
             snap |-> s.snap, left |-> s.left, alone |-> s.alone]
    BY <1>3, Changed
  <2>2. r = [q EXCEPT !.alone = TRUE]
    BY <1>3
  <2>. HIDE DEF q
  <2>3. q = [pc |-> q.pc, by |-> q.by, id |-> q.id, then |-> q.then, since |-> q.since,
             snap |-> q.snap, left |-> q.left, alone |-> q.alone]
    BY <2>1
  <2>4. [q EXCEPT !.alone = TRUE]
          = [pc |-> q.pc, by |-> q.by, id |-> q.id, then |-> q.then, since |-> q.since,
             snap |-> q.snap, left |-> q.left, alone |-> TRUE]
    BY <2>3, Changed
  <2>. QED  BY <2>1, <2>2, <2>4
<1>5. DOMAIN << >> = {}
  OBVIOUS
<1>. HIDE DEF r
<1>6. Shape(r) /\ Found(r) /\ Exact(r, << >>) /\ r.id = s.id /\ s.id \in Ids
  BY <1>2, <1>4, <1>5 DEF Shape, Found, Exact
<1>7. Sound(<< >>)
  BY <1>5 DEF Sound
<1>. QED  BY <1>1, <1>6, <1>7, InvWrites

LEMMA InvQuery ==
  ASSUME Inv, UNCHANGED setup, NEW w \in Workers, ExecuteAggregation(w)
  PROVE  Inv'
<1>. DEFINE s == work[w]
            snap == Snapshot(s.id)
            q == [s EXCEPT !.snap = snap, !.left = DOMAIN snap]
<1>1. s.pc = "query" /\ work' = [work EXCEPT ![w] = Stage(q)]
      /\ UNCHANGED <<data, values, request>>
  BY DEF ExecuteAggregation, Others, Goes, store
<1>2. Shape(s) /\ Exact(s, values[s.id])
  BY <1>1 DEF Inv, Working, Idle
<1>3. s = [pc |-> s.pc, by |-> s.by, id |-> s.id, then |-> s.then, since |-> s.since,
           snap |-> s.snap, left |-> s.left, alone |-> s.alone]
  BY <1>2 DEF Shape
<1>4. DOMAIN snap \subseteq Keys /\ \A k \in DOMAIN snap : snap[k] = Number(source, k)
  BY KeysOfKeys DEF Snapshot
<1>5. \A k \in DOMAIN snap : Had(k, snap[k], s.since)
  BY <1>2, <1>4 DEF Had, Shape, Inv, History
<1>. HIDE DEF s, snap
<1>6. q = [pc |-> s.pc, by |-> s.by, id |-> s.id, then |-> s.then, since |-> s.since,
           snap |-> snap, left |-> DOMAIN snap, alone |-> s.alone]
  <2>. DEFINE t == [s EXCEPT !.snap = snap]
  <2>1. t = [pc |-> s.pc, by |-> s.by, id |-> s.id, then |-> s.then, since |-> s.since,
             snap |-> snap, left |-> s.left, alone |-> s.alone]
    BY <1>3, Changed
  <2>2. q = [t EXCEPT !.left = DOMAIN snap]
    BY <1>3
  <2>. HIDE DEF t
  <2>3. t = [pc |-> t.pc, by |-> t.by, id |-> t.id, then |-> t.then, since |-> t.since,
             snap |-> t.snap, left |-> t.left, alone |-> t.alone]
    BY <2>1
  <2>4. [t EXCEPT !.left = DOMAIN snap]
          = [pc |-> t.pc, by |-> t.by, id |-> t.id, then |-> t.then, since |-> t.since,
             snap |-> t.snap, left |-> DOMAIN snap, alone |-> t.alone]
    BY <2>3, Changed
  <2>. QED  BY <2>1, <2>2, <2>4
<1>. HIDE DEF q
<1>7. PICK pc \in {"store", "touch"} :
        /\ Stage(q) = [pc |-> pc, by |-> s.by, id |-> s.id, then |-> s.then, since |-> s.since,
                       snap |-> snap, left |-> DOMAIN snap, alone |-> s.alone]
        /\ pc = "touch" => DOMAIN snap = {}
  <2>1. CASE DOMAIN snap = {}
    <3>1. Stage(q) = [q EXCEPT !.pc = "touch"]
      BY <1>6, <2>1 DEF Stage
    <3>. QED  BY <1>6, <2>1, <3>1, Changed
  <2>2. CASE DOMAIN snap # {}
    <3>1. Stage(q) = [q EXCEPT !.pc = "store"]
      BY <1>6, <2>2 DEF Stage
    <3>. QED  BY <1>6, <2>2, <3>1, Changed
  <2>. QED  BY <2>1, <2>2
<1>. DEFINE r == Stage(q)
<1>. HIDE DEF r
<1>8. r = [pc |-> pc, by |-> s.by, id |-> s.id, then |-> s.then, since |-> s.since,
           snap |-> snap, left |-> DOMAIN snap, alone |-> s.alone]
  BY <1>7 DEF r
<1>9. Shape(r) /\ r.id = s.id
  BY <1>2, <1>7, <1>8 DEF Shape
<1>10. Found(r)
  BY <1>4, <1>5, <1>8 DEF Found
<1>11. Exact(r, values[s.id])
  BY <1>1, <1>2, <1>8 DEF Exact
<1>. QED  BY <1>1, <1>9, <1>10, <1>11, InvGoes DEF r

LEMMA InvStore ==
  ASSUME Inv, UNCHANGED setup, NEW w \in Workers, StoreAggregateValue(w)
  PROVE  Inv'
<1>. DEFINE s == work[w]
<1>1. /\ s.pc = "store" /\ InTime(s) /\ UNCHANGED <<data, request>>
      /\ \E k \in s.left :
           /\ values' = [values EXCEPT ![s.id] = With(values[s.id], k, Value(s.snap[k], s.by, s.since))]
           /\ work' = Written(w, s.id, Stage([s EXCEPT !.left = s.left \ {k}]))
  BY DEF StoreAggregateValue, Executes, Others
<1>2. Shape(s) /\ Found(s) /\ Exact(s, values[s.id])
  BY <1>1 DEF Inv, Working, Idle
<1>3. s = [pc |-> s.pc, by |-> s.by, id |-> s.id, then |-> s.then, since |-> s.since,
           snap |-> s.snap, left |-> s.left, alone |-> s.alone]
  BY <1>2 DEF Shape
<1>4. PICK k \in s.left :
        /\ values' = [values EXCEPT ![s.id] = With(values[s.id], k, Value(s.snap[k], s.by, s.since))]
        /\ work' = Written(w, s.id, Stage([s EXCEPT !.left = s.left \ {k}]))
  BY <1>1
<1>. DEFINE V == With(values[s.id], k, Value(s.snap[k], s.by, s.since))
            q == [s EXCEPT !.left = s.left \ {k}]
            r == Stage(q)
<1>5. values' = [values EXCEPT ![s.id] = V] /\ work' = Written(w, s.id, r)
  BY <1>4
<1>6. /\ DOMAIN V = DOMAIN values[s.id] \cup {k}
      /\ V[k] = Value(s.snap[k], s.by, s.since)
      /\ \A j \in DOMAIN values[s.id] : j # k => V[j] = values[s.id][j]
  BY DEF With
<1>. HIDE DEF s, V
<1>7. q = [pc |-> s.pc, by |-> s.by, id |-> s.id, then |-> s.then, since |-> s.since,
           snap |-> s.snap, left |-> s.left \ {k}, alone |-> s.alone]
  BY <1>3, Changed
<1>. HIDE DEF q
<1>8. PICK pc \in {"store", "touch"} :
        /\ r = [pc |-> pc, by |-> s.by, id |-> s.id, then |-> s.then, since |-> s.since,
                snap |-> s.snap, left |-> s.left \ {k}, alone |-> s.alone]
        /\ pc = "touch" => s.left \ {k} = {}
  <2>1. q = [pc |-> q.pc, by |-> q.by, id |-> q.id, then |-> q.then, since |-> q.since,
             snap |-> q.snap, left |-> q.left, alone |-> q.alone]
    BY <1>7
  <2>2. CASE s.left \ {k} = {}
    <3>1. r = [q EXCEPT !.pc = "touch"]
      BY <1>7, <2>2 DEF Stage
    <3>. QED  BY <1>7, <2>1, <2>2, <3>1, Changed
  <2>3. CASE s.left \ {k} # {}
    <3>1. r = [q EXCEPT !.pc = "store"]
      BY <1>7, <2>3 DEF Stage
    <3>. QED  BY <1>7, <2>1, <2>3, <3>1, Changed
  <2>. QED  BY <2>2, <2>3
<1>. HIDE DEF r
<1>9. Shape(r) /\ r.id = s.id /\ s.id \in Ids
  BY <1>2, <1>8 DEF Shape
<1>10. Found(r)
  BY <1>1, <1>2, <1>8 DEF Found
<1>11. Exact(r, V)
  <2>. SUFFICES ASSUME s.alone
                PROVE  /\ DOMAIN V = DOMAIN s.snap \ (s.left \ {k})
                       /\ \A j \in DOMAIN V : V[j].n = s.snap[j]
    BY <1>8 DEF Exact
  <2>1. /\ DOMAIN values[s.id] = DOMAIN s.snap \ s.left
        /\ \A j \in DOMAIN values[s.id] : values[s.id][j].n = s.snap[j]
    BY <1>1, <1>2 DEF Exact
  <2>2. s.left \subseteq DOMAIN s.snap
    BY <1>1, <1>2 DEF Found
  <2>3. V[k].n = s.snap[k]
    BY <1>6 DEF Value
  <2>. QED  BY <1>4, <1>6, <2>1, <2>2, <2>3
<1>12. Sound(V)
  <2>1. Sound(values[s.id])
    BY <1>2 DEF Shape, Inv, Stored
  <2>2. k \in Keys /\ Had(k, s.snap[k], s.since)
    BY <1>1, <1>2, <1>4 DEF Found
  <2>3. s.by \in DOMAIN Timeout => now <= s.since + Timeout[s.by]
    BY <1>1, <1>2 DEF InTime, Inv, History, Shape
  <2>4. now \in Nat /\ s.since \in Nat /\ now <= now
    BY <1>2 DEF Shape, Inv, History
  <2>5. k \in Keys /\ Fits(V[k], k)
    BY <1>6, <2>2, <2>3, <2>4 DEF Fits, Value
  <2>. QED  BY <1>6, <2>1, <2>5 DEF Sound
<1>. QED  BY <1>1, <1>5, <1>9, <1>10, <1>11, <1>12, InvWrites

LEMMA InvRefresh ==
  ASSUME Inv, UNCHANGED setup, NEW w \in Workers, RefreshStep(w)
  PROVE  Inv'
<1>1. CASE RefreshFails(w) \/ UpdateLastRefreshed(w)
  <2>1. work[w].pc \in {"clear", "query", "store", "touch"} /\ UNCHANGED <<data, values, request>>
        /\ work' = [work EXCEPT ![w] = After(work[w])]
    BY <1>1 DEF RefreshFails, UpdateLastRefreshed, Goes, Others, store
  <2>2. work[w] # Idle
    BY <2>1 DEF Idle
  <2>. QED  BY <2>1, <2>2, InvGoesOn
<1>. QED  BY <1>1, InvClear, InvQuery, InvStore DEF RefreshStep

-----------------------------------------------------------------------------
(* Definitions, requests, the scheduler and the listener *)

LEMMA InvSame ==
  ASSUME Inv, UNCHANGED <<data, values, work, request, setup>>
  PROVE  Inv'
  BY DEF Inv, data, History, Stored, Sound, Fits, Working, Shape, Found, Exact, Asked, Had

LEMMA InvCall ==
  ASSUME Inv, UNCHANGED setup, Call
  PROVE  Inv'
<1>1. setup.id \in Ids
  BY SetupsAssumption DEF SetupsAssumption, Inv
<1>2. CASE OnDemand(setup.id)
  <2>1. Defined \subseteq Ids /\ UNCHANGED <<data, values, request>>
    BY <1>2 DEF Defined, OnDemand, Others, store
  <2>2. PICK w : Goes(w, Refresh("api", setup.id, {})) \/ Goes(w, After(Refresh("api", setup.id, Defined)))
    BY <1>2 DEF OnDemand
  <2>3. ASSUME w \notin Workers PROVE work' = work
    BY <2>2, <2>3 DEF Goes, Inv, Working
  <2>4. \A r : (r # Idle => Shape(r) /\ r.pc = "clear" /\ ~r.alone)
                 => (r # Idle => Shape(r) /\ Found(r) /\ Exact(r, values[r.id]))
    BY CleanIsFine
  <2>5. LET r == Refresh("api", setup.id, {}) IN Shape(r) /\ r.pc = "clear" /\ ~r.alone
    BY <1>1, RefreshIsClean DEF Inv
  <2>6. LET r == After(Refresh("api", setup.id, Defined))
        IN r # Idle => Shape(r) /\ r.pc = "clear" /\ ~r.alone
    BY <1>1, <2>1, RefreshIsClean, AfterIsClean DEF Inv
  <2>7. PICK r : Goes(w, r) /\ (r # Idle => Shape(r) /\ r.pc = "clear" /\ ~r.alone)
    BY <2>2, <2>5, <2>6
  <2>8. CASE w \in Workers
    BY <2>1, <2>4, <2>7, <2>8, InvGoes DEF Goes
  <2>9. CASE w \notin Workers
    BY <2>1, <2>3, <2>9, InvSame
  <2>. QED  BY <2>8, <2>9
<1>3. CASE DeleteAggregate(setup.id)
  <2>1. /\ values' = [values EXCEPT ![setup.id] = << >>] /\ work' = Written(None, setup.id, Idle)
        /\ UNCHANGED <<data, request>>
    BY <1>3 DEF DeleteAggregate
  <2>2. Sound(<< >>)
    BY DEF Sound
  <2>. QED  BY <1>1, <2>1, <2>2, InvWrites
<1>4. ASSUME NEW s, CreateAggregate(setup.id, s) PROVE Inv'
  <2>1. {setup.id} \in SUBSET Ids /\ UNCHANGED <<data, values, request>>
        /\ Spawn("create", {setup.id}, IF s = "lazy" THEN 0 ELSE 1)
    BY <1>1, <1>4 DEF CreateAggregate
  <2>. QED  BY <2>1, InvSpawn
<1>5. ASSUME NEW id \in Ids, NEW k \in KeysOf(id), ComputeLazily(id, k) PROVE Inv'
  <2>1. /\ UNCHANGED <<data, values, work>>
        /\ request' = [pc |-> "store", id |-> id, key |-> k, n |-> LazyNumber(k), since |-> now]
    BY <1>5 DEF ComputeLazily, store
  <2>2. k \in Keys /\ Had(k, Number(source, k), now) /\ now \in Nat
    BY KeysOfKeys DEF Inv, History, Had
  <2>4. ReadsAsItself(k) => LazyNumber(k) = Number(source, k)
    BY DEF LazyNumber
  <2>3. Asked'
    BY <2>1, <2>2, <2>4 DEF Asked, Had, data
  <2>. QED  BY <2>1, <2>3 DEF Inv, data, History, Stored, Sound, Fits, Working, Shape, Found, Exact, Had
<1>. QED  BY <1>2, <1>3, <1>4, <1>5 DEF Call

LEMMA InvStoreLazily ==
  ASSUME Inv, UNCHANGED setup, StoreLazily
  PROVE  Inv'
<1>1. request.pc = "store" /\ UNCHANGED data /\ request' = NoRequest
  BY DEF StoreLazily
<1>2. /\ request.id \in Ids /\ request.key \in Keys
      /\ request.since \in Nat /\ request.since <= now /\ now \in Nat
      /\ ReadsAsItself(request.key)
           => Had(request.key, request.n, request.since)
  BY <1>1 DEF Inv, Asked, NoRequest, History
<1>3. CASE UNCHANGED <<values, work>>
  BY <1>1, <1>3 DEF Inv, data, History, Stored, Sound, Fits, Working, Shape, Found, Exact, Asked, Had
<1>. DEFINE x == Value(request.n, "lazy", request.since)
            V == With(values[request.id], request.key, x)
<1>4. CASE values' = [values EXCEPT ![request.id] = V] /\ work' = Written(None, request.id, Idle)
  <2>1. x = [n |-> request.n, at |-> now, by |-> "lazy", since |-> request.since]
    BY DEF Value
  <2>2. Fits(x, request.key)
    BY <1>2, <2>1 DEF Fits, Misread, Timeout
  <2>. HIDE DEF x
  <2>3. /\ DOMAIN V = DOMAIN values[request.id] \cup {request.key}
        /\ V[request.key] = x
        /\ \A j \in DOMAIN values[request.id] : j # request.key => V[j] = values[request.id][j]
    BY DEF With
  <2>4. Sound(values[request.id])
    BY <1>2 DEF Inv, Stored
  <2>. HIDE DEF V
  <2>5. Sound(V)
    BY <1>2, <2>2, <2>3, <2>4 DEF Sound
  <2>. QED  BY <1>1, <1>2, <1>4, <2>5, InvWrites
<1>. QED  BY <1>3, <1>4 DEF StoreLazily

\* Events of the listener.
LEMMA InvEvents ==
  ASSUME Inv, UNCHANGED setup, NEW n, HandleCDCEvents(n)
  PROVE  Inv'
<1>1. CDCAggregates \in SUBSET Ids /\ Spawn("cdc", CDCAggregates, n)
      /\ UNCHANGED <<data, values, request>>
  BY DEF HandleCDCEvents, CDCAggregates, store
<1>. QED  BY <1>1, InvSpawn

\* What the scheduler has yet to start are aggregates.
Pending ==
  /\ scheduler = [pc |-> scheduler.pc, pending |-> scheduler.pending]
  /\ scheduler.pending \subseteq Ids

LEMMA InvSchedule ==
  ASSUME Inv, Pending, UNCHANGED setup, Schedule \/ SchedulerStops
  PROVE  Inv'
<1>1. CASE SchedulerTick \/ SchedulerWait \/ SchedulerStops
  BY <1>1, InvSame DEF SchedulerTick, SchedulerWait, SchedulerStops, SchedulerBecomes, store
<1>2. CASE SchedulerSpawn
  <2>1. PICK id \in scheduler.pending :
          Spawn("scheduler", {id}, 1) /\ UNCHANGED <<data, values, request>>
    BY <1>2 DEF SchedulerSpawn, SchedulerBecomes, store
  <2>2. {id} \in SUBSET Ids
    BY <2>1 DEF Pending
  <2>. QED  BY <2>1, <2>2, InvSpawn
<1>. QED  BY <1>1, <1>2 DEF Schedule

LEMMA PendingNext ==
  ASSUME Pending, [Next]_vars
  PROVE  Pending'
<1>1. CASE UNCHANGED scheduler
  BY <1>1 DEF Pending
<1>2. CASE Start
  BY <1>2 DEF Start, Pending
<1>3. CASE Schedule \/ SchedulerStops
  <2>1. ASSUME NEW pc, NEW T \in SUBSET Ids, SchedulerBecomes(pc, T) PROVE Pending'
    BY <2>1 DEF SchedulerBecomes, Pending
  <2>2. CASE SchedulerTick
    <3>. DEFINE T == {id \in Ids : Due(id)}
    <3>1. T \in SUBSET Ids /\ SchedulerBecomes("spawn", T)
      BY <2>2 DEF SchedulerTick
    <3>. QED  BY <2>1, <3>1
  <2>3. CASE SchedulerSpawn
    <3>1. PICK id : SchedulerBecomes("spawn", scheduler.pending \ {id})
      BY <2>3 DEF SchedulerSpawn
    <3>2. scheduler.pending \ {id} \in SUBSET Ids
      BY DEF Pending
    <3>. QED  BY <2>1, <3>1, <3>2
  <2>4. CASE SchedulerWait \/ SchedulerStops
    BY <2>1, <2>4 DEF SchedulerWait, SchedulerStops
  <2>. QED  BY <1>3, <2>2, <2>3, <2>4 DEF Schedule
<1>4. CASE (\E w \in Workers : RefreshStep(w)) \/ StoreLazily \/ Call
  BY <1>1, <1>4 DEF RefreshStep, ClearAggregateValues, ExecuteAggregation, StoreAggregateValue,
              RefreshFails, UpdateLastRefreshed, Others, StoreLazily, Call, OnDemand,
              DeleteAggregate, CreateAggregate, ComputeLazily
<1>5. CASE Stop \/ StopListener \/ CloseDuckDB \/ ChangeRow \/ Time
  BY <1>1, <1>5 DEF Stop, StopListener, CloseDuckDB, ChangeRow, Becomes, Time, Clock, aggvars
<1>6. CASE Poll \/ Notified \/ NotifyCDC
  BY <1>1, <1>6 DEF Poll, Notified, NotifyCDC, HandleCDCEvents
<1>7. CASE UNCHANGED vars \/ Capturing
  BY <1>1, <1>7 DEF vars, Capturing, aggvars
<1>. QED  BY <1>2, <1>3, <1>4, <1>5, <1>6, <1>7 DEF Next, SchedulerStopped

LEMMA InvNext ==
  ASSUME Inv, Pending, [Next]_vars
  PROVE  Inv'
<1>1. CASE UNCHANGED <<data, values, work, request, setup>>
  BY <1>1, InvSame
<1>2. CASE Start \/ Stop \/ StopListener \/ CloseDuckDB
  BY <1>1, <1>2 DEF Start, Stop, StopListener, CloseDuckDB, aggvars, store
<1>3. CASE ChangeRow
  <2>1. UNCHANGED <<now, values, work, request, setup>> /\ lastHad' = Noted(lastHad, source', now)
    BY <1>3 DEF ChangeRow, Becomes, Running, store
  <2>. QED  BY <2>1, InvWorld DEF Inv, History
<1>4. CASE Time /\ Aggregating
  <2>1. /\ UNCHANGED <<source, values, work, request, setup>> /\ now' = now + 1
        /\ lastHad' = Noted(lastHad, source, now')
    BY <1>4 DEF Time, Clock, Aggregating, store
  <2>. QED  BY <2>1, InvWorld DEF Inv, History
<1>5. CASE Poll \/ Notified \/ NotifyCDC
  BY <1>5, InvEvents DEF Poll, Notified, NotifyCDC, Running
<1>6. CASE (Call \/ StoreLazily \/ Schedule \/ SchedulerStops) /\ Aggregating
  BY <1>6, InvCall, InvStoreLazily, InvSchedule DEF Aggregating
<1>7. CASE (\E w \in Workers : RefreshStep(w)) /\ Aggregating
  BY <1>7, InvRefresh DEF Aggregating
<1>8. CASE UNCHANGED vars \/ Capturing
  BY <1>1, <1>8 DEF vars, Capturing, aggvars, data, store
<1>. QED  BY <1>2, <1>3, <1>4, <1>5, <1>6, <1>7, <1>8 DEF Next, SchedulerStopped

LEMMA InvAlways == Spec => []Inv
<1>1. Init => Pending
  BY DEF Init, AggInit, Pending
<1>2. Inv /\ Pending /\ [Next]_vars => Inv' /\ Pending'
  BY InvNext, PendingNext
<1>. QED  BY <1>1, <1>2, InvInit, PTL DEF Spec

-----------------------------------------------------------------------------
(* What follows *)

\* Whatever refreshes, lazy requests, edits, changes and failing statements overlap, in
\* every configuration: a number that the router serves was true at some time since
\* whoever stored it set to work, unless a lazy request stored it under a key that it
\* reads as another one; and no longer ago than the staleness and the deadline of the
\* refresh that stored it together, if that had one.
THEOREM HitsAreRecent == Spec => []HitIsRecent
<1>1. ASSUME Inv PROVE HitIsRecent
  <2>. SUFFICES ASSUME NEW id \in Defined, NEW k \in KeysOf(id), Served(id, k),
                       ~Misread(values[id][k], k)
                PROVE  LET v == values[id][k]
                       IN /\ v.n \in DOMAIN lastHad[k] /\ v.since <= lastHad[k][v.n]
                          /\ v.by \in DOMAIN Timeout =>
                               now - lastHad[k][v.n] <= Longest(id) + Timeout[v.by]
    BY DEF HitIsRecent
  <2>. DEFINE v == values[id][k]
  <2>1. id \in Ids /\ k \in DOMAIN values[id]
    BY DEF Defined, Served, Materialized, FreshLazily
  <2>2. k \in Keys /\ Fits(v, k) /\ ~Misread(v, k)
    BY <1>1, <2>1 DEF Inv, Stored, Sound
  <2>3. /\ now \in Nat /\ v.n \in DOMAIN lastHad[k] /\ lastHad[k][v.n] \in Nat
        /\ v.since \in Nat /\ v.since <= lastHad[k][v.n] /\ v.at \in Nat
        /\ v.by \in DOMAIN Timeout => v.at <= v.since + Timeout[v.by]
    BY <1>1, <2>2 DEF Inv, History, Had, Fits
  <2>4. now - v.at <= Staleness \/ (HasStrategy(id, "lazy") /\ now - v.at < LazyTTL)
    <3>1. CASE Materialized(id, k)
      BY <3>1 DEF Materialized
    <3>2. CASE FreshLazily(id, k)
      BY <3>2 DEF FreshLazily
    <3>. QED  BY <3>1, <3>2 DEF Served
  <2>. HIDE DEF v
  <2>5. now - v.at <= Longest(id) /\ Longest(id) \in Nat
    BY <2>3, <2>4, AggregatesAssumption DEF AggregatesAssumption, Longest
  <2>6. ASSUME v.by \in DOMAIN Timeout
        PROVE  now - lastHad[k][v.n] <= Longest(id) + Timeout[v.by]
    <3>1. Timeout[v.by] \in Nat
      BY <2>6, AggregatesAssumption DEF AggregatesAssumption, Timeout
    <3>. QED  BY <2>3, <2>5, <2>6, <3>1
  <2>. QED  BY <2>3, <2>6 DEF v
<1>. QED  BY <1>1, InvAlways, PTL

\* However many refreshes overlap: one that nobody disturbed has replaced the groups of
\* its aggregate by those its query found.
THEOREM UndisturbedIsExact == Spec => []AloneIsExact
<1>1. ASSUME Inv, NEW w \in Workers, work[w].pc = "touch", work[w].alone
      PROVE  /\ DOMAIN values[work[w].id] = DOMAIN work[w].snap
             /\ \A k \in DOMAIN values[work[w].id] : values[work[w].id][k].n = work[w].snap[k]
  <2>1. Shape(work[w]) /\ Exact(work[w], values[work[w].id])
    BY <1>1 DEF Inv, Working, Idle
  <2>. QED  BY <1>1, <2>1 DEF Shape, Exact
<1>2. Inv => AloneIsExact
  BY <1>1 DEF AloneIsExact
<1>. QED  BY <1>2, InvAlways, PTL
=============================================================================
