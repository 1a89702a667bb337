------------------------- MODULE CacheManagerProofs -------------------------
(* Theorems about CacheManager over both backends, for any keys, values,      *)
(* lifetimes and sizes, and any number of callers and of calls of several     *)
(* commands at a time.                                                        *)
EXTENDS CacheManager, FiniteSetTheorems, TLAPS

-----------------------------------------------------------------------------
(* The inductive invariant *)

Types ==
  /\ backend \in {"memory", "redis"} /\ now \in Nat /\ now <= MaxTime
  /\ \A k \in DOMAIN written : written[k].exp \in Int /\ written[k].value \in Values
  /\ written = [k \in DOMAIN written |-> written[k]]

\* Memory holds what was last set; what is missing was evicted or has expired.
MemoryHolds ==
  backend = "memory" =>
    /\ \A k \in Present : k \in DOMAIN written /\ items[k] = written[k]
    /\ \A k \in DOMAIN written \ Present : k \in evicted \/ now > written[k].exp

\* A call of several commands is one of these.
Shape(s) ==
  /\ s.op \in {"idle", "scan", "del", "set", "sadd", "expire", "delkeys", "deltag"}
  /\ s.op = "idle" => s = [op |-> "idle"]
  /\ s.op = "scan" =>
       s = [op |-> "scan", patterns |-> s.patterns, owed |-> s.owed, spared |-> s.spared]
  /\ s.op = "del" =>
       /\ s = [op |-> "del", page |-> s.page, last |-> s.last, patterns |-> s.patterns,
               owed |-> s.owed, spared |-> s.spared]
       /\ s.last \in BOOLEAN
  /\ s.op = "set" =>
       /\ s = [op |-> "set", key |-> s.key, value |-> s.value, ttl |-> s.ttl, tags |-> s.tags]
       /\ s.ttl \in Int /\ s.value \in Values
  /\ s.op \in {"sadd", "expire"} =>
       s = [op |-> s.op, key |-> s.key, ttl |-> s.ttl, tags |-> s.tags, next |-> s.next,
            mine |-> s.mine]
  /\ s.op \in {"delkeys", "deltag"} =>
       s = [op |-> s.op, tag |-> s.tag, keys |-> s.keys, added |-> s.added]

\* A key of its pattern that a sweep has before it is still to come, on the page, or was
\* set since the sweep began.
Ahead(s, present) ==
  /\ s.op = "scan" => present \cap Head(s.patterns) \subseteq s.owed \cup s.spared
  /\ s.op = "del" =>
       present \cap Head(s.patterns)
         \subseteq s.page \cup s.spared \cup IF s.last THEN {} ELSE s.owed

Sweeps ==
  /\ call = [c \in Callers |-> call[c]]
  /\ \A c \in Callers : Shape(call[c]) /\ Ahead(call[c], DOMAIN store)

\* Redis holds what was last set, and nothing that has expired.
RedisHolds ==
  backend = "redis" =>
    /\ written = store /\ Sweeps
    /\ \A k \in DOMAIN store : now <= store[k].exp

Inv == Types /\ MemoryHolds /\ RedisHolds /\ ReadsLastWrite

LEMMA InvInit == Init => Inv
<1>. SUFFICES ASSUME Init PROVE Inv
  OBVIOUS
<1>1. DOMAIN << >> = {}
  OBVIOUS
<1>2. Types /\ MemoryHolds /\ ReadsLastWrite
  BY <1>1, CacheAssumption
     DEF Init, CacheInit, CacheAssumption, Types, MemoryHolds, Present, ReadsLastWrite
<1>3. RedisHolds
  <2>1. written = store /\ DOMAIN store = {}
    BY <1>1 DEF Init, CacheInit, Redis!Init
  <2>2. call = [c \in Callers |-> [op |-> "idle"]]
    BY DEF Init, Redis!Init, Redis!Idle
  <2>3. Sweeps
    BY <2>2 DEF Sweeps, Shape, Ahead
  <2>. QED  BY <2>1, <2>3 DEF RedisHolds
<1>. QED  BY <1>2, <1>3 DEF Inv

-----------------------------------------------------------------------------
(* The memory cache *)

\* What keeps the memory's part: keys that leave were deleted, evicted or had expired.
LEMMA MemoryKept ==
  ASSUME MemoryHolds, UNCHANGED <<backend, now, written>>,
         \E D : /\ items' = Restrict(items, Present \ D)
                /\ \A k \in Present \cap D : k \in evicted' \/ now > items[k].exp,
         evicted \subseteq evicted'
  PROVE  MemoryHolds'
<1>. SUFFICES ASSUME backend = "memory" PROVE MemoryHolds'
  BY DEF MemoryHolds
<1>1. PICK D : /\ items' = Restrict(items, Present \ D)
               /\ \A k \in Present \cap D : k \in evicted' \/ now > items[k].exp
  OBVIOUS
<1>2. DOMAIN items' = Present \ D /\ \A k \in Present \ D : items'[k] = items[k]
  BY <1>1 DEF Restrict
<1>. QED  BY <1>1, <1>2 DEF MemoryHolds, Present

LEMMA MemoryGet ==
  ASSUME Types, MemoryHolds, backend = "memory", UNCHANGED backend, NEW k, Get(k)
  PROVE  Types' /\ MemoryHolds' /\ ReadsLastWrite'
<1>. USE ManagerAssumption DEF ManagerAssumption
<1>1. UNCHANGED <<now, written, evicted>> /\ Types'
  BY DEF Get, Miss, Types
<1>2. CASE k \notin Present /\ Miss(k) /\ UNCHANGED <<items, lru, bytesUsed>>
  <2>1. MemoryHolds'
    BY <1>1, <1>2 DEF MemoryHolds, Present
  <2>2. answer' = <<k, "miss">>
    BY <1>2 DEF Miss
  <2>. QED  BY <1>1, <1>2, <2>1, <2>2 DEF MemoryHolds, ReadsLastWrite
<1>3. CASE k \in Present /\ Expired(k) /\ Miss(k) /\ Remove({k})
  <2>1. MemoryHolds'
    <3>1. /\ items' = Restrict(items, Present \ {k})
          /\ \A j \in Present \cap {k} : j \in evicted' \/ now > items[j].exp
      BY <1>3 DEF Remove, Expired
    <3>. QED  BY <1>1, <3>1, MemoryKept
  <2>2. answer' = <<k, "miss">>
    BY <1>3 DEF Miss
  <2>. QED  BY <1>1, <1>3, <2>1, <2>2 DEF MemoryHolds, ReadsLastWrite, Expired
<1>4. CASE k \in Present /\ ~Expired(k) /\ UNCHANGED items /\ answer' = <<k, items[k].value>>
  <2>1. MemoryHolds'
    BY <1>1, <1>4 DEF MemoryHolds, Present
  <2>2. /\ k \in DOMAIN written /\ items[k] = written[k] /\ now <= written[k].exp
        /\ written[k].value \in Values
    BY <1>4 DEF MemoryHolds, Expired, Types
  <2>. QED  BY <1>1, <1>4, <2>1, <2>2 DEF ReadsLastWrite
<1>. QED  BY <1>2, <1>3, <1>4 DEF Get

LEMMA RestrictFacts ==
  ASSUME NEW f, NEW D
  PROVE  /\ DOMAIN Restrict(f, D) = D /\ \A j \in D : Restrict(f, D)[j] = f[j]
         /\ Restrict(f, D) = [j \in D |-> Restrict(f, D)[j]]
  BY DEF Restrict

LEMMA MemorySet ==
  ASSUME Types, MemoryHolds, backend = "memory", UNCHANGED backend,
         NEW k, NEW v \in Values, NEW ttl \in Int, Set(k, v, ttl)
  PROVE  Types' /\ MemoryHolds' /\ ReadsLastWrite'
<1>. DEFINE e == Entry(v, ttl)
<1>1. e.exp \in Int /\ e.value \in Values
  BY CacheAssumption DEF Types, CacheAssumption, Entry, Lifetime
<1>2. /\ written' = With(written, k, e) /\ UNCHANGED now /\ answer' = << >>
      /\ evicted' = (evicted \cup (Present \ DOMAIN items')) \ {k}
      /\ \E D : k \notin Present \cap D /\ items' = With(Restrict(items, Present \ D), k, e)
  <2>1. CASE Overwrite(k, e)
    <3>1. Restrict(items, Present \ {}) = items \/ items' = With(Restrict(items, Present \ {}), k, e)
      BY <2>1 DEF Overwrite, With, Restrict, Present
    <3>2. items' = With(Restrict(items, Present \ {}), k, e)
      BY <2>1, <3>1 DEF Overwrite
    <3>. QED  BY <3>2 DEF Set
  <2>2. CASE Insert(k, e)
    BY <2>2 DEF Set, Insert
  <2>. QED  BY <2>1, <2>2 DEF Set
<1>. HIDE DEF e
<1>3. PICK D : k \notin Present \cap D /\ items' = With(Restrict(items, Present \ D), k, e)
  BY <1>2
<1>4. /\ DOMAIN items' = (Present \ D) \cup {k} /\ items'[k] = e
      /\ \A j \in Present \ D : j # k => items'[j] = items[j]
  <2>. DEFINE r == Restrict(items, Present \ D)
  <2>1. DOMAIN r = Present \ D /\ \A j \in Present \ D : r[j] = items[j]
    BY RestrictFacts
  <2>2. items' = With(r, k, e)
    BY <1>3
  <2>. HIDE DEF r
  <2>3. /\ DOMAIN With(r, k, e) = DOMAIN r \cup {k} /\ With(r, k, e)[k] = e
        /\ \A j \in DOMAIN r : j # k => With(r, k, e)[j] = r[j]
    BY DEF With
  <2>. QED  BY <2>1, <2>2, <2>3
<1>5. /\ DOMAIN written' = DOMAIN written \cup {k} /\ written'[k] = e
      /\ \A j \in DOMAIN written : j # k => written'[j] = written[j]
      /\ written' = [j \in DOMAIN written' |-> written'[j]]
  <2>1. /\ DOMAIN With(written, k, e) = DOMAIN written \cup {k} /\ With(written, k, e)[k] = e
        /\ \A j \in DOMAIN written : j # k => With(written, k, e)[j] = written[j]
        /\ With(written, k, e) = [j \in DOMAIN written \cup {k} |-> With(written, k, e)[j]]
    BY DEF With
  <2>. QED  BY <1>2, <2>1
<1>6. Types'
  BY <1>1, <1>2, <1>5 DEF Types
<1>7. MemoryHolds'
  BY <1>2, <1>4, <1>5 DEF MemoryHolds, Present
<1>. QED  BY <1>2, <1>6, <1>7 DEF ReadsLastWrite

LEMMA MemoryRest ==
  ASSUME Types, MemoryHolds, backend = "memory", UNCHANGED backend,
         Clock \/ Cleanup \/ Clear \/ \E k : Delete(k)
  PROVE  Types' /\ MemoryHolds' /\ ReadsLastWrite'
<1>. USE CacheAssumption DEF CacheAssumption
<1>1. answer' = << >> /\ ReadsLastWrite'
  BY DEF Clock, Cleanup, Clear, Delete, ReadsLastWrite
<1>2. CASE Clock
  <2>1. now < MaxTime /\ now' = now + 1 /\ UNCHANGED <<items, written, evicted>>
    BY <1>2 DEF Clock
  <2>. QED  BY <1>1, <2>1 DEF Types, MemoryHolds, Present
<1>3. CASE Cleanup
  <2>. DEFINE D == {k \in Present : Expired(k)}
  <2>1. UNCHANGED <<now, written, evicted>> /\ items' = Restrict(items, Present \ D)
        /\ \A k \in Present \cap D : k \in evicted' \/ now > items[k].exp
    BY <1>3 DEF Cleanup, Remove, Expired
  <2>2. MemoryHolds'
    BY <2>1, MemoryKept
  <2>. QED  BY <1>1, <2>1, <2>2 DEF Types
<1>4. CASE Clear
  <2>1. UNCHANGED now /\ items' = << >> /\ written' = << >> /\ DOMAIN << >> = {}
    BY <1>4 DEF Clear
  <2>. QED  BY <1>1, <2>1 DEF Types, MemoryHolds, Present
<1>5. ASSUME NEW k, Delete(k) PROVE Types' /\ MemoryHolds' /\ ReadsLastWrite'
  <2>1. UNCHANGED <<now, evicted>> /\ items' = Restrict(items, Present \ ({k} \cap Present))
        /\ written' = Restrict(written, DOMAIN written \ {k})
    BY <1>5 DEF Delete, Remove
  <2>2. /\ DOMAIN items' = Present \ {k} /\ \A j \in Present \ {k} : items'[j] = items[j]
        /\ DOMAIN written' = DOMAIN written \ {k}
        /\ \A j \in DOMAIN written \ {k} : written'[j] = written[j]
        /\ written' = [j \in DOMAIN written' |-> written'[j]]
    BY <2>1 DEF Restrict
  <2>. QED  BY <1>1, <2>1, <2>2 DEF Types, MemoryHolds, Present
<1>. QED  BY <1>2, <1>3, <1>4, <1>5

-----------------------------------------------------------------------------
(* Redis: sweeps *)

SparedCall(s, k) == [s EXCEPT !.spared = @ \cup {k}]
ExcusedCall(s, D) == [s EXCEPT !.owed = @ \ D]

\* A key is set: a sweep need not find it.
LEMMA SparedAhead ==
  ASSUME NEW s, Shape(s), NEW present, Ahead(s, present), NEW k, s.op \in {"scan", "del"}
  PROVE  Shape(SparedCall(s, k)) /\ Ahead(SparedCall(s, k), present \cup {k})
<1>. DEFINE r == SparedCall(s, k)
<1>1. CASE s.op = "scan"
  <2>1. r = [op |-> "scan", patterns |-> s.patterns, owed |-> s.owed, spared |-> s.spared \cup {k}]
    <3>1. s = [op |-> "scan", patterns |-> s.patterns, owed |-> s.owed, spared |-> s.spared]
      BY <1>1 DEF Shape
    <3>. QED  BY <3>1 DEF SparedCall
  <2>. HIDE DEF r
  <2>2. Shape(r) /\ Ahead(r, present \cup {k})
    BY <1>1, <2>1 DEF Shape, Ahead
  <2>. QED  BY <2>2 DEF r
<1>2. CASE s.op = "del"
  <2>1. r = [op |-> "del", page |-> s.page, last |-> s.last, patterns |-> s.patterns,
             owed |-> s.owed, spared |-> s.spared \cup {k}]
    <3>1. s = [op |-> "del", page |-> s.page, last |-> s.last, patterns |-> s.patterns,
               owed |-> s.owed, spared |-> s.spared]
      BY <1>2 DEF Shape
    <3>. QED  BY <3>1 DEF SparedCall
  <2>. HIDE DEF r
  <2>2. Shape(r) /\ Ahead(r, present \cup {k})
    BY <1>2, <2>1 DEF Shape, Ahead
  <2>. QED  BY <2>2 DEF r
<1>. QED  BY <1>1, <1>2

\* Keys are gone: it need not return them.
LEMMA ExcusedAhead ==
  ASSUME NEW s, Shape(s), NEW present, Ahead(s, present), NEW D, s.op \in {"scan", "del"}
  PROVE  Shape(ExcusedCall(s, D)) /\ Ahead(ExcusedCall(s, D), present \ D)
<1>. DEFINE r == ExcusedCall(s, D)
<1>1. CASE s.op = "scan"
  <2>1. r = [op |-> "scan", patterns |-> s.patterns, owed |-> s.owed \ D, spared |-> s.spared]
    BY <1>1 DEF Shape, ExcusedCall
  <2>. HIDE DEF r
  <2>2. Shape(r) /\ Ahead(r, present \ D)
    BY <1>1, <2>1 DEF Shape, Ahead
  <2>. QED  BY <2>2 DEF r
<1>2. CASE s.op = "del"
  <2>1. r = [op |-> "del", page |-> s.page, last |-> s.last, patterns |-> s.patterns,
             owed |-> s.owed \ D, spared |-> s.spared]
    BY <1>2 DEF Shape, ExcusedCall
  <2>. HIDE DEF r
  <2>2. Shape(r) /\ Ahead(r, present \ D)
    BY <1>2, <2>1 DEF Shape, Ahead
  <2>. QED  BY <2>2 DEF r
<1>. QED  BY <1>1, <1>2

\* A call that does not sweep has nothing before it.
LEMMA AheadOfOthers ==
  ASSUME NEW s, s.op \notin {"scan", "del"}, NEW present
  PROVE  Ahead(s, present)
  BY DEF Ahead

\* Another set the key of a call of SetWithTags.
LEMMA MineShape ==
  ASSUME NEW s, Shape(s), s.op \in {"sadd", "expire"}, NEW b
  PROVE  /\ [s EXCEPT !.mine = b]
              = [op |-> s.op, key |-> s.key, ttl |-> s.ttl, tags |-> s.tags, next |-> s.next,
                 mine |-> b]
         /\ Shape([s EXCEPT !.mine = b])
<1>. DEFINE r == [op |-> s.op, key |-> s.key, ttl |-> s.ttl, tags |-> s.tags, next |-> s.next,
                  mine |-> b]
<1>1. [s EXCEPT !.mine = b] = r
  BY DEF Shape
<1>. HIDE DEF r
<1>2. Shape(r)
  BY DEF Shape, r
<1>. QED  BY <1>1, <1>2 DEF r

LEMMA SparedCalls ==
  ASSUME Sweeps, NEW k, NEW c \in Callers
  PROVE  /\ Shape(Redis!Spared(k)[c]) /\ Ahead(Redis!Spared(k)[c], DOMAIN store \cup {k})
         /\ Redis!Spared(k) = [d \in Callers |-> Redis!Spared(k)[d]]
<1>1. Shape(call[c]) /\ Ahead(call[c], DOMAIN store)
  BY DEF Sweeps
<1>. DEFINE f == Redis!Spared(k)
<1>2. f = [d \in Callers |-> f[d]]
  BY DEF Redis!Spared
<1>3. CASE call[c].op \in {"scan", "del"}
  <2>1. f[c] = SparedCall(call[c], k)
    <3>1. Redis!Sweeping(c)
      BY <1>3 DEF Redis!Sweeping
    <3>. QED  BY <3>1 DEF Redis!Spared, SparedCall
  <2>. HIDE DEF f
  <2>2. Shape(f[c]) /\ Ahead(f[c], DOMAIN store \cup {k})
    BY <1>1, <1>3, <2>1, SparedAhead
  <2>. QED  BY <1>2, <2>2 DEF f
<1>4. CASE call[c].op \in {"sadd", "expire"}
  <2>1. PICK b : b = call[c].mine \ {k}
    OBVIOUS
  <2>3. f[c] = [call[c] EXCEPT !.mine = b]
    <3>1. ~Redis!Sweeping(c) /\ Redis!Adding(c)
      BY <1>4 DEF Redis!Sweeping, Redis!Adding
    <3>. QED  BY <2>1, <3>1 DEF Redis!Spared
  <2>. HIDE DEF f
  <2>4. Shape([call[c] EXCEPT !.mine = b])
    BY <1>1, <1>4, MineShape
  <2>5. f[c].op = call[c].op
    BY <1>1, <1>4, <2>3, MineShape
  <2>6. Ahead(f[c], DOMAIN store \cup {k})
    BY <1>4, <2>5, AheadOfOthers
  <2>. QED  BY <1>2, <2>3, <2>4, <2>6 DEF f
<1>5. CASE call[c].op \notin {"scan", "del", "sadd", "expire"}
  <2>1. f[c] = call[c]
    BY <1>5 DEF Redis!Spared, Redis!Sweeping, Redis!Adding
  <2>. HIDE DEF f
  <2>2. Shape(f[c]) /\ Ahead(f[c], DOMAIN store \cup {k})
    BY <1>1, <1>5, <2>1, AheadOfOthers
  <2>. QED  BY <1>2, <2>2 DEF f
<1>. QED  BY <1>3, <1>4, <1>5

LEMMA ExcusedCalls ==
  ASSUME Sweeps, NEW D, NEW c \in Callers
  PROVE  /\ Shape(Redis!Excused(D)[c]) /\ Ahead(Redis!Excused(D)[c], DOMAIN store \ D)
         /\ Redis!Excused(D) = [d \in Callers |-> Redis!Excused(D)[d]]
<1>1. Shape(call[c]) /\ Ahead(call[c], DOMAIN store)
  BY DEF Sweeps
<1>. DEFINE f == Redis!Excused(D)
<1>2. f = [d \in Callers |-> f[d]]
  BY DEF Redis!Excused
<1>3. /\ call[c].op \in {"scan", "del"} => f[c] = ExcusedCall(call[c], D)
      /\ call[c].op \notin {"scan", "del"} => f[c] = call[c]
  BY DEF Redis!Excused, Redis!Sweeping, ExcusedCall
<1>. HIDE DEF f
<1>4. Shape(f[c]) /\ Ahead(f[c], DOMAIN store \ D)
  BY <1>1, <1>3, ExcusedAhead, AheadOfOthers
<1>. QED  BY <1>2, <1>4 DEF f

LEMMA SweepsSpared ==
  ASSUME Sweeps, NEW k, DOMAIN store' = DOMAIN store \cup {k}, call' = Redis!Spared(k)
  PROVE  Sweeps'
<1>1. call' = [c \in Callers |-> call'[c]]
  BY DEF Redis!Spared
<1>2. ASSUME NEW c \in Callers PROVE Shape(call'[c]) /\ Ahead(call'[c], DOMAIN store')
  BY SparedCalls
<1>. QED  BY <1>1, <1>2 DEF Sweeps

LEMMA SweepsExcused ==
  ASSUME Sweeps, NEW D, DOMAIN store' = DOMAIN store \ D, call' = Redis!Excused(D)
  PROVE  Sweeps'
<1>1. call' = [c \in Callers |-> call'[c]]
  BY DEF Redis!Excused
<1>2. ASSUME NEW c \in Callers PROVE Shape(call'[c]) /\ Ahead(call'[c], DOMAIN store')
  BY ExcusedCalls
<1>. QED  BY <1>1, <1>2 DEF Sweeps

\* One caller goes on to s.
LEMMA SweepsGoes ==
  ASSUME Sweeps, NEW f, f = [c \in Callers |-> f[c]],
         \A c \in Callers : Shape(f[c]) /\ Ahead(f[c], DOMAIN store'),
         NEW c \in Callers, NEW s, Shape(s), Ahead(s, DOMAIN store'), call' = [f EXCEPT ![c] = s]
  PROVE  Sweeps'
  BY DEF Sweeps

-----------------------------------------------------------------------------
(* Redis: what it holds *)

InRedis == Types /\ RedisHolds /\ backend = "redis"

LEMMA Executed ==
  ASSUME InRedis, UNCHANGED <<backend, now>>, Sweeps', written' = store',
         store' = [k \in DOMAIN store' |-> store'[k]],
         \A k \in DOMAIN store' : /\ store'[k].exp \in Int /\ store'[k].value \in Values
                                  /\ now <= store'[k].exp
  PROVE  InRedis'
  BY DEF InRedis, Types, RedisHolds

\* A command that neither sets nor deletes.
LEMMA KeysKept ==
  ASSUME InRedis, UNCHANGED <<backend, now, store, written>>, Sweeps'
  PROVE  InRedis'
  BY DEF InRedis, Types, RedisHolds

LEMMA KeySet ==
  ASSUME InRedis, UNCHANGED <<backend, now>>, NEW k, NEW v \in Values, NEW ttl \in Int,
         Redis!Put(k, v, ttl),
         DOMAIN store' = DOMAIN store \cup {k} => Sweeps'
  PROVE  InRedis'
<1>. DEFINE e == [value |-> v, exp |-> Redis!Expiry(ttl)]
<1>1. e.value \in Values /\ e.exp \in Int /\ now <= e.exp
  BY CacheAssumption DEF CacheAssumption, InRedis, Types, Redis!Expiry, Redis!Never
<1>2. /\ store' = [j \in DOMAIN store \cup {k} |-> IF j = k THEN e ELSE store[j]]
      /\ written' = [j \in DOMAIN written \cup {k} |-> IF j = k THEN e ELSE written[j]]
  BY DEF Redis!Put, Redis!Present
<1>. HIDE DEF e
<1>3. written = store /\ \A j \in DOMAIN store : /\ store[j].exp \in Int /\ store[j].value \in Values
                                                 /\ now <= store[j].exp
  BY DEF InRedis, RedisHolds, Types
<1>. QED  BY <1>1, <1>2, <1>3, Executed

LEMMA KeysGone ==
  ASSUME InRedis, UNCHANGED <<backend, now>>, NEW D,
         store' = Restrict(store, DOMAIN store \ D), written' = Restrict(written, DOMAIN written \ D),
         DOMAIN store' = DOMAIN store \ D => Sweeps'
  PROVE  InRedis'
<1>1. written = store /\ \A j \in DOMAIN store : /\ store[j].exp \in Int /\ store[j].value \in Values
                                                 /\ now <= store[j].exp
  BY DEF InRedis, RedisHolds, Types
<1>2. /\ DOMAIN store' = DOMAIN store \ D /\ written' = store'
      /\ \A j \in DOMAIN store \ D : store'[j] = store[j]
      /\ store' = [j \in DOMAIN store' |-> store'[j]]
  BY <1>1 DEF Restrict
<1>. QED  BY <1>1, <1>2, Executed

-----------------------------------------------------------------------------
(* Redis: calls of one command, and the clock *)

LEMMA RedisGet ==
  ASSUME InRedis, UNCHANGED backend, NEW c, NEW k, Redis!Get(c, k)
  PROVE  InRedis' /\ ReadsLastWrite'
<1>. USE ManagerAssumption DEF ManagerAssumption
<1>1. UNCHANGED <<now, store, written, call>>
  BY DEF Redis!Get
<1>2. InRedis'
  <2>1. Sweeps'
    BY <1>1 DEF InRedis, RedisHolds, Sweeps
  <2>. QED  BY <1>1, <2>1, KeysKept
<1>3. ReadsLastWrite'
  <2>1. CASE k \in DOMAIN store /\ answer' = <<k, store[k].value>>
    <3>1. k \in DOMAIN written /\ written[k].value \in Values /\ now <= written[k].exp
          /\ store[k].value = written[k].value
      BY <2>1 DEF InRedis, RedisHolds, Types
    <3>. QED  BY <1>1, <2>1, <3>1 DEF ReadsLastWrite
  <2>2. CASE k \notin DOMAIN store /\ answer' = <<k, "miss">>
    <3>1. k \notin DOMAIN written
      BY <2>2 DEF InRedis, RedisHolds
    <3>. QED  BY <1>1, <2>2, <3>1 DEF ReadsLastWrite
  <2>3. CASE answer' = <<k, "failed">>
    BY <2>3 DEF ReadsLastWrite
  <2>. QED  BY <2>1, <2>2, <2>3 DEF Redis!Get, Redis!Present
<1>. QED  BY <1>2, <1>3

LEMMA RedisSet ==
  ASSUME InRedis, UNCHANGED backend, NEW c, NEW k, NEW v \in Values, NEW ttl \in Int,
         Redis!Set(c, k, v, ttl)
  PROVE  InRedis' /\ ReadsLastWrite'
<1>1. /\ Redis!Put(k, v, ttl) /\ call' = Redis!Spared(k) /\ answer' = << >> /\ UNCHANGED now
  BY DEF Redis!Set
<1>2. DOMAIN store' = DOMAIN store \cup {k} => Sweeps'
  BY <1>1, SweepsSpared DEF InRedis, RedisHolds
<1>. QED  BY <1>1, <1>2, KeySet DEF ReadsLastWrite

LEMMA RedisDelete ==
  ASSUME InRedis, UNCHANGED backend, NEW c, NEW k, Redis!Delete(c, k)
  PROVE  InRedis' /\ ReadsLastWrite'
<1>1. /\ store' = Restrict(store, DOMAIN store \ {k}) /\ UNCHANGED now
      /\ written' = Restrict(written, DOMAIN written \ {k})
      /\ call' = Redis!Excused({k}) /\ answer' = << >>
  BY DEF Redis!Delete, Redis!Drop, Redis!Present, Restrict, Redis!Restrict
<1>2. DOMAIN store' = DOMAIN store \ {k} => Sweeps'
  BY <1>1, SweepsExcused DEF InRedis, RedisHolds
<1>. QED  BY <1>1, <1>2, KeysGone DEF ReadsLastWrite

LEMMA RedisClock ==
  ASSUME InRedis, UNCHANGED backend, Redis!Clock
  PROVE  InRedis' /\ ReadsLastWrite'
<1>1. PICK gone : gone = {k \in DOMAIN store : now' > store[k].exp}
  OBVIOUS
<1>2. /\ now' = now + 1 /\ now < MaxTime /\ answer' = << >> /\ call' = Redis!Excused(gone)
      /\ store' = Restrict(store, DOMAIN store \ gone)
      /\ written' = Restrict(written, {k \in DOMAIN written : now' <= written[k].exp})
  BY <1>1 DEF Redis!Clock, Redis!Present, Restrict, Redis!Restrict
<1>3. written = store /\ now \in Nat /\ \A k \in DOMAIN store : store[k].exp \in Int /\ store[k].value \in Values
  BY DEF InRedis, RedisHolds, Types
<1>4. DOMAIN store \ gone = {k \in DOMAIN store : now' <= store[k].exp}
  BY <1>1, <1>2, <1>3
<1>5. /\ DOMAIN store' = DOMAIN store \ gone /\ written' = store'
      /\ \A k \in DOMAIN store' : store'[k] = store[k]
      /\ store' = [j \in DOMAIN store' |-> store'[j]]
  BY <1>2, <1>3, <1>4 DEF Restrict
<1>6. Sweeps'
  BY <1>2, <1>5, SweepsExcused DEF InRedis, RedisHolds
<1>7. Types'
  <2>1. backend' \in {"memory", "redis"} /\ now' \in Nat /\ now' <= MaxTime
    BY <1>2, CacheAssumption DEF CacheAssumption, InRedis, Types
  <2>2. \A k \in DOMAIN store' : store'[k].exp \in Int /\ store'[k].value \in Values
    BY <1>3, <1>5
  <2>. QED  BY <1>5, <2>1, <2>2 DEF Types
<1>8. RedisHolds'
  BY <1>4, <1>5, <1>6 DEF RedisHolds
<1>. QED  BY <1>2, <1>7, <1>8 DEF InRedis, ReadsLastWrite

-----------------------------------------------------------------------------
(* Redis: calls of several commands *)

\* A step of one call that touches no key.
LEMMA CallGoes ==
  ASSUME InRedis, UNCHANGED <<backend, now, store, written>>, answer' = << >>, NEW c \in Callers,
         NEW s, Shape(s), Ahead(s, DOMAIN store), call' = [call EXCEPT ![c] = s]
  PROVE  InRedis' /\ ReadsLastWrite'
<1>1. Sweeps'
  BY DEF InRedis, RedisHolds, Sweeps
<1>. QED  BY <1>1, KeysKept DEF ReadsLastWrite

LEMMA ScanOfAhead ==
  ASSUME NEW patterns, NEW present, NEW spared
  PROVE  /\ Shape(Redis!ScanOf(patterns, present, spared))
         /\ Ahead(Redis!ScanOf(patterns, present, spared), present)
  BY DEF Redis!ScanOf, Shape, Ahead

LEMMA RedisBegins ==
  ASSUME InRedis, UNCHANGED backend, NEW c \in Callers, NEW s, Redis!Begins(c, s),
         Shape(s), Ahead(s, DOMAIN store)
  PROVE  InRedis' /\ ReadsLastWrite'
  BY CallGoes DEF Redis!Begins

LEMMA RedisSweep ==
  ASSUME InRedis, UNCHANGED backend, NEW c \in Callers, NEW patterns, Redis!Sweep(c, patterns)
  PROVE  InRedis' /\ ReadsLastWrite'
<1>1. Redis!Begins(c, Redis!ScanOf(patterns, DOMAIN store, {}))
  BY DEF Redis!Sweep, Redis!Present
<1>. QED  BY <1>1, ScanOfAhead, RedisBegins

LEMMA RedisInvalidateTag ==
  ASSUME InRedis, UNCHANGED backend, NEW c \in Callers, NEW t, Redis!InvalidateTag(c, t)
  PROVE  InRedis' /\ ReadsLastWrite'
<1>1. PICK op \in {"deltag", "delkeys"} :
        Redis!Begins(c, [op |-> op, tag |-> t, keys |-> members[t], added |-> {}])
  BY DEF Redis!InvalidateTag
<1>2. Shape([op |-> op, tag |-> t, keys |-> members[t], added |-> {}])
      /\ Ahead([op |-> op, tag |-> t, keys |-> members[t], added |-> {}], DOMAIN store)
  BY DEF Shape, Ahead
<1>. QED  BY <1>1, <1>2, RedisBegins

LEMMA RedisSetWithTags ==
  ASSUME InRedis, UNCHANGED backend, NEW c \in Callers, NEW k, NEW v \in Values, NEW ttl \in Int,
         NEW tags, Redis!SetWithTags(c, k, v, ttl, tags)
  PROVE  InRedis' /\ ReadsLastWrite'
<1>. DEFINE s == [op |-> "set", key |-> k, value |-> v, ttl |-> ttl, tags |-> tags]
<1>1. Shape(s) /\ Ahead(s, DOMAIN store)
  BY DEF Shape, Ahead
<1>2. Redis!Begins(c, s)
  BY DEF Redis!SetWithTags
<1>. HIDE DEF s
<1>. QED  BY <1>1, <1>2, RedisBegins

LEMMA RedisScan ==
  ASSUME InRedis, UNCHANGED backend, NEW c \in Callers, Redis!Scan(c)
  PROVE  InRedis' /\ ReadsLastWrite'
<1>. DEFINE s == call[c]
<1>1. /\ s.op = "scan" /\ answer' = << >> /\ UNCHANGED <<now, written, store>>
      /\ \E page \in SUBSET (DOMAIN store \cap Head(s.patterns)), last \in BOOLEAN :
           /\ IF last THEN s.owed \subseteq page ELSE page # {}
           /\ call' = [call EXCEPT ![c] =
                [op |-> "del", page |-> page, last |-> last, patterns |-> s.patterns,
                 owed |-> s.owed \ page, spared |-> s.spared]]
  BY DEF Redis!Scan, Redis!Within, Redis!Present
<1>2. PICK page \in SUBSET (DOMAIN store \cap Head(s.patterns)), last \in BOOLEAN :
        /\ last => s.owed \subseteq page
        /\ call' = [call EXCEPT ![c] =
             [op |-> "del", page |-> page, last |-> last, patterns |-> s.patterns,
              owed |-> s.owed \ page, spared |-> s.spared]]
  BY <1>1
<1>. DEFINE r == [op |-> "del", page |-> page, last |-> last, patterns |-> s.patterns,
                  owed |-> s.owed \ page, spared |-> s.spared]
<1>3. Shape(r)
  BY DEF Shape
<1>4. Ahead(r, DOMAIN store)
  <2>1. DOMAIN store \cap Head(s.patterns) \subseteq s.owed \cup s.spared
    BY <1>1 DEF InRedis, RedisHolds, Sweeps, Ahead
  <2>. QED  BY <1>2, <2>1 DEF Ahead
<1>5. call' = [call EXCEPT ![c] = r]
  BY <1>2
<1>. HIDE DEF r
<1>. QED  BY <1>1, <1>3, <1>4, <1>5, CallGoes

\* The last page of a pattern leaves only keys that were set since the sweep began, so
\* that all others may count as deleted.
LEMMA RedisDelPage ==
  ASSUME InRedis, UNCHANGED backend, NEW c \in Callers, Redis!DelPage(c)
  PROVE  InRedis' /\ ReadsLastWrite'
<1>. DEFINE s == call[c]
            f == Redis!Excused(s.page)
            r == Redis!AfterPage(s)
<1>1. /\ s.op = "del" /\ answer' = << >> /\ UNCHANGED now
      /\ store' = Restrict(store, DOMAIN store \ s.page)
      /\ written' = Restrict(written, Redis!Survivors(s))
      /\ call' = [f EXCEPT ![c] = r]
  BY DEF Redis!DelPage, Redis!Within, Redis!Drop, Redis!Present, Restrict, Redis!Restrict
<1>2. Shape(s) /\ Ahead(s, DOMAIN store) /\ written = store
  BY DEF InRedis, RedisHolds, Sweeps
<1>3. DOMAIN store \cap Head(s.patterns)
        \subseteq s.page \cup s.spared \cup IF s.last THEN {} ELSE s.owed
  BY <1>1, <1>2 DEF Ahead
<1>4. Redis!Survivors(s) = DOMAIN written \ s.page
  BY <1>2, <1>3 DEF Redis!Survivors
<1>5. ASSUME DOMAIN store' = DOMAIN store \ s.page PROVE Sweeps'
  <2>1. Shape(r) /\ Ahead(r, DOMAIN store')
    <3>1. CASE ~s.last
      <4>1. r = [op |-> "scan", patterns |-> s.patterns, owed |-> s.owed, spared |-> s.spared]
        BY <3>1 DEF Redis!AfterPage
      <4>. HIDE DEF r
      <4>2. Shape(r)
        BY <4>1 DEF Shape
      <4>3. Ahead(r, DOMAIN store')
        BY <1>3, <1>5, <3>1, <4>1 DEF Ahead
      <4>. QED  BY <4>2, <4>3
    <3>2. CASE s.last /\ Len(s.patterns) > 1
      <4>1. r = Redis!ScanOf(Tail(s.patterns), DOMAIN store \ s.page, s.spared)
        BY <3>2 DEF Redis!AfterPage, Redis!Present
      <4>2. /\ Shape(Redis!ScanOf(Tail(s.patterns), DOMAIN store \ s.page, s.spared))
            /\ Ahead(Redis!ScanOf(Tail(s.patterns), DOMAIN store \ s.page, s.spared),
                     DOMAIN store \ s.page)
        BY ScanOfAhead
      <4>. HIDE DEF r
      <4>. QED  BY <1>5, <4>1, <4>2
    <3>3. CASE s.last /\ ~(Len(s.patterns) > 1)
      <4>1. r = [op |-> "idle"]
        BY <3>3 DEF Redis!AfterPage, Redis!Idle
      <4>. HIDE DEF r
      <4>. QED  BY <4>1 DEF Shape, Ahead
    <3>4. s.last \in BOOLEAN
      BY <1>1, <1>2 DEF Shape
    <3>. QED  BY <3>1, <3>2, <3>3, <3>4
  <2>2. f = [d \in Callers |-> f[d]]
    BY DEF Redis!Excused
  <2>3. ASSUME NEW d \in Callers PROVE Shape(f[d]) /\ Ahead(f[d], DOMAIN store')
    BY <1>5, ExcusedCalls DEF InRedis, RedisHolds
  <2>. HIDE DEF f, r
  <2>. QED  BY <1>1, <2>1, <2>2, <2>3, SweepsGoes DEF InRedis, RedisHolds
<1>. HIDE DEF f, r
<1>6. InRedis'
  BY <1>1, <1>4, <1>5, KeysGone
<1>. QED  BY <1>1, <1>6 DEF ReadsLastWrite

LEMMA RedisSetTagged ==
  ASSUME InRedis, UNCHANGED backend, NEW c \in Callers, Redis!SetTagged(c)
  PROVE  InRedis' /\ ReadsLastWrite'
<1>. DEFINE s == call[c]
            f == Redis!Spared(s.key)
            r == [op |-> "sadd", key |-> s.key, ttl |-> s.ttl, tags |-> s.tags, next |-> 1,
                  mine |-> {s.key}]
<1>1. /\ s.op = "set" /\ answer' = << >> /\ UNCHANGED now
      /\ Redis!Put(s.key, s.value, s.ttl) /\ call' = [f EXCEPT ![c] = r]
  BY DEF Redis!SetTagged, Redis!Within
<1>2. s.ttl \in Int /\ s.value \in Values
  BY <1>1 DEF InRedis, RedisHolds, Sweeps, Shape
<1>3. ASSUME DOMAIN store' = DOMAIN store \cup {s.key} PROVE Sweeps'
  <2>1. Shape(r) /\ Ahead(r, DOMAIN store')
    BY DEF Shape, Ahead
  <2>2. f = [d \in Callers |-> f[d]]
    BY DEF Redis!Spared
  <2>3. ASSUME NEW d \in Callers PROVE Shape(f[d]) /\ Ahead(f[d], DOMAIN store')
    BY <1>3, SparedCalls DEF InRedis, RedisHolds
  <2>. HIDE DEF f, r
  <2>. QED  BY <1>1, <2>1, <2>2, <2>3, SweepsGoes DEF InRedis, RedisHolds
<1>. HIDE DEF f, r
<1>4. InRedis'
  BY <1>1, <1>2, <1>3, KeySet
<1>. QED  BY <1>1, <1>4 DEF ReadsLastWrite

\* The deletion of the keys a tag names.
LEMMA RedisDelKeys ==
  ASSUME InRedis, UNCHANGED backend, NEW c \in Callers, Redis!DelKeys(c)
  PROVE  InRedis' /\ ReadsLastWrite'
<1>. DEFINE s == call[c]
            f == Redis!Excused(s.keys)
<1>1. /\ s.op = "delkeys" /\ answer' = << >> /\ UNCHANGED now
      /\ store' = Restrict(store, DOMAIN store \ s.keys)
      /\ written' = Restrict(written, DOMAIN written \ s.keys)
      /\ call' = [f EXCEPT ![c].op = "deltag"]
  BY DEF Redis!DelKeys, Redis!Within, Redis!Drop, Redis!Present, Restrict, Redis!Restrict
<1>2. s = [op |-> "delkeys", tag |-> s.tag, keys |-> s.keys, added |-> s.added]
  BY <1>1 DEF InRedis, RedisHolds, Sweeps, Shape
<1>3. call' = [f EXCEPT ![c] = [op |-> "deltag", tag |-> s.tag, keys |-> s.keys, added |-> s.added]]
  <2>1. f[c] = s /\ f = [d \in Callers |-> f[d]]
    BY <1>1 DEF Redis!Excused, Redis!Sweeping
  <2>2. [s EXCEPT !.op = "deltag"] = [op |-> "deltag", tag |-> s.tag, keys |-> s.keys, added |-> s.added]
    BY <1>2
  <2>. HIDE DEF f, s
  <2>3. call' = [f EXCEPT ![c] = [s EXCEPT !.op = "deltag"]]
    BY <1>1, <2>1
  <2>. QED  BY <2>2, <2>3
<1>. DEFINE r == [op |-> "deltag", tag |-> s.tag, keys |-> s.keys, added |-> s.added]
<1>4. ASSUME DOMAIN store' = DOMAIN store \ s.keys PROVE Sweeps'
  <2>1. Shape(r) /\ Ahead(r, DOMAIN store')
    BY DEF Shape, Ahead
  <2>2. f = [d \in Callers |-> f[d]]
    BY DEF Redis!Excused
  <2>3. ASSUME NEW d \in Callers PROVE Shape(f[d]) /\ Ahead(f[d], DOMAIN store')
    BY <1>4, ExcusedCalls DEF InRedis, RedisHolds
  <2>. HIDE DEF f, r
  <2>. QED  BY <1>3, <2>1, <2>2, <2>3, SweepsGoes DEF InRedis, RedisHolds, r
<1>. HIDE DEF f, r
<1>5. InRedis'
  BY <1>1, <1>4, KeysGone
<1>. QED  BY <1>1, <1>5 DEF ReadsLastWrite

LEMMA IdleCall == Shape(Redis!Idle) /\ \A present : Ahead(Redis!Idle, present)
  BY DEF Redis!Idle, Shape, Ahead

\* Two fields of the call of SetWithTags change.
LEMMA ExpireGoes ==
  ASSUME NEW s, Shape(s), s.op = "expire"
  PROVE  [s EXCEPT !.op = "sadd", !.next = @ + 1]
           = [op |-> "sadd", key |-> s.key, ttl |-> s.ttl, tags |-> s.tags, next |-> s.next + 1,
              mine |-> s.mine]
<1>1. [s EXCEPT !.op = "sadd", !.next = @ + 1] = [[s EXCEPT !.op = "sadd"] EXCEPT !.next = s.next + 1]
  OBVIOUS
<1>2. s = [op |-> "expire", key |-> s.key, ttl |-> s.ttl, tags |-> s.tags, next |-> s.next,
           mine |-> s.mine]
  BY DEF Shape
<1>3. [s EXCEPT !.op = "sadd"]
        = [op |-> "sadd", key |-> s.key, ttl |-> s.ttl, tags |-> s.tags, next |-> s.next,
           mine |-> s.mine]
  BY <1>2
<1>4. [[op |-> "sadd", key |-> s.key, ttl |-> s.ttl, tags |-> s.tags, next |-> s.next,
        mine |-> s.mine] EXCEPT !.next = s.next + 1]
        = [op |-> "sadd", key |-> s.key, ttl |-> s.ttl, tags |-> s.tags, next |-> s.next + 1,
           mine |-> s.mine]
  OBVIOUS
<1>5. [[s EXCEPT !.op = "sadd"] EXCEPT !.next = s.next + 1]
        = [[op |-> "sadd", key |-> s.key, ttl |-> s.ttl, tags |-> s.tags, next |-> s.next,
            mine |-> s.mine] EXCEPT !.next = s.next + 1]
  BY <1>3, Zenon
<1>. QED  BY <1>1, <1>4, <1>5, Zenon

\* A key is added to a tag that an invalidation has read.
LEMMA AddedShape ==
  ASSUME NEW s, Shape(s), s.op \in {"delkeys", "deltag"}, NEW k
  PROVE  /\ [s EXCEPT !.added = @ \cup {k}]
              = [op |-> s.op, tag |-> s.tag, keys |-> s.keys, added |-> s.added \cup {k}]
         /\ Shape([s EXCEPT !.added = @ \cup {k}])
<1>. DEFINE r == [op |-> s.op, tag |-> s.tag, keys |-> s.keys, added |-> s.added \cup {k}]
<1>1. [s EXCEPT !.added = @ \cup {k}] = r
  BY DEF Shape
<1>. HIDE DEF r
<1>2. Shape(r)
  BY DEF Shape, r
<1>. QED  BY <1>1, <1>2 DEF r

\* SADD, as the calls see it.
LEMMA AddGoes ==
  ASSUME Sweeps, NEW c \in Callers, Redis!SAdd(c)
  PROVE  /\ call' = [d \in Callers |-> call'[d]]
         /\ call'[c] = [op |-> "expire", key |-> call[c].key, ttl |-> call[c].ttl,
                        tags |-> call[c].tags, next |-> call[c].next, mine |-> call[c].mine]
         /\ \A d \in Callers \ {c} :
              \/ /\ call[d].op \in {"delkeys", "deltag"}
                 /\ call[d].tag = call[c].tags[call[c].next]
                 /\ call'[d] = [op |-> call[d].op, tag |-> call[d].tag, keys |-> call[d].keys,
                                added |-> call[d].added \cup {call[c].key}]
              \/ /\ ~(/\ call[d].op \in {"delkeys", "deltag"}
                      /\ call[d].tag = call[c].tags[call[c].next])
                 /\ call'[d] = call[d]
<1>. DEFINE s == call[c]
            t == s.tags[s.next]
            f == Redis!Told(t, s.key)
<1>1. /\ s.op = "sadd"
      /\ call' = [f EXCEPT ![c].op = "expire"]
  BY DEF Redis!SAdd, Redis!Within
<1>2. \A d \in Callers : Shape(call[d])
  BY DEF Sweeps
<1>3. call'[c] = [op |-> "expire", key |-> s.key, ttl |-> s.ttl, tags |-> s.tags, next |-> s.next,
                  mine |-> s.mine]
  <2>1. s = [op |-> "sadd", key |-> s.key, ttl |-> s.ttl, tags |-> s.tags, next |-> s.next,
             mine |-> s.mine]
    BY <1>1, <1>2 DEF Shape
  <2>2. [s EXCEPT !.op = "expire"]
          = [op |-> "expire", key |-> s.key, ttl |-> s.ttl, tags |-> s.tags, next |-> s.next,
             mine |-> s.mine]
    BY <2>1
  <2>3. f[c] = s /\ f = [d \in Callers |-> f[d]]
    BY <1>1 DEF Redis!Told, Redis!Invalidating
  <2>. HIDE DEF f, s, t
  <2>4. call'[c] = [s EXCEPT !.op = "expire"]
    BY <1>1, <2>3
  <2>. QED  BY <2>2, <2>4
<1>4. ASSUME NEW d \in Callers \ {c}
      PROVE  \/ /\ call[d].op \in {"delkeys", "deltag"} /\ call[d].tag = t
                /\ call'[d] = [op |-> call[d].op, tag |-> call[d].tag, keys |-> call[d].keys,
                               added |-> call[d].added \cup {s.key}]
             \/ /\ ~(call[d].op \in {"delkeys", "deltag"} /\ call[d].tag = t)
                /\ call'[d] = call[d]
  <2>1. call'[d] = f[d]
    <3>1. f = [e \in Callers |-> f[e]]
      BY DEF Redis!Told
    <3>. HIDE DEF f, s, t
    <3>. QED  BY <1>1, <3>1
  <2>. HIDE DEF s, t
  <2>2. CASE call[d].op \in {"delkeys", "deltag"} /\ call[d].tag = t
    <3>1. f[d] = [call[d] EXCEPT !.added = @ \cup {s.key}]
      BY <2>2 DEF Redis!Told, Redis!Invalidating
    <3>. HIDE DEF f
    <3>2. [call[d] EXCEPT !.added = @ \cup {s.key}]
            = [op |-> call[d].op, tag |-> call[d].tag, keys |-> call[d].keys,
               added |-> call[d].added \cup {s.key}]
      BY <1>2, <2>2, AddedShape
    <3>. QED  BY <2>1, <2>2, <3>1, <3>2
  <2>3. CASE ~(call[d].op \in {"delkeys", "deltag"} /\ call[d].tag = t)
    <3>1. f[d] = call[d]
      BY <2>3 DEF Redis!Told, Redis!Invalidating
    <3>. HIDE DEF f
    <3>. QED  BY <2>1, <2>3, <3>1
  <2>. QED  BY <2>2, <2>3
<1>5. call' = [d \in Callers |-> call'[d]]
  <2>1. f = [d \in Callers |-> f[d]]
    BY DEF Redis!Told
  <2>. HIDE DEF f, s, t
  <2>. QED  BY <1>1, <2>1
<1>. QED  BY <1>3, <1>4, <1>5

LEMMA RedisAdd ==
  ASSUME InRedis, UNCHANGED backend, NEW c \in Callers, Redis!SAdd(c)
  PROVE  InRedis' /\ ReadsLastWrite'
<1>1. answer' = << >> /\ UNCHANGED <<backend, now, store, written>> /\ Sweeps /\ call[c].op = "sadd"
  BY DEF Redis!SAdd, Redis!Within, InRedis, RedisHolds
<1>2. Shape(call'[c]) /\ Ahead(call'[c], DOMAIN store)
  <2>. DEFINE s == call[c]
              r == [op |-> "expire", key |-> s.key, ttl |-> s.ttl, tags |-> s.tags, next |-> s.next,
                    mine |-> s.mine]
  <2>2. Shape(r) /\ Ahead(r, DOMAIN store)
    BY DEF Shape, Ahead
  <2>3. call'[c] = r
    BY <1>1, AddGoes
  <2>. HIDE DEF r
  <2>. QED  BY <2>2, <2>3
<1>3. ASSUME NEW d \in Callers \ {c} PROVE Shape(call'[d]) /\ Ahead(call'[d], DOMAIN store)
  <2>1. Shape(call[d]) /\ Ahead(call[d], DOMAIN store)
    BY <1>1 DEF Sweeps
  <2>2. CASE call'[d] = call[d]
    BY <2>1, <2>2
  <2>3. CASE /\ call[d].op \in {"delkeys", "deltag"}
             /\ call'[d] = [op |-> call[d].op, tag |-> call[d].tag, keys |-> call[d].keys,
                            added |-> call[d].added \cup {call[c].key}]
    <3>. DEFINE r == [op |-> call[d].op, tag |-> call[d].tag, keys |-> call[d].keys,
                      added |-> call[d].added \cup {call[c].key}]
    <3>1. Shape(r) /\ Ahead(r, DOMAIN store)
      BY <2>3 DEF Shape, Ahead
    <3>2. call'[d] = r
      BY <2>3
    <3>. HIDE DEF r
    <3>. QED  BY <3>1, <3>2
  <2>. QED  BY <1>1, <2>2, <2>3, AddGoes
<1>4. Sweeps'
  BY <1>1, <1>2, <1>3, AddGoes DEF Sweeps
<1>. QED  BY <1>1, <1>4, KeysKept DEF ReadsLastWrite

\* The other commands set and delete tags, or nothing.
LEMMA RedisTags ==
  ASSUME InRedis, UNCHANGED backend, NEW c \in Callers,
         Redis!Expire(c) \/ Redis!Stored(c) \/ Redis!DelTag(c) \/ Redis!Breaks(c)
  PROVE  InRedis' /\ ReadsLastWrite'
<1>. DEFINE s == call[c]
<1>1. answer' = << >> /\ UNCHANGED <<backend, now, store, written>> /\ Shape(s)
  BY DEF Redis!Expire, Redis!Stored, Redis!DelTag, Redis!Breaks, Redis!Within,
         InRedis, RedisHolds, Sweeps
<1>2. CASE call' = [call EXCEPT ![c] = Redis!Idle]
  BY <1>1, <1>2, IdleCall, CallGoes
<1>3. ASSUME NEW n,
             call' = [call EXCEPT ![c] = [op |-> "sadd", key |-> s.key, ttl |-> s.ttl,
                                          tags |-> s.tags, next |-> n, mine |-> s.mine]]
      PROVE  InRedis' /\ ReadsLastWrite'
  <2>. DEFINE r == [op |-> "sadd", key |-> s.key, ttl |-> s.ttl, tags |-> s.tags, next |-> n,
                    mine |-> s.mine]
  <2>1. Shape(r) /\ Ahead(r, DOMAIN store)
    BY DEF Shape, Ahead
  <2>2. call' = [call EXCEPT ![c] = r]
    BY <1>3
  <2>. HIDE DEF r
  <2>. QED  BY <1>1, <2>1, <2>2, CallGoes
<1>4. CASE Redis!Expire(c)
  <2>1. s.op = "expire" /\ call' = [call EXCEPT ![c] = [s EXCEPT !.op = "sadd", !.next = @ + 1]]
    BY <1>4 DEF Redis!Expire, Redis!Within
  <2>2. [s EXCEPT !.op = "sadd", !.next = @ + 1]
          = [op |-> "sadd", key |-> s.key, ttl |-> s.ttl, tags |-> s.tags, next |-> s.next + 1,
             mine |-> s.mine]
    BY <1>1, <2>1, ExpireGoes
  <2>3. call' = [call EXCEPT ![c] = [op |-> "sadd", key |-> s.key, ttl |-> s.ttl, tags |-> s.tags,
                                     next |-> s.next + 1, mine |-> s.mine]]
    BY <2>1, <2>2
  <2>. QED  BY <1>3, <2>3
<1>5. CASE Redis!Stored(c) \/ Redis!DelTag(c) \/ Redis!Breaks(c)
  <2>1. call' = [call EXCEPT ![c] = Redis!Idle]
    <3>1. Redis!Stored(c) => call' = [call EXCEPT ![c] = Redis!Idle]
      BY DEF Redis!Stored
    <3>2. Redis!DelTag(c) => call' = [call EXCEPT ![c] = Redis!Idle]
      BY DEF Redis!DelTag
    <3>3. Redis!Breaks(c) => call' = [call EXCEPT ![c] = Redis!Idle]
      BY DEF Redis!Breaks
    <3>. QED  BY <1>5, <3>1, <3>2, <3>3
  <2>. QED  BY <1>2, <2>1
<1>. QED  BY <1>4, <1>5

-----------------------------------------------------------------------------
(* The manager *)

LEMMA Over ==
  ASSUME Types', ReadsLastWrite',
         backend' = "memory" => MemoryHolds', backend' = "redis" => RedisHolds'
  PROVE  Inv'
  BY DEF Inv, MemoryHolds, RedisHolds

LEMMA OverMemory ==
  ASSUME Types' /\ MemoryHolds' /\ ReadsLastWrite', backend = "memory", UNCHANGED backend
  PROVE  Inv'
  BY Over

LEMMA OverRedis ==
  ASSUME InRedis' /\ ReadsLastWrite'
  PROVE  Inv'
  BY Over DEF InRedis

LEMMA InvStore ==
  ASSUME Inv, NEW c \in Callers, NEW k, NEW v \in Values, NEW ttl \in Int, Store(c, k, v, ttl)
  PROVE  Inv'
<1>1. UNCHANGED backend /\ Types /\ (backend = "memory" => MemoryHolds) /\ (backend = "redis" => InRedis)
  BY DEF Store, Cache, Inv, InRedis
<1>. QED  BY <1>1, MemorySet, RedisSet, OverMemory, OverRedis DEF Store, Cache

LEMMA InvCalls ==
  ASSUME Inv, NEW c \in Callers,
         \/ \E k, refused, hit, miss : Lookup(c, k, refused, hit, miss)
         \/ \E k : DeleteKey(c, k)
         \/ ClearAll(c)
  PROVE  Inv'
<1>1. UNCHANGED backend /\ Types /\ (backend = "memory" => MemoryHolds) /\ (backend = "redis" => InRedis)
  BY DEF Lookup, DeleteKey, ClearAll, Cache, Inv, InRedis
<1>2. ASSUME NEW k, NEW refused, NEW hit, NEW miss, Lookup(c, k, refused, hit, miss) PROVE Inv'
  BY <1>1, <1>2, MemoryGet, RedisGet, OverMemory, OverRedis DEF Lookup, Cache
<1>3. ASSUME NEW k, DeleteKey(c, k) PROVE Inv'
  BY <1>1, <1>3, MemoryRest, RedisDelete, OverMemory, OverRedis DEF DeleteKey, Cache
<1>4. CASE ClearAll(c)
  BY <1>1, <1>4, MemoryRest, RedisSweep, OverMemory, OverRedis DEF ClearAll, Cache, Redis!Clear
<1>. QED  BY <1>2, <1>3, <1>4

LEMMA InvRedisOnly ==
  ASSUME Inv, NEW c \in Callers, RedisOnly(c)
  PROVE  Inv'
<1>. USE ManagerAssumption DEF ManagerAssumption
<1>1. UNCHANGED backend /\ InRedis
  BY DEF RedisOnly, Cache, Inv, InRedis
<1>2. CASE Redis!Command(c)
  BY <1>1, <1>2, RedisScan, RedisDelPage, RedisSetTagged, RedisDelKeys, RedisAdd, RedisTags, OverRedis
     DEF Redis!Command
<1>3. ASSUME NEW p, Redis!InvalidatePattern(c, p) PROVE Inv'
  BY <1>1, <1>3, RedisSweep, OverRedis DEF Redis!InvalidatePattern
<1>4. ASSUME NEW t, Redis!InvalidateTag(c, t) PROVE Inv'
  BY <1>1, <1>4, RedisInvalidateTag, OverRedis
<1>5. ASSUME NEW a \in TagCalls, NEW v \in ValuesOver[backend], NEW tags,
             Redis!SetWithTags(c, a[2], v, a[3], tags)
      PROVE  Inv'
  <2>1. v \in Values /\ a[3] \in Int
    BY <1>1 DEF InRedis
  <2>. QED  BY <1>1, <1>5, <2>1, RedisSetWithTags, OverRedis
<1>. QED  BY <1>2, <1>3, <1>4, <1>5 DEF RedisOnly, Cache

LEMMA InvOther ==
  ASSUME Inv, Time \/ CleanupLoop \/ \E c \in Callers : Count(c)
  PROVE  Inv'
<1>1. UNCHANGED backend /\ Types /\ (backend = "memory" => MemoryHolds) /\ (backend = "redis" => InRedis)
  BY DEF Time, CleanupLoop, Count, Cache, Inv, InRedis
<1>2. CASE Time
  BY <1>1, <1>2, MemoryRest, RedisClock, OverMemory, OverRedis DEF Time, Cache
<1>3. CASE CleanupLoop
  BY <1>1, <1>3, MemoryRest, OverMemory DEF CleanupLoop, Cache
<1>4. CASE \E c \in Callers : Count(c)
  BY <1>4 DEF Count, mcvars, inRedis, Inv, Types, MemoryHolds, Present, RedisHolds, Sweeps, ReadsLastWrite
<1>. QED  BY <1>2, <1>3, <1>4

LEMMA InvNext ==
  ASSUME Inv, [Next]_vars
  PROVE  Inv'
<1>. USE CacheAssumption, ManagerAssumption DEF CacheAssumption, ManagerAssumption
<1>1. CASE UNCHANGED vars
  BY <1>1 DEF vars, mcvars, inRedis, Inv, Types, MemoryHolds, Present, RedisHolds, Sweeps, ReadsLastWrite
<1>2. backend \in {"memory", "redis"} /\ ValuesOver[backend] \subseteq Values
  BY DEF Inv, Types
<1>3. ASSUME NEW c \in Callers, NEW k, NEW v \in ValuesOver[backend], NEW ttl \in TTLs,
             SetQueryResult(c, k, v, ttl)
      PROVE  Inv'
  <2>1. PICK t \in Int : Store(c, k, v, t)
    BY <1>3 DEF SetQueryResult
  <2>2. v \in Values
    BY <1>2
  <2>. QED  BY <2>1, <2>2, InvStore
<1>4. ASSUME NEW c \in Callers, NEW k, NEW v \in ValuesOver[backend], SetSchema(c, k, v) PROVE Inv'
  <2>1. SchemaTTL \in Int /\ Store(c, k, v, SchemaTTL)
    BY <1>4 DEF SetSchema
  <2>2. v \in Values
    BY <1>2
  <2>. QED  BY <2>1, <2>2, InvStore
<1>5. ASSUME NEW c \in Callers, NEW k, GetQueryResult(c, k) \/ GetSchema(c, k) PROVE Inv'
  BY <1>5, InvCalls DEF GetQueryResult, GetSchema
<1>6. ASSUME NEW c \in Callers, NEW t, InvalidateTable(c, t) PROVE Inv'
  BY <1>6, InvCalls DEF InvalidateTable
<1>7. ASSUME NEW c \in Callers, ClearAll(c) \/ \E k : DeleteKey(c, k) PROVE Inv'
  BY <1>7, InvCalls
<1>. QED  BY <1>1, <1>3, <1>4, <1>5, <1>6, <1>7, InvRedisOnly, InvOther DEF Next

\* Over either backend, and whatever is evicted, cleaned up, cleared page by page or
\* invalidated by tag meanwhile, a lookup returns the last value set for its key and
\* none that has expired or was deleted, and misses only what is gone for a reason.
THEOREM LookupsReadLastWrite == Spec => []ReadsLastWrite
<1>1. Inv => ReadsLastWrite
  BY DEF Inv
<1>. QED  BY <1>1, InvInit, InvNext, PTL DEF Spec

-----------------------------------------------------------------------------
(* Lists *)

\* The number of positions of S up to n.
Rank(S, n) == Cardinality({i \in S : i <= n})

\* It grows by the positions of S, and there are as many ranks as positions ...
LEMMA RankFacts ==
  ASSUME NEW N \in Nat, NEW S \in SUBSET (1..N)
  PROVE  /\ IsFiniteSet(S) /\ Cardinality(S) \in Nat
         /\ \A n \in S : Rank(S, n) \in 1..Cardinality(S)
         /\ \A m, n \in S : m < n => Rank(S, m) < Rank(S, n)
<1>1. IsFiniteSet(S) /\ Cardinality(S) \in Nat
  <2>1. IsFiniteSet(1..N)
    BY FS_Interval
  <2>2. IsFiniteSet(S)
    BY <2>1, FS_Subset
  <2>. QED  BY <2>2, FS_CardinalityType
<1>2. ASSUME NEW n \in S
      PROVE  /\ IsFiniteSet({i \in S : i <= n}) /\ Rank(S, n) \in Nat
             /\ Rank(S, n) \in 1..Cardinality(S)
  <2>. DEFINE B == {i \in S : i <= n}
  <2>1. B \in SUBSET S /\ n \in B
    OBVIOUS
  <2>. HIDE DEF B
  <2>2. IsFiniteSet(B) /\ Cardinality(B) \in Nat /\ Cardinality(B) <= Cardinality(S)
    BY <1>1, <2>1, FS_Subset, FS_CardinalityType
  <2>3. Cardinality(B) # 0
    BY <2>1, <2>2, FS_EmptySet
  <2>4. Cardinality(B) \in 1..Cardinality(S)
    BY <1>1, <2>2, <2>3
  <2>. QED  BY <2>2, <2>4 DEF B, Rank
<1>3. ASSUME NEW m \in S, NEW n \in S, m < n PROVE Rank(S, m) < Rank(S, n)
  <2>. DEFINE A == {i \in S : i <= m}
              B == {i \in S : i <= n}
  <2>1. A \cup {n} \in SUBSET B /\ n \notin A
    <3>1. \A i \in S : i \in Int
      OBVIOUS
    <3>2. m \in Int /\ n \in Int /\ n \in B /\ n \notin A
      BY <1>3, <3>1
    <3>3. \A i \in A : i \in B
      BY <1>3, <3>1, <3>2
    <3>. QED  BY <3>2, <3>3
  <2>2. IsFiniteSet(A) /\ IsFiniteSet(B) /\ Cardinality(A) \in Nat /\ Cardinality(B) \in Nat
    BY <1>2 DEF Rank
  <2>. HIDE DEF A, B
  <2>3. Cardinality(A \cup {n}) = Cardinality(A) + 1
    BY <2>1, <2>2, FS_AddElement
  <2>4. Cardinality(A \cup {n}) <= Cardinality(B)
    BY <2>1, <2>2, FS_Subset
  <2>5. Cardinality(A) < Cardinality(B)
    BY <2>2, <2>3, <2>4
  <2>. QED  BY <2>5 DEF A, B, Rank
<1>. QED  BY <1>1, <1>2, <1>3

\* ... so that taking the positions by their rank leaves none out.
LEMMA AscendingFacts ==
  ASSUME NEW N \in Nat, NEW S \in SUBSET (1..N)
  PROVE  /\ Cardinality(S) \in Nat
         /\ Ascending(S) \in [1..Cardinality(S) -> S]
         /\ \A m, n \in 1..Cardinality(S) : m < n => Ascending(S)[m] < Ascending(S)[n]
         /\ \A x \in S : \E n \in 1..Cardinality(S) : Ascending(S)[n] = x
<1>. DEFINE C == Cardinality(S)
            r == [n \in S |-> Rank(S, n)]
<1>0. \A x \in S : x \in Int
  OBVIOUS
<1>1. /\ IsFiniteSet(S) /\ C \in Nat
      /\ r \in [S -> 1..C] /\ \A m, n \in S : m < n => r[m] < r[n]
  BY RankFacts
<1>. HIDE DEF r
<1>2. r \in Injection(S, 1..C)
  <2>1. ASSUME NEW m \in S, NEW n \in S, r[m] = r[n] PROVE m = n
    <3>1. m \in Int /\ n \in Int /\ r[m] \in Int /\ r[n] \in Int
      BY <1>1
    <3>. QED  BY <1>1, <2>1, <3>1
  <2>. QED  BY <1>1, <2>1 DEF Injection, IsInjective
<1>3. r \in Surjection(S, 1..C)
  <2>1. IsFiniteSet(1..C) /\ Cardinality(1..C) = C
    <3>1. IsFiniteSet(1..C) /\ Cardinality(1..C) = IF 1 > C THEN 0 ELSE C - 1 + 1
      BY <1>1, FS_Interval
    <3>. QED  BY <1>1, <3>1
  <2>. QED  BY <1>1, <1>2, <2>1, FS_Injection
<1>4. \A m \in 1..C : \E n \in S : r[n] = m
  BY <1>3 DEF Surjection
<1>. DEFINE f == [m \in 1..C |-> CHOOSE n \in S : r[n] = m]
<1>5. f \in [1..C -> S] /\ \A m \in 1..C : r[f[m]] = m
  BY <1>4
<1>. HIDE DEF f
<1>6. \A m, n \in DOMAIN f : m < n => f[m] < f[n]
  <2>. SUFFICES ASSUME NEW m \in 1..C, NEW n \in 1..C, m < n PROVE f[m] < f[n]
    BY <1>5
  <2>1. f[m] \in S /\ f[n] \in S /\ r[f[m]] = m /\ r[f[n]] = n
    BY <1>5
  <2>2. f[m] \in Int /\ f[n] \in Int
    BY <1>0, <2>1
  <2>3. m \in Int /\ n \in Int
    BY <1>1
  <2>4. f[m] # f[n] /\ ~(f[n] < f[m])
    <3>1. f[n] < f[m] => n < m
      BY <1>1, <2>1
    <3>. QED  BY <2>1, <2>2, <2>3, <3>1
  <2>. QED  BY <2>2, <2>4
<1>. DEFINE a == Ascending(S)
<1>7. a \in [1..C -> S] /\ \A m, n \in DOMAIN a : m < n => a[m] < a[n]
  BY <1>5, <1>6 DEF Ascending
<1>. HIDE DEF a
<1>8. a \in Injection(1..C, S)
  <2>1. ASSUME NEW m \in 1..C, NEW n \in 1..C, a[m] = a[n] PROVE m = n
    <3>1. a[m] \in S /\ a[n] \in S /\ m \in Int /\ n \in Int
      BY <1>1, <1>7
    <3>2. a[m] \in Int /\ a[n] \in Int
      BY <1>0, <3>1
    <3>3. (m < n => a[m] < a[n]) /\ (n < m => a[n] < a[m])
      BY <1>1, <1>7
    <3>. QED  BY <2>1, <3>1, <3>2, <3>3
  <2>. QED  BY <1>7, <2>1 DEF Injection, IsInjective
<1>9. a \in Surjection(1..C, S)
  <2>1. IsFiniteSet(1..C) /\ Cardinality(1..C) = Cardinality(S)
    <3>1. IsFiniteSet(1..C) /\ Cardinality(1..C) = IF 1 > C THEN 0 ELSE C - 1 + 1
      BY <1>1, FS_Interval
    <3>. QED  BY <1>1, <3>1
  <2>. QED  BY <1>1, <1>8, <2>1, FS_Injection
<1>. QED  BY <1>1, <1>7, <1>9 DEF a, Surjection

\* A list, and one in which nothing is twice.
List(s) == \E n \in Nat : DOMAIN s = 1..n /\ s = [m \in 1..n |-> s[m]]
Once(s) == \A m, n \in DOMAIN s : s[m] = s[n] => m = n
Before(s, x, y) == \E m, n \in DOMAIN s : s[m] = x /\ s[n] = y /\ m < n

\* Taking keys out of a list leaves the others, in their order.
LEMMA WithoutFacts ==
  ASSUME NEW s, List(s), NEW D
  PROVE  /\ List(Without(s, D))
         /\ Range(Without(s, D)) = Range(s) \ D
         /\ Once(s) => Once(Without(s, D))
         /\ \A x, y : Before(Without(s, D), x, y) <=> Before(s, x, y) /\ x \notin D /\ y \notin D
<1>. DEFINE S == {n \in DOMAIN s : s[n] \notin D}
            C == Cardinality(S)
            a == Ascending(S)
            t == Without(s, D)
<1>1. PICK N \in Nat : DOMAIN s = 1..N
  BY DEF List
<1>2. /\ C \in Nat /\ a \in [1..C -> S]
      /\ \A m, n \in 1..C : m < n => a[m] < a[n]
      /\ \A x \in S : \E n \in 1..C : a[n] = x
  <2>1. S \in SUBSET (1..N)
    BY <1>1
  <2>. HIDE DEF S
  <2>. QED  BY <2>1, AscendingFacts
<1>3. t = [n \in 1..C |-> s[a[n]]]
  BY <1>2 DEF Without
<1>4. \A n \in 1..C : a[n] \in 1..N /\ s[a[n]] \notin D /\ a[n] \in DOMAIN s
  BY <1>1, <1>2
<1>5. \A x \in 1..N : s[x] \notin D => \E n \in 1..C : a[n] = x
  BY <1>1, <1>2
<1>6. \A m, n \in 1..C : (a[m] = a[n] => m = n) /\ (a[m] < a[n] => m < n)
  <2>. SUFFICES ASSUME NEW m \in 1..C, NEW n \in 1..C
                PROVE  (a[m] = a[n] => m = n) /\ (a[m] < a[n] => m < n)
    OBVIOUS
  <2>1. a[m] \in 1..N /\ a[n] \in 1..N
    BY <1>4
  <2>2. a[m] \in Int /\ a[n] \in Int /\ m \in Int /\ n \in Int
    BY <1>2, <2>1
  <2>3. (m < n => a[m] < a[n]) /\ (n < m => a[n] < a[m])
    BY <1>2
  <2>. QED  BY <2>2, <2>3
<1>. HIDE DEF S, C, a, t
<1>7. List(t)
  BY <1>2, <1>3 DEF List
<1>8. Range(t) = Range(s) \ D
  BY <1>1, <1>3, <1>4, <1>5 DEF Range
<1>9. Once(s) => Once(t)
  BY <1>3, <1>4, <1>6 DEF Once
<1>10. ASSUME NEW x, NEW y, Before(t, x, y) PROVE Before(s, x, y) /\ x \notin D /\ y \notin D
  <2>1. PICK m \in 1..C, n \in 1..C : t[m] = x /\ t[n] = y /\ m < n
    BY <1>3, <1>10 DEF Before
  <2>2. s[a[m]] = x /\ s[a[n]] = y /\ a[m] < a[n]
    BY <1>2, <1>3, <2>1
  <2>. QED  BY <1>4, <2>2 DEF Before
<1>11. ASSUME NEW x, NEW y, Before(s, x, y), x \notin D, y \notin D PROVE Before(t, x, y)
  <2>1. PICK m \in 1..N, n \in 1..N : s[m] = x /\ s[n] = y /\ m < n
    BY <1>1, <1>11 DEF Before
  <2>2. PICK i \in 1..C, j \in 1..C : a[i] = m /\ a[j] = n
    BY <1>5, <1>11, <2>1
  <2>3. i < j /\ t[i] = x /\ t[j] = y
    BY <1>3, <1>6, <2>1, <2>2
  <2>. QED  BY <1>3, <2>3 DEF Before
<1>. QED  BY <1>7, <1>8, <1>9, <1>10, <1>11 DEF t

\* A key in front comes before all others and leaves them in their order.
LEMMA FrontFacts ==
  ASSUME NEW k, NEW s, List(s)
  PROVE  /\ List(ToFront(k, s))
         /\ Range(ToFront(k, s)) = Range(s) \cup {k}
         /\ Once(s) => Once(ToFront(k, s))
         /\ \A x, y : Before(ToFront(k, s), x, y)
                        <=> y \in Range(s) \ {k} /\ (x = k \/ (Before(s, x, y) /\ x # k))
<1>. DEFINE t == Without(s, {k})
            f == ToFront(k, s)
<1>1. /\ List(t) /\ Range(t) = Range(s) \ {k} /\ (Once(s) => Once(t))
      /\ \A x, y : Before(t, x, y) <=> Before(s, x, y) /\ x # k /\ y # k
  BY WithoutFacts
<1>. HIDE DEF t
<1>2. PICK n \in Nat : DOMAIN t = 1..n /\ t = [m \in 1..n |-> t[m]]
  BY <1>1 DEF List
<1>3. t \in Seq(Range(t)) /\ Len(t) = n
  BY <1>2 DEF Range
<1>4. f = <<k>> \o t
  BY DEF ToFront, t
<1>5. /\ f = [m \in 1..(n + 1) |-> IF m = 1 THEN k ELSE t[m - 1]]
  <2>1. t \in Seq(Range(t) \cup {k}) /\ <<k>> \in Seq(Range(t) \cup {k}) /\ Len(<<k>>) = 1
    BY <1>3
  <2>. QED  BY <1>2, <1>3, <1>4, <2>1
<1>. HIDE DEF f
<1>6. /\ DOMAIN f = 1..(n + 1) /\ f[1] = k /\ 1 \in DOMAIN f
      /\ \A m \in 1..n : m + 1 \in DOMAIN f /\ f[m + 1] = t[m]
      /\ \A m \in DOMAIN f : m = 1 \/ (m - 1 \in 1..n /\ f[m] = t[m - 1] /\ 1 < m)
  BY <1>5
<1>7. List(f)
  BY <1>5 DEF List
<1>8. Range(f) = Range(t) \cup {k}
  <2>1. ASSUME NEW x \in Range(f) PROVE x \in Range(t) \cup {k}
    <3>1. PICK m \in DOMAIN f : f[m] = x
      BY DEF Range
    <3>2. m = 1 \/ (m - 1 \in DOMAIN t /\ x = t[m - 1])
      BY <1>2, <1>6, <3>1
    <3>. QED  BY <1>6, <3>1, <3>2 DEF Range
  <2>2. ASSUME NEW x \in Range(t) PROVE x \in Range(f)
    <3>1. PICK m \in 1..n : t[m] = x
      BY <1>2 DEF Range
    <3>2. m + 1 \in DOMAIN f /\ f[m + 1] = x
      BY <1>6, <3>1
    <3>. QED  BY <3>2 DEF Range
  <2>3. k \in Range(f)
    BY <1>6 DEF Range
  <2>. QED  BY <2>1, <2>2, <2>3
<1>9. \A m \in 1..n : t[m] # k /\ t[m] \in Range(t)
  BY <1>1, <1>2 DEF Range
<1>10. Once(s) => Once(f)
  <2>. SUFFICES ASSUME Once(t), NEW i \in DOMAIN f, NEW j \in DOMAIN f, f[i] = f[j] PROVE i = j
    BY <1>1 DEF Once
  <2>1. i \in Int /\ j \in Int
    BY <1>6
  <2>2. CASE i = 1 \/ j = 1
    BY <1>6, <1>9, <2>2
  <2>3. CASE i # 1 /\ j # 1
    <3>1. i - 1 \in DOMAIN t /\ j - 1 \in DOMAIN t /\ t[i - 1] = t[j - 1]
      BY <1>2, <1>6, <2>3
    <3>2. i - 1 = j - 1
      BY <3>1 DEF Once
    <3>. QED  BY <2>1, <3>2
  <2>. QED  BY <2>2, <2>3
<1>11. \A x, y : Before(f, x, y) <=> y \in Range(t) /\ (x = k \/ Before(t, x, y))
  <2>1. ASSUME NEW x, NEW y, Before(f, x, y) PROVE y \in Range(t) /\ (x = k \/ Before(t, x, y))
    <3>1. PICK i \in DOMAIN f, j \in DOMAIN f : f[i] = x /\ f[j] = y /\ i < j
      BY <2>1 DEF Before
    <3>2. i \in Int /\ j \in Int /\ j # 1
      BY <1>6, <3>1
    <3>3. j - 1 \in 1..n /\ y = t[j - 1]
      BY <1>6, <3>1, <3>2
    <3>4. y \in Range(t)
      BY <1>9, <3>3
    <3>5. CASE i = 1
      BY <1>6, <3>1, <3>4, <3>5
    <3>6. CASE i # 1
      <4>1. i - 1 \in 1..n /\ x = t[i - 1] /\ i - 1 < j - 1
        BY <1>6, <3>1, <3>2, <3>6
      <4>. QED  BY <1>2, <3>3, <3>4, <4>1 DEF Before
    <3>. QED  BY <3>5, <3>6
  <2>2. ASSUME NEW x, NEW y, y \in Range(t), x = k PROVE Before(f, x, y)
    <3>1. PICK j \in 1..n : t[j] = y
      BY <1>2, <2>2 DEF Range
    <3>2. j + 1 \in DOMAIN f /\ f[j + 1] = y /\ 1 < j + 1 /\ 1 \in DOMAIN f /\ f[1] = x
      BY <1>6, <2>2, <3>1
    <3>. QED  BY <3>2 DEF Before
  <2>3. ASSUME NEW x, NEW y, Before(t, x, y) PROVE Before(f, x, y)
    <3>1. PICK i \in 1..n, j \in 1..n : t[i] = x /\ t[j] = y /\ i < j
      BY <1>2, <2>3 DEF Before
    <3>2. /\ i + 1 \in DOMAIN f /\ f[i + 1] = x /\ j + 1 \in DOMAIN f /\ f[j + 1] = y
          /\ i + 1 < j + 1
      BY <1>6, <3>1
    <3>. QED  BY <3>2 DEF Before
  <2>. QED  BY <2>1, <2>2, <2>3
<1>12. \A x, y : Before(s, x, y) => y \in Range(s)
  BY DEF Before, Range
<1>13. Range(f) = Range(s) \cup {k}
  BY <1>1, <1>8
<1>14. ASSUME NEW x, NEW y
       PROVE  Before(f, x, y) <=> y \in Range(s) \ {k} /\ (x = k \/ (Before(s, x, y) /\ x # k))
  <2>1. Before(f, x, y) <=> y \in Range(t) /\ (x = k \/ Before(t, x, y))
    BY <1>11
  <2>2. Before(t, x, y) <=> Before(s, x, y) /\ x # k /\ y # k
    BY <1>1
  <2>3. y \in Range(t) <=> y \in Range(s) \ {k}
    BY <1>1
  <2>. QED  BY <1>12, <2>1, <2>2, <2>3
<1>. QED  BY <1>7, <1>10, <1>13, <1>14 DEF f

\* A list in which nothing is twice is as long as the set it holds.
LEMMA ListLength ==
  ASSUME NEW s, List(s), Once(s)
  PROVE  /\ IsFiniteSet(Range(s)) /\ Cardinality(Range(s)) \in Nat
         /\ Len(s) = Cardinality(Range(s)) /\ DOMAIN s = 1..Cardinality(Range(s))
<1>1. PICK n \in Nat : DOMAIN s = 1..n /\ s = [m \in 1..n |-> s[m]]
  BY DEF List
<1>2. s \in Bijection(1..n, Range(s))
  BY <1>1 DEF Bijection, Injection, Surjection, IsInjective, Range, Once
<1>3. ExistsBijection(1..n, Range(s))
  BY <1>2 DEF ExistsBijection
<1>4. Cardinality(Range(s)) = n /\ IsFiniteSet(Range(s))
  BY <1>3, FS_CountingElements, FS_NatBijection
<1>5. Len(s) = n
  BY <1>1
<1>. QED  BY <1>1, <1>4, <1>5

-----------------------------------------------------------------------------
(* Bytes *)

\* The octets of the values that f holds for the keys D.
Octs(f, D) == UNION {{k} \X (1..SizeOf[f[k].value]) : k \in D}
Sized(f, D) == \A k \in D : f[k].value \in Values

LEMMA OctsFinite ==
  ASSUME NEW f, NEW D, IsFiniteSet(D), Sized(f, D)
  PROVE  IsFiniteSet(Octs(f, D)) /\ Cardinality(Octs(f, D)) \in Nat
<1>. DEFINE g == [k \in D |-> {k} \X (1..SizeOf[f[k].value])]
            T == {{k} \X (1..SizeOf[f[k].value]) : k \in D}
<1>1. g \in Surjection(D, T)
  BY DEF Surjection
<1>2. IsFiniteSet(T)
  <2>. HIDE DEF g, T
  <2>. QED  BY <1>1, FS_Surjection
<1>3. ASSUME NEW k \in D PROVE IsFiniteSet({k} \X (1..SizeOf[f[k].value]))
  <2>1. SizeOf[f[k].value] \in Nat
    BY CacheAssumption DEF CacheAssumption, Sized
  <2>2. IsFiniteSet(1..SizeOf[f[k].value])
    BY <2>1, FS_Interval
  <2>3. IsFiniteSet({k})
    BY FS_Singleton
  <2>. QED  BY <2>2, <2>3, FS_Product
<1>4. \A S \in T : IsFiniteSet(S)
  BY <1>3
<1>5. IsFiniteSet(UNION T)
  <2>. HIDE DEF T
  <2>. QED  BY <1>2, <1>4, FS_UNION
<1>6. UNION T = Octs(f, D)
  BY DEF Octs
<1>7. IsFiniteSet(Octs(f, D))
  <2>. HIDE DEF T
  <2>. QED  BY <1>5, <1>6
<1>. QED  BY <1>7, FS_CardinalityType

LEMMA OctsSplit ==
  ASSUME NEW f, NEW D, IsFiniteSet(D), Sized(f, D), NEW E, E \subseteq D
  PROVE  Cardinality(Octs(f, D)) = Cardinality(Octs(f, D \ E)) + Cardinality(Octs(f, E))
<1>1. /\ IsFiniteSet(D \ E) /\ IsFiniteSet(E) /\ Sized(f, D \ E) /\ Sized(f, E)
  BY FS_Subset, FS_Difference DEF Sized
<1>2. /\ IsFiniteSet(Octs(f, D \ E)) /\ Cardinality(Octs(f, D \ E)) \in Nat
      /\ IsFiniteSet(Octs(f, E)) /\ Cardinality(Octs(f, E)) \in Nat
  BY <1>1, OctsFinite
<1>3. \A x : x \in Octs(f, D) <=> x \in Octs(f, D \ E) \/ x \in Octs(f, E)
  BY DEF Octs
<1>4. Octs(f, D) = Octs(f, D \ E) \cup Octs(f, E)
  BY <1>3
<1>5. Octs(f, D \ E) \cap Octs(f, E) = {}
  BY DEF Octs
<1>6. Cardinality({}) = 0
  BY FS_EmptySet
<1>. DEFINE A == Octs(f, D \ E)
            B == Octs(f, E)
<1>. HIDE DEF A, B
<1>7. Cardinality(A \cup B) = Cardinality(A) + Cardinality(B) - Cardinality(A \cap B)
  BY <1>2, FS_Union DEF A, B
<1>8. Cardinality(A) \in Nat /\ Cardinality(B) \in Nat /\ A \cap B = {} /\ Octs(f, D) = A \cup B
  BY <1>2, <1>4, <1>5 DEF A, B
<1>9. Cardinality(A \cap B) = 0
  BY <1>6, <1>8
<1>10. Cardinality(A \cup B) = Cardinality(A) + Cardinality(B)
  BY <1>7, <1>8, <1>9
<1>. QED  BY <1>8, <1>10 DEF A, B

LEMMA OctsOne ==
  ASSUME NEW f, NEW k, f[k].value \in Values
  PROVE  /\ SizeOf[f[k].value] \in Nat
         /\ Cardinality(Octs(f, {k})) = SizeOf[f[k].value]
<1>. DEFINE n == SizeOf[f[k].value]
<1>1. n \in Nat
  BY CacheAssumption DEF CacheAssumption
<1>2. Octs(f, {k}) = {k} \X (1..n)
  BY DEF Octs
<1>. HIDE DEF n
<1>3. IsFiniteSet(1..n) /\ Cardinality(1..n) = IF 1 > n THEN 0 ELSE n - 1 + 1
  BY <1>1, FS_Interval
<1>4. Cardinality(1..n) = n
  BY <1>1, <1>3
<1>5. IsFiniteSet({k}) /\ Cardinality({k}) = 1
  BY FS_Singleton
<1>6. Cardinality({k} \X (1..n)) = Cardinality({k}) * Cardinality(1..n)
  BY <1>3, <1>5, FS_Product
<1>7. 1 * n = n
  BY <1>1
<1>8. Cardinality(Octs(f, {k})) = n
  BY <1>2, <1>4, <1>5, <1>6, <1>7
<1>. QED  BY <1>1, <1>8 DEF n

LEMMA OctsSame ==
  ASSUME NEW f, NEW g, NEW D, \A k \in D : f[k] = g[k]
  PROVE  Octs(f, D) = Octs(g, D)
  BY DEF Octs

-----------------------------------------------------------------------------
(* The list, the map and the bytes *)

\* The list l of the keys P, in the order of their last use.
Ranked(l, r, P) ==
  /\ List(l) /\ Once(l) /\ Range(l) = P
  /\ List(r) /\ P \subseteq Range(r)
  /\ \A x, y : Before(l, x, y) => Before(r, x, y)

LEMMA RankedWithout ==
  ASSUME NEW l, NEW r, NEW P, Ranked(l, r, P), NEW D
  PROVE  Ranked(Without(l, D), r, P \ D)
<1>1. /\ List(Without(l, D)) /\ Once(Without(l, D)) /\ Range(Without(l, D)) = P \ D
      /\ \A x, y : Before(Without(l, D), x, y) => Before(l, x, y)
  BY WithoutFacts DEF Ranked
<1>. QED  BY <1>1 DEF Ranked

LEMMA RankedFront ==
  ASSUME NEW l, NEW r, NEW P, Ranked(l, r, P), NEW k
  PROVE  Ranked(ToFront(k, l), ToFront(k, r), P \cup {k})
<1>1. /\ List(ToFront(k, l)) /\ Once(ToFront(k, l)) /\ Range(ToFront(k, l)) = P \cup {k}
      /\ List(ToFront(k, r)) /\ Range(ToFront(k, r)) = Range(r) \cup {k}
  BY FrontFacts DEF Ranked
<1>2. ASSUME NEW x, NEW y, Before(ToFront(k, l), x, y) PROVE Before(ToFront(k, r), x, y)
  <2>1. y \in Range(l) \ {k} /\ (x = k \/ (Before(l, x, y) /\ x # k))
    BY <1>2, FrontFacts DEF Ranked
  <2>2. y \in Range(r) \ {k} /\ (x = k \/ (Before(r, x, y) /\ x # k))
    BY <2>1 DEF Ranked
  <2>. QED  BY <2>2, FrontFacts DEF Ranked
<1>. QED  BY <1>1, <1>2 DEF Ranked

Ordered == Ranked(lru, recent, Present) /\ Cardinality(Present) <= MaxSize
Weighed == Sized(items, Present) /\ bytesUsed = Bytes(Present)

LEMMA FewPresent ==
  ASSUME Ordered
  PROVE  /\ IsFiniteSet(Present) /\ Cardinality(Present) \in Nat /\ MaxSize \in Nat \ {0}
         /\ Len(lru) = Cardinality(Present) /\ DOMAIN lru = 1..Cardinality(Present)
<1>1. List(lru) /\ Once(lru) /\ Range(lru) = Present
  BY DEF Ordered, Ranked
<1>. QED  BY <1>1, ListLength, CacheAssumption DEF CacheAssumption

LEMMA StructuresFollow ==
  ASSUME Ordered, Weighed
  PROVE  StructuresAgree
  BY FewPresent DEF StructuresAgree, Ordered, Ranked, Weighed

\* Keys leave.
LEMMA OrderedWithout ==
  ASSUME Ordered, NEW D, DOMAIN items' = Present \ D, lru' = Without(lru, D), UNCHANGED recent
  PROVE  Ordered'
<1>1. Ranked(lru', recent', DOMAIN items')
  BY RankedWithout DEF Ordered
<1>2. Cardinality(DOMAIN items') <= Cardinality(Present) /\ Cardinality(DOMAIN items') \in Nat
  <2>1. DOMAIN items' \in SUBSET Present
    OBVIOUS
  <2>2. IsFiniteSet(DOMAIN items') /\ Cardinality(DOMAIN items') <= Cardinality(Present)
    BY <2>1, FewPresent, FS_Subset
  <2>. QED  BY <2>2, FS_CardinalityType
<1>3. Cardinality(Present) \in Nat /\ MaxSize \in Nat /\ Cardinality(Present) <= MaxSize
  BY FewPresent DEF Ordered
<1>4. Cardinality(DOMAIN items') <= MaxSize
  BY <1>2, <1>3
<1>. QED  BY <1>1, <1>4 DEF Ordered, Present

\* A key is used.
LEMMA OrderedUsed ==
  ASSUME Ordered, NEW k \in Present, DOMAIN items' = Present,
         lru' = ToFront(k, lru), recent' = ToFront(k, recent)
  PROVE  Ordered'
<1>1. Ranked(ToFront(k, lru), ToFront(k, recent), Present \cup {k})
  BY RankedFront DEF Ordered
<1>2. Present \cup {k} = Present
  OBVIOUS
<1>. QED  BY <1>1, <1>2 DEF Ordered, Present

LEMMA VictimsFacts ==
  ASSUME Ordered
  PROVE  /\ Victims \subseteq Present
         /\ \A in \in Present \ Victims, out \in Victims : Before(lru, in, out)
         /\ Cardinality(Present \ Victims) < MaxSize /\ Cardinality(Present \ Victims) \in Nat
<1>. DEFINE N == Cardinality(Present)
<1>1. /\ IsFiniteSet(Present) /\ N \in Nat /\ MaxSize \in Nat \ {0} /\ N <= MaxSize
      /\ Len(lru) = N /\ DOMAIN lru = 1..N
  BY FewPresent DEF Ordered
<1>2. Present = {lru[n] : n \in 1..N}
  BY <1>1 DEF Ordered, Ranked, Range
<1>3. Victims = {lru[n] : n \in MaxSize..N}
  BY <1>1 DEF Victims
<1>. HIDE DEF N
<1>4. \A n \in MaxSize..N : n \in 1..N
  BY <1>1
<1>5. Victims \subseteq Present
  BY <1>2, <1>3, <1>4
<1>6. ASSUME NEW in \in Present \ Victims, NEW out \in Victims PROVE Before(lru, in, out)
  <2>1. PICK m \in 1..N : lru[m] = in
    BY <1>2
  <2>2. PICK n \in MaxSize..N : lru[n] = out
    BY <1>3
  <2>3. m \notin MaxSize..N
    BY <1>3, <2>1
  <2>4. m < n /\ n \in 1..N
    BY <1>1, <2>3
  <2>. QED  BY <1>1, <2>1, <2>2, <2>4 DEF Before
<1>7. Cardinality(Present \ Victims) < MaxSize /\ Cardinality(Present \ Victims) \in Nat
  <2>1. CASE N < MaxSize
    <3>1. MaxSize..N = {}
      BY <1>1, <2>1
    <3>2. Present \ Victims = Present
      BY <1>3, <3>1
    <3>. QED  BY <1>1, <2>1, <3>2 DEF N
  <2>2. CASE N = MaxSize
    <3>1. Victims = {lru[N]} /\ lru[N] \in Present
      BY <1>1, <1>2, <1>3, <2>2
    <3>2. Cardinality(Present \ {lru[N]}) = N - 1
      BY <1>1, <3>1, FS_RemoveElement DEF N
    <3>. QED  BY <1>1, <2>2, <3>1, <3>2
  <2>. QED  BY <1>1, <2>1, <2>2
<1>. QED  BY <1>5, <1>6, <1>7

\* A new key comes in, and the victims leave.
LEMMA OrderedInsert ==
  ASSUME Ordered, NEW k, k \notin Present, DOMAIN items' = (Present \ Victims) \cup {k},
         lru' = ToFront(k, Without(lru, Victims)), recent' = ToFront(k, recent)
  PROVE  Ordered'
<1>1. Ranked(Without(lru, Victims), recent, Present \ Victims)
  BY RankedWithout DEF Ordered
<1>2. Ranked(lru', recent', (Present \ Victims) \cup {k})
  BY <1>1, RankedFront
<1>3. IsFiniteSet(Present \ Victims)
  BY FewPresent, FS_Difference
<1>4. Cardinality((Present \ Victims) \cup {k}) = Cardinality(Present \ Victims) + 1
  BY <1>3, FS_AddElement
<1>5. Cardinality((Present \ Victims) \cup {k}) <= MaxSize
  BY <1>4, VictimsFacts, FewPresent
<1>. QED  BY <1>2, <1>5 DEF Ordered, Present

LEMMA WeighedWithout ==
  ASSUME Weighed, IsFiniteSet(Present), NEW D, D \subseteq Present,
         items' = Restrict(items, Present \ D), bytesUsed' = bytesUsed - Bytes(D)
  PROVE  Weighed'
<1>1. DOMAIN items' = Present \ D /\ \A k \in Present \ D : items'[k] = items[k]
  BY RestrictFacts
<1>2. Octs(items', Present \ D) = Octs(items, Present \ D)
  BY <1>1, OctsSame
<1>. DEFINE B(S) == Cardinality(Octs(items, S))
<1>3. B(Present) = B(Present \ D) + B(D)
  BY OctsSplit DEF Weighed
<1>4. /\ IsFiniteSet(Present \ D) /\ IsFiniteSet(D)
      /\ Sized(items, Present \ D) /\ Sized(items, D)
  BY FS_Difference, FS_Subset DEF Weighed, Sized
<1>5. B(Present \ D) \in Nat /\ B(D) \in Nat
  BY <1>4, OctsFinite
<1>6. bytesUsed = B(Present) /\ bytesUsed' = bytesUsed - B(D)
  BY DEF Weighed, Bytes, Octets, Octs
<1>7. bytesUsed' = Cardinality(Octs(items', Present \ D))
  <2>. HIDE DEF B
  <2>1. bytesUsed' = B(Present \ D)
    BY <1>3, <1>5, <1>6
  <2>. QED  BY <1>2, <2>1 DEF B
<1>8. Sized(items', Present \ D)
  BY <1>1, <1>4 DEF Sized
<1>. QED  BY <1>1, <1>7, <1>8 DEF Weighed, Bytes, Octets, Octs, Present

\* The items of D stay and k holds e.
LEMMA WeighedWith ==
  ASSUME Weighed, IsFiniteSet(Present), NEW D, D \subseteq Present, NEW k, k \notin D,
         NEW e, e.value \in Values,
         DOMAIN items' = D \cup {k}, items'[k] = e, \A j \in D : items'[j] = items[j],
         bytesUsed' = bytesUsed - Bytes(Present \ D) + SizeOf[e.value]
  PROVE  Weighed'
<1>. DEFINE B(S) == Cardinality(Octs(items, S))
            A == Cardinality(Octs(items', D \cup {k}))
            z == SizeOf[e.value]
<1>1. /\ IsFiniteSet(D) /\ IsFiniteSet(D \cup {k}) /\ IsFiniteSet(Present \ D)
      /\ Sized(items, D) /\ Sized(items', D \cup {k}) /\ Sized(items, Present \ D)
  BY FS_Subset, FS_Difference, FS_AddElement DEF Weighed, Sized
<1>2. A = Cardinality(Octs(items', (D \cup {k}) \ {k})) + Cardinality(Octs(items', {k}))
  BY <1>1, OctsSplit
<1>3. (D \cup {k}) \ {k} = D /\ Octs(items', D) = Octs(items, D)
  BY OctsSame
<1>4. z \in Nat /\ Cardinality(Octs(items', {k})) = z
  BY OctsOne
<1>5. A = B(D) + z
  BY <1>2, <1>3, <1>4
<1>6. Present \ (Present \ D) = D
  OBVIOUS
<1>7. B(Present) = B(D) + B(Present \ D)
  BY <1>6, OctsSplit DEF Weighed
<1>8. B(D) \in Nat /\ B(Present \ D) \in Nat
  BY <1>1, OctsFinite
<1>9. bytesUsed = B(Present) /\ bytesUsed' = bytesUsed - B(Present \ D) + z
  BY DEF Weighed, Bytes, Octets, Octs
<1>10. bytesUsed' = A
  <2>. HIDE DEF A, B, z
  <2>. QED  BY <1>4, <1>5, <1>7, <1>8, <1>9
<1>. QED  BY <1>1, <1>10 DEF Weighed, Bytes, Octets, Octs, Present

InStep == Ordered /\ Weighed

LEMMA InStepSame ==
  ASSUME InStep, UNCHANGED <<items, lru, bytesUsed, recent>>
  PROVE  InStep'
  BY DEF InStep, Ordered, Weighed, Sized, Present, Bytes, Octets

LEMMA InStepRemove ==
  ASSUME InStep, NEW D, D \subseteq Present, Remove(D), UNCHANGED recent
  PROVE  InStep'
<1>1. /\ items' = Restrict(items, Present \ D) /\ lru' = Without(lru, D)
      /\ bytesUsed' = bytesUsed - Bytes(D)
  BY DEF Remove
<1>2. DOMAIN items' = Present \ D
  BY <1>1, RestrictFacts
<1>. QED  BY <1>1, <1>2, OrderedWithout, WeighedWithout, FewPresent DEF InStep

LEMMA InStepGet ==
  ASSUME InStep, NEW k, Get(k)
  PROVE  InStep'
<1>1. CASE UNCHANGED <<items, lru, bytesUsed, recent>>
  BY <1>1, InStepSame
<1>2. CASE k \in Present /\ Remove({k}) /\ UNCHANGED recent
  BY <1>2, InStepRemove
<1>3. CASE k \in Present /\ UNCHANGED <<items, bytesUsed>>
           /\ lru' = ToFront(k, lru) /\ recent' = ToFront(k, recent)
  <2>1. Weighed'
    BY <1>3 DEF InStep, Weighed, Sized, Present, Bytes, Octets
  <2>2. DOMAIN items' = Present
    BY <1>3 DEF Present
  <2>. QED  BY <1>3, <2>1, <2>2, OrderedUsed DEF InStep
<1>. QED  BY <1>1, <1>2, <1>3 DEF Get, Miss

LEMMA InStepOverwrite ==
  ASSUME InStep, NEW k, NEW e, e.value \in Values, Overwrite(k, e), recent' = ToFront(k, recent)
  PROVE  InStep'
<1>1. /\ k \in Present /\ items' = With(items, k, e) /\ lru' = ToFront(k, lru)
      /\ bytesUsed' = bytesUsed + SizeOf[e.value] - SizeOf[items[k].value]
  BY DEF Overwrite
<1>. DEFINE D == Present \ {k}
<1>2. /\ DOMAIN items' = D \cup {k} /\ items'[k] = e /\ \A j \in D : items'[j] = items[j]
      /\ DOMAIN items' = Present
  <2>1. /\ DOMAIN With(items, k, e) = DOMAIN items \cup {k} /\ With(items, k, e)[k] = e
        /\ \A j \in DOMAIN items : j # k => With(items, k, e)[j] = items[j]
    BY DEF With
  <2>. QED  BY <1>1, <2>1 DEF Present
<1>3. Bytes({k}) = SizeOf[items[k].value] /\ SizeOf[items[k].value] \in Nat
  BY <1>1, OctsOne DEF InStep, Weighed, Sized, Bytes, Octets, Octs
<1>4. Present \ D = {k} /\ D \subseteq Present /\ k \notin D
  BY <1>1
<1>5. bytesUsed \in Nat /\ SizeOf[e.value] \in Nat
  <2>1. IsFiniteSet(Present) /\ Sized(items, Present)
    BY FewPresent DEF InStep, Weighed
  <2>2. bytesUsed \in Nat
    BY <2>1, OctsFinite DEF InStep, Weighed, Bytes, Octets, Octs
  <2>. QED  BY <2>2, CacheAssumption DEF CacheAssumption
<1>6. bytesUsed' = bytesUsed - Bytes(Present \ D) + SizeOf[e.value]
  <2>1. Bytes(Present \ D) = Bytes({k})
    BY <1>4
  <2>. QED  BY <1>1, <1>3, <1>5, <2>1
<1>. HIDE DEF D
<1>7. Weighed'
  BY <1>2, <1>4, <1>6, FewPresent, WeighedWith DEF InStep
<1>8. Ordered'
  BY <1>1, <1>2, OrderedUsed DEF InStep
<1>. QED  BY <1>7, <1>8 DEF InStep

LEMMA InsertFacts ==
  ASSUME Ordered, NEW k, NEW e, Insert(k, e)
  PROVE  /\ k \notin Present
         /\ DOMAIN items' = (Present \ Victims) \cup {k} /\ items'[k] = e
         /\ \A j \in Present \ Victims : items'[j] = items[j]
<1>1. k \notin Present /\ items' = With(Restrict(items, Present \ Victims), k, e)
  BY DEF Insert
<1>2. PICK r : r = Restrict(items, Present \ Victims)
  OBVIOUS
<1>3. DOMAIN r = Present \ Victims /\ \A j \in Present \ Victims : r[j] = items[j]
  BY <1>2, RestrictFacts
<1>4. items' = With(r, k, e)
  BY <1>1, <1>2
<1>5. /\ DOMAIN With(r, k, e) = DOMAIN r \cup {k} /\ With(r, k, e)[k] = e
      /\ \A j \in DOMAIN r : j # k => With(r, k, e)[j] = r[j]
  BY DEF With
<1>6. \A j \in Present \ Victims : j # k
  BY <1>1
<1>. QED  BY <1>1, <1>3, <1>4, <1>5, <1>6

LEMMA InStepInsert ==
  ASSUME InStep, NEW k, NEW e, e.value \in Values, Insert(k, e), recent' = ToFront(k, recent)
  PROVE  InStep'
<1>. DEFINE D == Present \ Victims
<1>1. /\ lru' = ToFront(k, Without(lru, Victims))
      /\ bytesUsed' = bytesUsed - Bytes(Victims) + SizeOf[e.value]
  BY DEF Insert
<1>2. /\ k \notin Present /\ DOMAIN items' = D \cup {k} /\ items'[k] = e
      /\ \A j \in D : items'[j] = items[j]
  BY InsertFacts DEF InStep
<1>3. Ordered'
  BY <1>1, <1>2, OrderedInsert DEF InStep
<1>4. Present \ D = Victims /\ D \subseteq Present /\ k \notin D
  BY <1>2, VictimsFacts DEF InStep
<1>5. bytesUsed' = bytesUsed - Bytes(Present \ D) + SizeOf[e.value]
  BY <1>1, <1>4
<1>. HIDE DEF D
<1>6. Weighed'
  BY <1>2, <1>4, <1>5, FewPresent, WeighedWith DEF InStep
<1>. QED  BY <1>3, <1>6 DEF InStep

LEMMA InStepSet ==
  ASSUME InStep, NEW k, NEW v \in Values, NEW ttl, Set(k, v, ttl)
  PROVE  InStep'
<1>1. Entry(v, ttl).value \in Values
  BY DEF Entry
<1>2. PICK e : e = Entry(v, ttl)
  OBVIOUS
<1>. QED  BY <1>1, <1>2, InStepOverwrite, InStepInsert DEF Set

LEMMA NothingRanked ==
  ASSUME NEW r, List(r)
  PROVE  /\ Ranked(<< >>, r, {}) /\ Cardinality({}) <= MaxSize
         /\ Cardinality(UNION {}) = 0 /\ DOMAIN << >> = {}
<1>1. DOMAIN << >> = {}
  OBVIOUS
<1>2. List(<< >>)
  <2>1. DOMAIN << >> = 1..0 /\ << >> = [m \in 1..0 |-> << >>[m]]
    BY <1>1
  <2>. QED  BY <2>1 DEF List
<1>3. Range(<< >>) = {}
  BY <1>1 DEF Range
<1>4. Ranked(<< >>, r, {})
  BY <1>1, <1>2, <1>3 DEF Ranked, Once, Before
<1>5. UNION {} = {}
  OBVIOUS
<1>6. Cardinality({}) = 0
  BY FS_EmptySet
<1>7. MaxSize \in Nat
  BY CacheAssumption DEF CacheAssumption
<1>8. Cardinality({}) <= MaxSize
  BY <1>6, <1>7
<1>. QED  BY <1>1, <1>4, <1>5, <1>6, <1>8

LEMMA InStepInit == CacheInit => InStep
<1>. SUFFICES ASSUME CacheInit PROVE InStep
  OBVIOUS
<1>1. items = << >> /\ lru = << >> /\ recent = << >> /\ bytesUsed = 0
  BY DEF CacheInit
<1>2. List(recent)
  BY <1>1 DEF List
<1>3. Present = {} /\ Octets(Present) = {}
  BY <1>1, NothingRanked DEF Present, Octets
<1>. QED  BY <1>1, <1>2, <1>3, NothingRanked DEF InStep, Ordered, Weighed, Sized, Bytes

LEMMA InStepRest ==
  ASSUME InStep, Clock \/ Cleanup \/ Clear \/ \E k : Delete(k)
  PROVE  InStep'
<1>1. CASE Clock
  BY <1>1, InStepSame DEF Clock
<1>2. CASE Cleanup
  <2>. DEFINE D == {k \in Present : Expired(k)}
  <2>1. D \subseteq Present /\ Remove(D) /\ UNCHANGED recent
    BY <1>2 DEF Cleanup
  <2>. HIDE DEF D
  <2>. QED  BY <2>1, InStepRemove
<1>3. CASE Clear
  <2>1. items' = << >> /\ lru' = << >> /\ bytesUsed' = 0 /\ UNCHANGED recent /\ List(recent)
    BY <1>3 DEF Clear, InStep, Ordered, Ranked
  <2>2. Present' = {} /\ Octets(Present)' = {}
    BY <2>1, NothingRanked DEF Present, Octets
  <2>3. Ordered'
    BY <2>1, <2>2, NothingRanked DEF Ordered
  <2>4. Weighed'
    BY <2>1, <2>2, FS_EmptySet DEF Weighed, Sized, Bytes
  <2>. QED  BY <2>3, <2>4 DEF InStep
<1>4. ASSUME NEW k, Delete(k) PROVE InStep'
  <2>. DEFINE D == {k} \cap Present
  <2>1. D \subseteq Present /\ Remove(D) /\ UNCHANGED recent
    BY <1>4 DEF Delete
  <2>. HIDE DEF D
  <2>. QED  BY <2>1, InStepRemove
<1>. QED  BY <1>1, <1>2, <1>3, <1>4

-----------------------------------------------------------------------------
(* Hits and misses *)

Debtors(o, S) == {c \in Callers : o[c] \cap S # {}}

Owing ==
  /\ owes = [c \in Callers |-> owes[c]]
  /\ \A c \in Callers : owes[c] = {} \/ \E n \in Counters : owes[c] = {n}
  /\ IsFiniteSet(Debtors(owes, Counters))
  /\ count \in [Counters -> Nat]

Hits == {"queryHits", "schemaHits"}
Misses == {"queryMisses", "schemaMisses"}

Balanced ==
  /\ undecoded \in Nat
  /\ hits = count["queryHits"] + count["schemaHits"] + Cardinality(Debtors(owes, Hits)) + undecoded
  /\ misses = count["queryMisses"] + count["schemaMisses"] + Cardinality(Debtors(owes, Misses))

Tallied == Owing /\ Balanced

LEMMA DebtorsFinite ==
  ASSUME Owing, NEW S, S \subseteq Counters
  PROVE  IsFiniteSet(Debtors(owes, S)) /\ Cardinality(Debtors(owes, S)) \in Nat
<1>1. Debtors(owes, S) \in SUBSET Debtors(owes, Counters)
  BY DEF Debtors
<1>2. IsFiniteSet(Debtors(owes, S))
  BY <1>1, FS_Subset DEF Owing
<1>. QED  BY <1>2, FS_CardinalityType

\* A caller that owed nothing owes one count more.
LEMMA DebtGrows ==
  ASSUME Owing, NEW c \in Callers, owes[c] = {}, NEW n \in Counters,
         owes' = [owes EXCEPT ![c] = {n}], NEW S, S \subseteq Counters
  PROVE  /\ IsFiniteSet(Debtors(owes', S))
         /\ Cardinality(Debtors(owes', S))
              = Cardinality(Debtors(owes, S)) + IF n \in S THEN 1 ELSE 0
<1>1. /\ owes'[c] = {n} /\ \A d \in Callers : d # c => owes'[d] = owes[d]
  BY DEF Owing
<1>2. IsFiniteSet(Debtors(owes, S)) /\ Cardinality(Debtors(owes, S)) \in Nat
  BY DebtorsFinite
<1>3. CASE n \in S
  <2>1. Debtors(owes', S) = Debtors(owes, S) \cup {c} /\ c \notin Debtors(owes, S)
    BY <1>1, <1>3 DEF Debtors
  <2>2. /\ IsFiniteSet(Debtors(owes, S) \cup {c})
        /\ Cardinality(Debtors(owes, S) \cup {c}) = Cardinality(Debtors(owes, S)) + 1
    BY <1>2, <2>1, FS_AddElement
  <2>. QED  BY <1>3, <2>1, <2>2
<1>4. CASE n \notin S
  <2>1. Debtors(owes', S) = Debtors(owes, S)
    BY <1>1, <1>4 DEF Debtors
  <2>. QED  BY <1>2, <1>4, <2>1
<1>. QED  BY <1>3, <1>4

\* It has counted.
LEMMA DebtShrinks ==
  ASSUME Owing, NEW c \in Callers, NEW n \in owes[c],
         owes' = [owes EXCEPT ![c] = {}], NEW S, S \subseteq Counters
  PROVE  /\ IsFiniteSet(Debtors(owes', S))
         /\ Cardinality(Debtors(owes', S))
              = Cardinality(Debtors(owes, S)) - IF n \in S THEN 1 ELSE 0
<1>1. /\ owes'[c] = {} /\ \A d \in Callers : d # c => owes'[d] = owes[d]
      /\ owes[c] = {n}
  BY DEF Owing
<1>2. IsFiniteSet(Debtors(owes, S)) /\ Cardinality(Debtors(owes, S)) \in Nat
  BY DebtorsFinite
<1>3. CASE n \in S
  <2>1. Debtors(owes', S) = Debtors(owes, S) \ {c} /\ c \in Debtors(owes, S)
    BY <1>1, <1>3 DEF Debtors
  <2>2. /\ IsFiniteSet(Debtors(owes, S) \ {c})
        /\ Cardinality(Debtors(owes, S) \ {c}) = Cardinality(Debtors(owes, S)) - 1
    BY <1>2, <2>1, FS_RemoveElement
  <2>. QED  BY <1>3, <2>1, <2>2
<1>4. CASE n \notin S
  <2>1. Debtors(owes', S) = Debtors(owes, S)
    BY <1>1, <1>4 DEF Debtors
  <2>. QED  BY <1>2, <1>4, <2>1
<1>. QED  BY <1>3, <1>4

LEMMA TalliedSame ==
  ASSUME Tallied, UNCHANGED <<hits, misses, count, owes, undecoded>>
  PROVE  Tallied'
  BY DEF Tallied, Owing, Balanced, Debtors

LEMMA TalliedCount ==
  ASSUME Tallied, NEW c \in Callers, Count(c)
  PROVE  Tallied'
<1>1. PICK n \in owes[c] : count' = [count EXCEPT ![n] = @ + 1]
  BY DEF Count
<1>2. owes' = [owes EXCEPT ![c] = {}] /\ UNCHANGED <<hits, misses, undecoded>>
  BY DEF Count, mcvars, stats
<1>3. n \in Counters
  BY <1>1 DEF Tallied, Owing
<1>4. Hits \subseteq Counters /\ Misses \subseteq Counters
  BY DEF Hits, Misses, Counters
<1>5. Owing'
  <2>1. IsFiniteSet(Debtors(owes', Counters))
    BY <1>1, <1>2, DebtShrinks DEF Tallied
  <2>2. count' \in [Counters -> Nat]
    BY <1>1, <1>3 DEF Tallied, Owing
  <2>. QED  BY <1>2, <2>1, <2>2 DEF Tallied, Owing
<1>6. /\ Cardinality(Debtors(owes', Hits)) = Cardinality(Debtors(owes, Hits)) - IF n \in Hits THEN 1 ELSE 0
      /\ Cardinality(Debtors(owes', Misses)) = Cardinality(Debtors(owes, Misses)) - IF n \in Misses THEN 1 ELSE 0
  BY <1>1, <1>2, <1>4, DebtShrinks DEF Tallied
<1>7. Cardinality(Debtors(owes, Hits)) \in Nat /\ Cardinality(Debtors(owes, Misses)) \in Nat
  BY <1>4, DebtorsFinite DEF Tallied
<1>8. /\ count \in [Counters -> Nat]
      /\ undecoded \in Nat
      /\ hits = count["queryHits"] + count["schemaHits"] + Cardinality(Debtors(owes, Hits)) + undecoded
      /\ misses = count["queryMisses"] + count["schemaMisses"] + Cardinality(Debtors(owes, Misses))
  BY DEF Tallied, Owing, Balanced
<1>9. Balanced'
  <2>. DEFINE h == Cardinality(Debtors(owes, Hits))
              m == Cardinality(Debtors(owes, Misses))
              hh == Cardinality(Debtors(owes', Hits))
              mm == Cardinality(Debtors(owes', Misses))
  <2>1. /\ hh = h - (IF n \in Hits THEN 1 ELSE 0) /\ mm = m - (IF n \in Misses THEN 1 ELSE 0)
        /\ h \in Nat /\ m \in Nat
        /\ undecoded \in Nat /\ hits = count["queryHits"] + count["schemaHits"] + h + undecoded
        /\ misses = count["queryMisses"] + count["schemaMisses"] + m
    BY <1>6, <1>7, <1>8
  <2>. HIDE DEF h, m, hh, mm
  <2>2. /\ \A j \in Counters : count'[j] = IF j = n THEN count[j] + 1 ELSE count[j]
        /\ \A j \in Counters : count[j] \in Nat
    BY <1>1, <1>3, <1>8
  <2>3. /\ hits = count'["queryHits"] + count'["schemaHits"] + hh + undecoded
        /\ misses = count'["queryMisses"] + count'["schemaMisses"] + mm
    <3>1. CASE n \in Hits
      BY <2>1, <2>2, <3>1 DEF Hits, Misses, Counters
    <3>2. CASE n \in Misses
      BY <2>1, <2>2, <3>2 DEF Hits, Misses, Counters
    <3>. QED  BY <1>3, <3>1, <3>2 DEF Hits, Misses, Counters
  <2>. QED  BY <1>2, <1>8, <2>3 DEF Balanced, hh, mm
<1>. QED  BY <1>5, <1>9 DEF Tallied

LookedUp ==
  \/ answer'[2] \in Values /\ hits' = hits + 1 /\ misses' = misses
  \/ answer'[2] \notin Values /\ misses' = misses + 1 /\ hits' = hits

LEMMA TalliedLookup ==
  ASSUME Tallied, NEW c \in Callers, owes[c] = {}, LookedUp, NEW hit \in Hits, NEW miss \in Misses,
         owes' = [owes EXCEPT ![c] = {IF answer'[2] \in Values THEN hit ELSE miss}],
         UNCHANGED <<count, undecoded>>
  PROVE  Tallied'
<1>. DEFINE n == IF answer'[2] \in Values THEN hit ELSE miss
<1>1. Hits \subseteq Counters /\ Misses \subseteq Counters /\ Hits \cap Misses = {}
  BY DEF Hits, Misses, Counters
<1>2. n \in Counters /\ owes' = [owes EXCEPT ![c] = {n}]
  BY <1>1
<1>3. \/ n \in Hits /\ n \notin Misses /\ hits' = hits + 1 /\ misses' = misses
      \/ n \in Misses /\ n \notin Hits /\ misses' = misses + 1 /\ hits' = hits
  BY <1>1 DEF LookedUp
<1>. HIDE DEF n
<1>4. Owing'
  <2>1. IsFiniteSet(Debtors(owes', Counters))
    BY <1>2, DebtGrows DEF Tallied
  <2>. QED  BY <1>2, <2>1 DEF Tallied, Owing
<1>5. /\ Cardinality(Debtors(owes', Hits)) = Cardinality(Debtors(owes, Hits)) + IF n \in Hits THEN 1 ELSE 0
      /\ Cardinality(Debtors(owes', Misses)) = Cardinality(Debtors(owes, Misses)) + IF n \in Misses THEN 1 ELSE 0
  BY <1>1, <1>2, DebtGrows DEF Tallied
<1>6. Cardinality(Debtors(owes, Hits)) \in Nat /\ Cardinality(Debtors(owes, Misses)) \in Nat
  BY <1>1, DebtorsFinite DEF Tallied
<1>7. /\ count \in [Counters -> Nat]
      /\ undecoded \in Nat
      /\ hits = count["queryHits"] + count["schemaHits"] + Cardinality(Debtors(owes, Hits)) + undecoded
      /\ misses = count["queryMisses"] + count["schemaMisses"] + Cardinality(Debtors(owes, Misses))
  BY DEF Tallied, Owing, Balanced
<1>8. \A m \in Counters : count[m] \in Nat
  BY <1>7
<1>9. Balanced'
  BY <1>3, <1>5, <1>6, <1>7, <1>8 DEF Balanced, Counters
<1>. QED  BY <1>4, <1>9 DEF Tallied

\* A hit that does not decode.
LEMMA TalliedUndecoded ==
  ASSUME Tallied, hits' = hits + 1, misses' = misses, undecoded' = undecoded + 1,
         UNCHANGED <<count, owes>>
  PROVE  Tallied'
<1>. DEFINE h == Cardinality(Debtors(owes, Hits))
            m == Cardinality(Debtors(owes, Misses))
<1>1. Owing' /\ Debtors(owes', Hits) = Debtors(owes, Hits) /\ Debtors(owes', Misses) = Debtors(owes, Misses)
  BY DEF Tallied, Owing, Debtors
<1>2. h \in Nat
  BY DebtorsFinite DEF Tallied, Hits, Counters
<1>3. /\ count \in [Counters -> Nat] /\ undecoded \in Nat
      /\ hits = count["queryHits"] + count["schemaHits"] + h + undecoded
      /\ misses = count["queryMisses"] + count["schemaMisses"] + m
  BY DEF Tallied, Owing, Balanced
<1>. HIDE DEF h, m
<1>4. /\ undecoded' \in Nat
      /\ hits' = count'["queryHits"] + count'["schemaHits"] + h + undecoded'
      /\ misses' = count'["queryMisses"] + count'["schemaMisses"] + m
  BY <1>2, <1>3 DEF Counters
<1>. QED  BY <1>1, <1>4 DEF Tallied, Balanced, h, m

-----------------------------------------------------------------------------
(* What is counted twice *)

Accounts == InStep /\ Tallied

LEMMA AccountsAgreeThen == Accounts => AccountsAgree
<1>1. Owed(Hits) = Cardinality(Debtors(owes, Hits)) /\ Owed(Misses) = Cardinality(Debtors(owes, Misses))
  BY DEF Owed, Debtors
<1>. QED  BY <1>1, StructuresFollow
     DEF Accounts, InStep, Tallied, Balanced, Hits, Misses, AccountsAgree

LEMMA AccountsInit == Init => Accounts
<1>. SUFFICES ASSUME Init PROVE Accounts
  OBVIOUS
<1>1. InStep
  BY InStepInit DEF Init
<1>2. \A S : Debtors(owes, S) = {}
  BY DEF Debtors, Init
<1>3. IsFiniteSet({}) /\ Cardinality({}) = 0
  BY FS_EmptySet
<1>4. count["queryHits"] = 0 /\ count["schemaHits"] = 0 /\ count["queryMisses"] = 0
      /\ count["schemaMisses"] = 0
  BY DEF Init, Counters
<1>5. Owing
  BY <1>2, <1>3 DEF Owing, Init
<1>6. Balanced
  <2>1. hits = 0 /\ misses = 0 /\ undecoded = 0
    BY DEF Init, CacheInit
  <2>2. Cardinality(Debtors(owes, Hits)) = 0 /\ Cardinality(Debtors(owes, Misses)) = 0
    BY <1>2, <1>3
  <2>. QED  BY <1>4, <2>1, <2>2 DEF Balanced
<1>. QED  BY <1>1, <1>5, <1>6 DEF Accounts, Tallied

\* Calls that look nothing up.
LEMMA AccountsCalls ==
  ASSUME Accounts, Counted, UNCHANGED <<hits, misses>>, InStep'
  PROVE  Accounts'
  BY TalliedSame DEF Accounts, Counted

LEMMA InStepRedis ==
  ASSUME InStep, UNCHANGED inMemory
  PROVE  InStep'
  BY InStepSame DEF inMemory

LEMMA AccountsLookup ==
  ASSUME Inv, Accounts, NEW c \in Callers, NEW k, NEW hit \in Hits, NEW miss \in Misses,
         NEW refused, refused \subseteq Values, Lookup(c, k, refused, hit, miss)
  PROVE  Accounts'
<1>. USE ManagerAssumption DEF ManagerAssumption
<1>1. LookedUp /\ InStep'
  <2>1. CASE Get(k)
    <3>1. k \in Present => items[k].value \in Values
      BY DEF Accounts, InStep, Weighed, Sized
    <3>2. LookedUp
      BY <2>1, <3>1 DEF Get, Miss, LookedUp
    <3>. QED  BY <2>1, <3>2, InStepGet DEF Accounts
  <2>2. CASE backend = "redis" /\ Redis!Get(c, k) /\ UNCHANGED inMemory
    <3>1. k \in DOMAIN store => store[k].value \in Values
      BY <2>2 DEF Inv, RedisHolds, Types
    <3>2. LookedUp
      BY <2>2, <3>1 DEF Redis!Get, Redis!Present, LookedUp
    <3>. QED  BY <2>2, <3>2, InStepRedis DEF Accounts
  <2>. QED  BY <2>1, <2>2 DEF Lookup, Cache
<1>2. CASE answer'[2] \in refused
  <2>1. undecoded' = undecoded + 1 /\ UNCHANGED <<count, owes>>
    BY <1>2 DEF Lookup
  <2>2. hits' = hits + 1 /\ misses' = misses
    BY <1>1, <1>2 DEF LookedUp
  <2>. QED  BY <1>1, <2>1, <2>2, TalliedUndecoded DEF Accounts
<1>3. CASE answer'[2] \notin refused
  <2>1. /\ owes[c] = {} /\ UNCHANGED <<count, undecoded>>
        /\ owes' = [owes EXCEPT ![c] = {IF answer'[2] \in Values THEN hit ELSE miss}]
    BY <1>3 DEF Lookup
  <2>. QED  BY <1>1, <2>1, TalliedLookup DEF Accounts
<1>. QED  BY <1>2, <1>3

LEMMA AccountsStore ==
  ASSUME Accounts, NEW c \in Callers, NEW k, NEW v \in Values, NEW ttl, Store(c, k, v, ttl)
  PROVE  Accounts'
<1>1. Counted /\ (Set(k, v, ttl) \/ (Redis!Set(c, k, v, ttl) /\ UNCHANGED inMemory))
  BY DEF Store, Cache
<1>2. UNCHANGED <<hits, misses>>
  BY <1>1 DEF Set, Redis!Set, Redis!counters
<1>3. InStep'
  BY <1>1, InStepSet, InStepRedis DEF Accounts
<1>. QED  BY <1>1, <1>2, <1>3, AccountsCalls

LEMMA AccountsDelete ==
  ASSUME Accounts, NEW c \in Callers, NEW k, DeleteKey(c, k)
  PROVE  Accounts'
<1>1. Counted /\ (Delete(k) \/ (Redis!Delete(c, k) /\ UNCHANGED inMemory))
  BY DEF DeleteKey, Cache
<1>2. UNCHANGED <<hits, misses>>
  BY <1>1 DEF Delete, stats, Redis!Delete, Redis!counters
<1>3. InStep'
  BY <1>1, InStepRest, InStepRedis DEF Accounts
<1>. QED  BY <1>1, <1>2, <1>3, AccountsCalls

LEMMA AccountsRest ==
  ASSUME Accounts, Time \/ CleanupLoop \/ \E c \in Callers : ClearAll(c)
  PROVE  Accounts'
<1>1. /\ Counted
      /\ \/ Clock \/ Cleanup \/ Clear
         \/ UNCHANGED inMemory /\ (Redis!Clock \/ \E c \in Callers : Redis!Clear(c))
  BY DEF Time, CleanupLoop, ClearAll, Cache
<1>2. UNCHANGED <<hits, misses>>
  BY <1>1 DEF Clock, Cleanup, Clear, stats, Redis!Clock, Redis!Clear, Redis!Sweep, Redis!Begins,
              Redis!counters
<1>3. InStep'
  BY <1>1, InStepRest, InStepRedis DEF Accounts
<1>. QED  BY <1>1, <1>2, <1>3, AccountsCalls

LEMMA AccountsRedisOnly ==
  ASSUME Accounts, NEW c \in Callers, RedisOnly(c)
  PROVE  Accounts'
<1>1. /\ Counted /\ UNCHANGED inMemory
      /\ \/ Redis!Command(c)
         \/ \E p : Redis!InvalidatePattern(c, p)
         \/ \E t : Redis!InvalidateTag(c, t)
         \/ \E k, v, ttl, tags : Redis!SetWithTags(c, k, v, ttl, tags)
  BY DEF RedisOnly, Cache
<1>2. CASE Redis!Command(c)
  <2>1. UNCHANGED <<hits, misses>>
    BY <1>2 DEF Redis!Command, Redis!Scan, Redis!DelPage, Redis!SetTagged, Redis!SAdd, Redis!Expire,
                Redis!Stored, Redis!DelKeys, Redis!DelTag, Redis!Breaks, Redis!Within, Redis!counters
  <2>. QED  BY <1>1, <2>1, InStepRedis, AccountsCalls DEF Accounts
<1>3. CASE UNCHANGED <<hits, misses>>
  BY <1>1, <1>3, InStepRedis, AccountsCalls DEF Accounts
<1>4. ASSUME NEW s, Redis!Begins(c, s) PROVE UNCHANGED <<hits, misses>>
  BY <1>4 DEF Redis!Begins, Redis!counters
<1>. QED
  BY <1>1, <1>2, <1>3, <1>4
     DEF Redis!InvalidatePattern, Redis!Sweep, Redis!InvalidateTag, Redis!SetWithTags

LEMMA AccountsNext ==
  ASSUME Inv, Accounts, [Next]_vars
  PROVE  Accounts'
<1>1. CASE UNCHANGED vars
  <2>1. UNCHANGED <<items, lru, bytesUsed, recent, hits, misses, count, owes, undecoded>>
    BY <1>1 DEF vars, mcvars, stats
  <2>. QED  BY <2>1, InStepSame, TalliedSame DEF Accounts
<1>2. backend \in {"memory", "redis"} /\ ValuesOver[backend] \subseteq Values
  BY ManagerAssumption DEF ManagerAssumption, Inv, Types
<1>3. ASSUME NEW c \in Callers, NEW k, NEW v \in ValuesOver[backend], NEW ttl,
             SetQueryResult(c, k, v, ttl) \/ SetSchema(c, k, v)
      PROVE  Accounts'
  <2>1. v \in Values
    BY <1>2
  <2>. QED  BY <1>3, <2>1, AccountsStore DEF SetQueryResult, SetSchema
<1>4. ASSUME NEW c \in Callers, NEW k, GetQueryResult(c, k) \/ GetSchema(c, k) PROVE Accounts'
  BY <1>4, ManagerAssumption, AccountsLookup
     DEF ManagerAssumption, GetQueryResult, GetSchema, Hits, Misses
<1>5. ASSUME NEW c \in Callers, NEW t, InvalidateTable(c, t) PROVE Accounts'
  BY <1>5, AccountsDelete DEF InvalidateTable
<1>6. ASSUME NEW c \in Callers, NEW k, DeleteKey(c, k) PROVE Accounts'
  BY <1>6, AccountsDelete
<1>7. ASSUME NEW c \in Callers, Count(c) PROVE Accounts'
  <2>1. UNCHANGED <<items, lru, bytesUsed, recent>>
    BY <1>7 DEF Count, mcvars
  <2>. QED  BY <1>7, <2>1, InStepSame, TalliedCount DEF Accounts
<1>. QED  BY <1>1, <1>3, <1>4, <1>5, <1>6, <1>7, AccountsRest, AccountsRedisOnly DEF Next

\* Through hits, misses, overwrites, evictions, expiry, deletes and clears, by any number
\* of callers over either backend, the list, the map and the byte count of the memory
\* cache stay in step, and the manager's counts and those of the cache differ by exactly
\* the lookups whose caller has still to count and the hits on values that do not decode,
\* which no counter of the manager sees.
THEOREM CountsAgree == Spec => []AccountsAgree
<1>1. Init => Inv /\ Accounts
  BY InvInit, AccountsInit
<1>2. Inv /\ Accounts /\ [Next]_vars => (Inv /\ Accounts)'
  BY InvNext, AccountsNext
<1>3. Inv /\ Accounts => AccountsAgree
  BY AccountsAgreeThen
<1>. QED  BY <1>1, <1>2, <1>3, PTL DEF Spec

-----------------------------------------------------------------------------
(* Evictions *)

OutBeforeIn ==
  evictions' > evictions =>
       \A out \in Present \ DOMAIN items', in \in Present \cap DOMAIN items' :
         \E m, n \in DOMAIN recent : recent[m] = in /\ recent[n] = out /\ m < n

LEMMA InsertEvicts ==
  ASSUME Ordered, NEW k, NEW e, Insert(k, e)
  PROVE  OutBeforeIn
<1>1. k \notin Present /\ DOMAIN items' = (Present \ Victims) \cup {k}
  BY InsertFacts
<1>. SUFFICES ASSUME NEW out \in Present \ DOMAIN items', NEW in \in Present \cap DOMAIN items'
              PROVE  \E m, n \in DOMAIN recent : recent[m] = in /\ recent[n] = out /\ m < n
  BY DEF OutBeforeIn
<1>2. out \in Victims /\ in \in Present \ Victims
  BY <1>1
<1>3. Before(lru, in, out)
  BY <1>2, VictimsFacts
<1>4. Before(recent, in, out)
  BY <1>3 DEF Ordered, Ranked
<1>. QED  BY <1>4 DEF Before

LEMMA OnlyInsertsEvict ==
  ASSUME [Next]_vars
  PROVE  UNCHANGED evictions \/ \E k, e : Insert(k, e)
<1>1. CASE UNCHANGED vars
  BY <1>1 DEF vars, mcvars, stats
<1>2. ASSUME NEW k PROVE Get(k) \/ Delete(k) => UNCHANGED evictions
  BY DEF Get, Miss, Delete, stats
<1>3. Clock \/ Clear \/ Cleanup => UNCHANGED evictions
  BY DEF Clock, Clear, Cleanup, stats
<1>4. ASSUME NEW c, NEW k, NEW v, NEW ttl, Store(c, k, v, ttl)
      PROVE  UNCHANGED evictions \/ \E j, e : Insert(j, e)
  BY <1>4 DEF Store, Cache, inMemory, Set, Overwrite
<1>5. ASSUME NEW c, \/ Count(c) \/ ClearAll(c) \/ RedisOnly(c)
                    \/ \E k : DeleteKey(c, k) \/ \E refused, hit, miss : Lookup(c, k, refused, hit, miss)
      PROVE  UNCHANGED evictions
  <2>1. CASE Count(c)
    BY <2>1 DEF Count, mcvars, stats
  <2>2. CASE ClearAll(c)
    BY <1>3, <2>2 DEF ClearAll, Cache, inMemory
  <2>3. CASE RedisOnly(c)
    BY <2>3 DEF RedisOnly, Cache, inMemory
  <2>4. CASE \E k : DeleteKey(c, k) \/ \E refused, hit, miss : Lookup(c, k, refused, hit, miss)
    BY <1>2, <2>4 DEF DeleteKey, Lookup, Cache, inMemory
  <2>. QED  BY <1>5, <2>1, <2>2, <2>3, <2>4
<1>6. CASE Time \/ CleanupLoop
  BY <1>3, <1>6 DEF Time, CleanupLoop, Cache, inMemory
<1>. QED
  BY <1>1, <1>4, <1>5, <1>6
     DEF Next, InvalidateTable, GetSchema, SetSchema, GetQueryResult, SetQueryResult

\* A key gives way only to keys that were used after it.
THEOREM OldestGivesWay == Spec => EvictsLeastRecent
<1>. DEFINE I == Inv /\ Accounts /\ evictions \in Nat
<1>1. Init => I
  BY InvInit, AccountsInit DEF Init, CacheInit
<1>2. I /\ [Next]_vars => I'
  <2>. SUFFICES ASSUME I, [Next]_vars PROVE evictions' \in Nat
    BY InvNext, AccountsNext
  <2>1. ASSUME NEW k, NEW e, Insert(k, e) PROVE evictions' \in Nat
    <3>1. Victims \subseteq Present /\ IsFiniteSet(Present)
      BY VictimsFacts, FewPresent DEF Accounts, InStep
    <3>2. IsFiniteSet(Victims)
      BY <3>1, FS_Subset
    <3>3. Cardinality(Victims) \in Nat
      BY <3>2, FS_CardinalityType
    <3>. QED  BY <2>1, <3>3 DEF Insert
  <2>. QED  BY <2>1, OnlyInsertsEvict
<1>3. I /\ [Next]_vars => OutBeforeIn
  <2>. SUFFICES ASSUME I, [Next]_vars PROVE OutBeforeIn
    OBVIOUS
  <2>1. CASE UNCHANGED evictions
    <3>1. ~(evictions' > evictions)
      BY <2>1
    <3>. QED  BY <3>1 DEF OutBeforeIn
  <2>2. ASSUME NEW k, NEW e, Insert(k, e) PROVE OutBeforeIn
    BY <2>2, InsertEvicts DEF Accounts, InStep
  <2>. QED  BY <2>1, <2>2, OnlyInsertsEvict
<1>4. I /\ [Next]_vars => [OutBeforeIn]_mcvars
  BY <1>3
<1>. HIDE DEF I
<1>5. Spec => [][OutBeforeIn]_mcvars
  BY <1>1, <1>2, <1>4, PTL DEF Spec
<1>. QED  BY <1>5, PTL DEF EvictsLeastRecent, OutBeforeIn

-----------------------------------------------------------------------------
(* Redis: tags *)

\* The tags a call has added its key to and written the lifetime of, and the one it has
\* only added it to; its key counts until another call sets it.
Done(s, k, t) ==
  s.op \in {"sadd", "expire"} /\ k \in s.mine /\ \E n \in DOMAIN s.tags : n < s.next /\ t = s.tags[n]
Current(s, k, t) == s.op = "expire" /\ k \in s.mine /\ t = s.tags[s.next]

Live(k, t) == <<k, t>> \in promised \/ \E c \in Callers : Done(call[c], k, t)
Pending(k, t) == \E c \in Callers : Current(call[c], k, t)
Tied(k, t) == Live(k, t) \/ Pending(k, t)

\* What the tag sets hold of the values whose tags nothing has parted from them: a set
\* names a value and outlives it, or names it until its lifetime is written.
There(k, t) == k \in DOMAIN store /\ <<k, t>> \notin parted
Covered ==
  \A k, t :
    /\ Live(k, t) /\ There(k, t) => k \in members[t] /\ store[k].exp <= tagExp[t]
    /\ Pending(k, t) /\ There(k, t) => k \in members[t]

WellFormed(s) ==
  /\ s.op \in {"set", "sadd", "expire"} => s.ttl \in Nat /\ s.tags \in Seq(Tags)
  /\ s.op \in {"sadd", "expire"} => s.next \in Nat \ {0} /\ s.mine \subseteq {s.key}
  /\ s.op = "expire" => s.next \in DOMAIN s.tags
  /\ s.op \in {"delkeys", "deltag"} => s.tag \in Tags

\* An invalidation knows the members of its set but for those that were added since;
\* when it has deleted what it knew, only those are left.
Read(s) ==
  /\ s.op = "delkeys" => members[s.tag] \subseteq s.keys \cup s.added
  /\ s.op = "deltag" =>
       \A k \in DOMAIN store \cap members[s.tag] :
         Tied(k, s.tag) => k \in s.added

TagSets ==
  /\ members = [t \in Tags |-> members[t]]
  /\ tagExp = [t \in Tags |-> tagExp[t]] /\ \A t \in Tags : tagExp[t] \in Int
Pairs == \A p \in promised : p = <<p[1], p[2]>> /\ p[2] \in Tags

Tagged ==
  /\ TagSets /\ Pairs /\ Covered
  /\ \A c \in Callers : WellFormed(call[c]) /\ Read(call[c])

TagInv == IF backend = "redis" THEN Tagged ELSE promised = {}

\* A call that has not come to its tags yet.
Fresh(s) == s.op # "expire" /\ (s.op = "sadd" => s.next = 1)

\* A call goes on without having added anything more, or others set its key.
Follows(s, r) ==
  \/ r = s
  \/ WellFormed(r) /\ Fresh(r)
  \/ /\ s.op \in {"sadd", "expire"} /\ r.op = s.op /\ r.key = s.key /\ r.ttl = s.ttl
     /\ r.tags = s.tags /\ r.next = s.next /\ r.mine \subseteq s.mine

LEMMA FollowsFacts ==
  ASSUME NEW s, NEW r, Follows(s, r), WellFormed(s)
  PROVE  /\ WellFormed(r)
         /\ \A k, t : (Done(r, k, t) => Done(s, k, t)) /\ (Current(r, k, t) => Current(s, k, t))
<1>1. CASE r = s
  BY <1>1
<1>2. CASE WellFormed(r) /\ Fresh(r)
  <2>1. ASSUME NEW k, NEW t, Done(r, k, t) PROVE FALSE
    <3>1. r.op = "sadd" /\ r.next = 1 /\ r.tags \in Seq(Tags)
      BY <1>2, <2>1 DEF Fresh, Done, WellFormed
    <3>2. \A n \in DOMAIN r.tags : ~(n < 1)
      BY <3>1
    <3>. QED  BY <2>1, <3>1, <3>2 DEF Done
  <2>2. \A k, t : ~Current(r, k, t)
    BY <1>2 DEF Fresh, Current
  <2>. QED  BY <1>2, <2>1, <2>2
<1>3. CASE /\ s.op \in {"sadd", "expire"} /\ r.op = s.op /\ r.key = s.key /\ r.ttl = s.ttl
           /\ r.tags = s.tags /\ r.next = s.next /\ r.mine \subseteq s.mine
  <2>1. WellFormed(r)
    BY <1>3 DEF WellFormed
  <2>2. \A k, t : (Done(r, k, t) => Done(s, k, t)) /\ (Current(r, k, t) => Current(s, k, t))
    BY <1>3 DEF Done, Current
  <2>. QED  BY <2>1, <2>2
<1>. QED  BY <1>1, <1>2, <1>3 DEF Follows

\* Nothing is tagged by a step all calls follow, but what is promised.
NothingTagged ==
  \A k, t : /\ Live(k, t)' => Live(k, t)
            /\ Pending(k, t)' => Pending(k, t)

LEMMA FollowedIsNothingTagged ==
  ASSUME Tagged, promised' \subseteq promised, \A c \in Callers : Follows(call[c], call'[c])
  PROVE  NothingTagged /\ \A c \in Callers : WellFormed(call'[c])
<1>1. ASSUME NEW c \in Callers
      PROVE  /\ WellFormed(call'[c])
             /\ \A k, t : /\ Done(call'[c], k, t) => Done(call[c], k, t)
                          /\ Current(call'[c], k, t) => Current(call[c], k, t)
  <2>1. WellFormed(call[c]) /\ Follows(call[c], call'[c])
    BY DEF Tagged
  <2>. QED  BY <2>1, FollowsFacts
<1>2. ASSUME NEW k, NEW t, Live(k, t)' PROVE Live(k, t)
  <2>1. CASE \E c \in Callers : Done(call'[c], k, t)
    BY <1>1, <2>1 DEF Live
  <2>2. CASE <<k, t>> \in promised'
    BY <2>2 DEF Live
  <2>3. (\E c \in Callers : Done(call'[c], k, t)) \/ <<k, t>> \in promised'
    BY <1>2 DEF Live, Done
  <2>. QED  BY <2>1, <2>2, <2>3
<1>3. ASSUME NEW k, NEW t, Pending(k, t)' PROVE Pending(k, t)
  <2>1. \E c \in Callers : Current(call'[c], k, t)
    BY <1>3 DEF Pending, Current
  <2>. QED  BY <1>1, <2>1 DEF Pending
<1>. QED  BY <1>1, <1>2, <1>3 DEF NothingTagged

\* A step that leaves the tag sets alone: values may go, those that are set anew have no
\* tags yet, and nothing is brought together again.
Quiet ==
  /\ UNCHANGED <<members, tagExp>>
  /\ \A k \in DOMAIN store' : \A t : Tied(k, t)' =>
       /\ k \in DOMAIN store /\ store'[k] = store[k]
       /\ <<k, t>> \in parted => <<k, t>> \in parted'

LEMMA TaggedQuiet ==
  ASSUME Tagged, Quiet, NothingTagged, Pairs',
         \A c \in Callers : WellFormed(call'[c]) /\ (call'[c] = call[c] \/ Read(call[c])')
  PROVE  Tagged'
<1>1. Covered'
  <2>1. ASSUME NEW k, NEW t, Live(k, t)', There(k, t)'
        PROVE  k \in members'[t] /\ store'[k].exp <= tagExp'[t]
    <3>1. Live(k, t) /\ k \in DOMAIN store' /\ <<k, t>> \notin parted' /\ Tied(k, t)'
      BY <2>1 DEF NothingTagged, There, Tied
    <3>2. k \in DOMAIN store /\ store'[k] = store[k] /\ <<k, t>> \notin parted
      BY <3>1 DEF Quiet
    <3>3. k \in members[t] /\ store[k].exp <= tagExp[t]
      BY <3>1, <3>2 DEF Tagged, Covered, There
    <3>. QED  BY <3>2, <3>3 DEF Quiet
  <2>2. ASSUME NEW k, NEW t, Pending(k, t)', There(k, t)'
        PROVE  k \in members'[t]
    <3>1. Pending(k, t) /\ k \in DOMAIN store' /\ <<k, t>> \notin parted' /\ Tied(k, t)'
      BY <2>2 DEF NothingTagged, There, Tied
    <3>2. k \in DOMAIN store /\ <<k, t>> \notin parted
      BY <3>1 DEF Quiet
    <3>3. k \in members[t]
      BY <3>1, <3>2 DEF Tagged, Covered, There
    <3>. QED  BY <3>3 DEF Quiet
  <2>. QED  BY <2>1, <2>2 DEF Covered
<1>2. ASSUME NEW c \in Callers PROVE WellFormed(call'[c]) /\ Read(call[c])'
  <2>1. CASE call'[c] = call[c]
    <3>1. Read(call[c])
      BY DEF Tagged
    <3>2. \A k \in DOMAIN store' : \A t : Tied(k, t)' => k \in DOMAIN store /\ Tied(k, t)
      BY DEF Quiet, NothingTagged, Tied
    <3>3. UNCHANGED members
      BY DEF Quiet
    <3>. HIDE DEF Tied
    <3>4. Read(call[c])'
      BY <2>1, <3>1, <3>2, <3>3 DEF Read
    <3>. QED  BY <3>4
  <2>. QED  BY <2>1
<1>3. TagSets'
  BY DEF Tagged, TagSets, Quiet
<1>. QED  BY <1>1, <1>2, <1>3 DEF Tagged

\* The same, as the commands that only set or delete keys meet it.
LEMMA TaggedFollows ==
  ASSUME Tagged, UNCHANGED <<members, tagExp>>, promised' \subseteq promised,
         \A c \in Callers : /\ Follows(call[c], call'[c])
                            /\ call'[c] = call[c] \/ Read(call[c])',
         \A k \in DOMAIN store' : \A t : Tied(k, t)' =>
           /\ k \in DOMAIN store /\ store'[k] = store[k]
           /\ <<k, t>> \in parted => <<k, t>> \in parted'
  PROVE  Tagged'
<1>1. NothingTagged /\ \A c \in Callers : WellFormed(call'[c])
  BY FollowedIsNothingTagged
<1>2. Quiet
  BY DEF Quiet
<1>3. Pairs'
  BY DEF Pairs, Tagged
<1>. QED  BY <1>1, <1>2, <1>3, TaggedQuiet

\* Nothing but the calls changes.
LEMMA TaggedSame ==
  ASSUME Tagged, UNCHANGED <<store, members, tagExp, call, promised, parted>>
  PROVE  Tagged'
<1>1. \A k, t : (Live(k, t)' <=> Live(k, t)) /\ (Pending(k, t)' <=> Pending(k, t))
  BY DEF Live, Pending
<1>2. \A c \in Callers : Read(call[c])'
  BY <1>1 DEF Tagged, Read, Tied
<1>. QED  BY <1>1, <1>2 DEF Tagged, Covered, There, TagSets, Pairs

LEMMA TaggedGoes ==
  ASSUME InRedis, Tagged, UNCHANGED <<store, members, tagExp, promised, parted>>, NEW c \in Callers,
         NEW s, call' = [call EXCEPT ![c] = s], Follows(call[c], s), Read(call[c])'
  PROVE  Tagged'
<1>1. call = [e \in Callers |-> call[e]]
  BY DEF InRedis, RedisHolds, Sweeps
<1>2. call'[c] = s /\ \A d \in Callers : d # c => call'[d] = call[d]
  BY <1>1
<1>3. \A d \in Callers : Follows(call[d], call'[d]) /\ (call'[d] = call[d] \/ Read(call[d])')
  BY <1>2 DEF Follows
<1>4. NothingTagged
  BY <1>3, FollowedIsNothingTagged
<1>5. \A k \in DOMAIN store' : \A t : Tied(k, t)' =>
        /\ k \in DOMAIN store /\ store'[k] = store[k]
        /\ <<k, t>> \in parted => <<k, t>> \in parted'
  OBVIOUS
<1>. QED  BY <1>3, <1>5, TaggedFollows

\* What the calls are told of a key that is set and of keys that are gone.
LEMMA SparedFollows ==
  ASSUME InRedis, Tagged, NEW k, NEW c \in Callers
  PROVE  /\ Follows(call[c], Redis!Spared(k)[c])
         /\ Redis!Spared(k)[c].op = call[c].op
         /\ call[c].op \in {"delkeys", "deltag"} => Redis!Spared(k)[c] = call[c]
         /\ \A t : ~Done(Redis!Spared(k)[c], k, t) /\ ~Current(Redis!Spared(k)[c], k, t)
<1>. DEFINE r == Redis!Spared(k)[c]
<1>1. Shape(call[c])
  BY DEF InRedis, RedisHolds, Sweeps
<1>2. CASE call[c].op \in {"scan", "del"}
  <2>1. r = SparedCall(call[c], k)
    BY <1>2 DEF Redis!Spared, Redis!Sweeping, SparedCall
  <2>. HIDE DEF r
  <2>2. r.op = call[c].op
    BY <1>1, <1>2, <2>1 DEF SparedCall, Shape
  <2>. QED  BY <1>2, <2>2 DEF r, Follows, Fresh, WellFormed, Done, Current
<1>3. CASE call[c].op \in {"sadd", "expire"}
  <2>1. PICK b : b = call[c].mine \ {k}
    OBVIOUS
  <2>2. r = [call[c] EXCEPT !.mine = b]
    BY <1>3, <2>1 DEF Redis!Spared, Redis!Sweeping, Redis!Adding
  <2>. HIDE DEF r
  <2>3. r = [op |-> call[c].op, key |-> call[c].key, ttl |-> call[c].ttl, tags |-> call[c].tags,
             next |-> call[c].next, mine |-> b]
    BY <1>1, <1>3, <2>2, MineShape
  <2>4. /\ r.op = call[c].op /\ r.key = call[c].key /\ r.ttl = call[c].ttl /\ r.tags = call[c].tags
        /\ r.next = call[c].next /\ r.mine \subseteq call[c].mine /\ k \notin r.mine
    BY <2>1, <2>3
  <2>. QED  BY <1>3, <2>4 DEF r, Follows, Done, Current
<1>4. CASE call[c].op \notin {"scan", "del", "sadd", "expire"}
  <2>1. r = call[c]
    BY <1>4 DEF Redis!Spared, Redis!Sweeping, Redis!Adding
  <2>. QED  BY <1>4, <2>1 DEF Follows, Done, Current
<1>. QED  BY <1>2, <1>3, <1>4

LEMMA ExcusedFollows ==
  ASSUME InRedis, Tagged, NEW D, NEW c \in Callers
  PROVE  /\ Follows(call[c], Redis!Excused(D)[c])
         /\ call[c].op \notin {"scan", "del"} => Redis!Excused(D)[c] = call[c]
         /\ call[c].op \in {"scan", "del"} => Redis!Excused(D)[c].op = call[c].op
<1>. DEFINE r == Redis!Excused(D)[c]
<1>1. Shape(call[c])
  BY DEF InRedis, RedisHolds, Sweeps
<1>2. CASE call[c].op \in {"scan", "del"}
  <2>1. r = ExcusedCall(call[c], D)
    BY <1>2 DEF Redis!Excused, Redis!Sweeping, ExcusedCall
  <2>. HIDE DEF r
  <2>2. r.op = call[c].op
    BY <1>1, <1>2, <2>1 DEF ExcusedCall, Shape
  <2>. QED  BY <1>2, <2>2 DEF r, Follows, Fresh, WellFormed
<1>3. CASE call[c].op \notin {"scan", "del"}
  <2>1. r = call[c]
    BY <1>3 DEF Redis!Excused, Redis!Sweeping
  <2>. QED  BY <1>3, <2>1 DEF Follows
<1>. QED  BY <1>2, <1>3

\* Only invalidations have read a set.
LEMMA ReadOnlyInvalidates ==
  ASSUME NEW c \in Callers, call'[c].op \notin {"delkeys", "deltag"}
  PROVE  Read(call[c])'
  BY DEF Read

\* A key is set: by call c, which goes on to s, or by one command.
LEMMA TaggedPut ==
  ASSUME InRedis, Tagged, UNCHANGED <<members, tagExp>>, NEW k, NEW v, NEW ttl, Redis!Put(k, v, ttl),
         \A c \in Callers : \/ call'[c] = Redis!Spared(k)[c]
                            \/ WellFormed(call'[c]) /\ call'[c].op = "sadd" /\ call'[c].next = 1
  PROVE  Tagged'
<1>1. /\ \A j \in DOMAIN store' : j # k => j \in DOMAIN store /\ store'[j] = store[j]
      /\ promised' = {p \in promised : p[1] # k} /\ parted' = {p \in parted : p[1] # k}
  BY DEF Redis!Put, Redis!Present, Redis!WithoutKeys
<1>2. ASSUME NEW c \in Callers, WellFormed(call'[c]), call'[c].op = "sadd", call'[c].next = 1
      PROVE  /\ Follows(call[c], call'[c]) /\ Read(call[c])'
             /\ \A t : ~Done(call'[c], k, t) /\ ~Current(call'[c], k, t)
  <2>1. Fresh(call'[c])
    BY <1>2 DEF Fresh
  <2>2. \A n \in DOMAIN call'[c].tags : ~(n < 1)
    BY <1>2 DEF WellFormed
  <2>3. Follows(call[c], call'[c])
    BY <1>2, <2>1 DEF Follows
  <2>4. \A t : ~Done(call'[c], k, t) /\ ~Current(call'[c], k, t)
    BY <1>2, <2>2 DEF Done, Current
  <2>. QED  BY <1>2, <2>3, <2>4, ReadOnlyInvalidates
<1>3. ASSUME NEW c \in Callers, call'[c] = Redis!Spared(k)[c]
      PROVE  /\ Follows(call[c], call'[c]) /\ (call'[c] = call[c] \/ Read(call[c])')
             /\ \A t : ~Done(call'[c], k, t) /\ ~Current(call'[c], k, t)
  <2>1. /\ Follows(call[c], call'[c]) /\ (call[c].op \in {"delkeys", "deltag"} => call'[c] = call[c])
        /\ \A t : ~Done(call'[c], k, t) /\ ~Current(call'[c], k, t)
    BY <1>3, SparedFollows
  <2>2. call[c].op \notin {"delkeys", "deltag"} => call'[c].op \notin {"delkeys", "deltag"}
    BY <1>3, SparedFollows
  <2>. QED  BY <2>1, <2>2, ReadOnlyInvalidates
<1>4. \A c \in Callers : /\ Follows(call[c], call'[c]) /\ (call'[c] = call[c] \/ Read(call[c])')
                         /\ \A t : ~Done(call'[c], k, t) /\ ~Current(call'[c], k, t)
  BY <1>2, <1>3
<1>5. ASSUME NEW j \in DOMAIN store', NEW t, Tied(j, t)'
      PROVE  /\ j \in DOMAIN store /\ store'[j] = store[j]
             /\ <<j, t>> \in parted => <<j, t>> \in parted'
  <2>1. j # k
    <3>1. SUFFICES ASSUME j = k PROVE FALSE
      OBVIOUS
    <3>2. <<k, t>> \notin promised'
      BY <1>1
    <3>3. (\E c \in Callers : Done(call'[c], k, t) \/ Current(call'[c], k, t)) \/ <<k, t>> \in promised'
      BY <1>5, <3>1 DEF Tied, Live, Pending
    <3>. QED  BY <1>4, <3>2, <3>3
  <2>. QED  BY <1>1, <2>1
<1>6. promised' \subseteq promised
  BY <1>1
<1>. QED  BY <1>4, <1>5, <1>6, TaggedFollows

\* Keys are deleted.
LEMMA TaggedDrop ==
  ASSUME InRedis, Tagged, UNCHANGED <<members, tagExp>>, NEW D, Redis!Drop(D),
         \A c \in Callers : \/ call'[c] = Redis!Excused(D)[c]
                            \/ /\ WellFormed(call'[c]) /\ Fresh(call'[c])
                               /\ Read(call[c])'
  PROVE  Tagged'
<1>1. /\ \A j \in DOMAIN store' : j \notin D /\ j \in DOMAIN store /\ store'[j] = store[j]
      /\ promised' \subseteq promised /\ parted' = {p \in parted : p[1] \notin D}
  BY DEF Redis!Drop, Redis!Present, Redis!Restrict, Redis!WithoutKeys
<1>2. ASSUME NEW c \in Callers
      PROVE  Follows(call[c], call'[c]) /\ (call'[c] = call[c] \/ Read(call[c])')
  <2>1. CASE call'[c] = Redis!Excused(D)[c]
    <3>1. /\ Follows(call[c], call'[c])
          /\ call[c].op \notin {"scan", "del"} => call'[c] = call[c]
          /\ call[c].op \in {"scan", "del"} => call'[c].op = call[c].op
      BY <2>1, ExcusedFollows
    <3>. QED  BY <3>1, ReadOnlyInvalidates
  <2>2. CASE WellFormed(call'[c]) /\ Fresh(call'[c]) /\ Read(call[c])'
    BY <2>2 DEF Follows
  <2>. QED  BY <2>1, <2>2
<1>3. ASSUME NEW j \in DOMAIN store', NEW t
      PROVE  /\ j \in DOMAIN store /\ store'[j] = store[j]
             /\ <<j, t>> \in parted => <<j, t>> \in parted'
  BY <1>1
<1>. QED  BY <1>1, <1>2, <1>3, TaggedFollows

LEMMA TiedTag ==
  ASSUME Tagged, NEW k, NEW t, Tied(k, t)
  PROVE  t \in Tags
<1>1. CASE <<k, t>> \in promised
  <2>1. <<k, t>>[2] = t
    OBVIOUS
  <2>. QED  BY <1>1, <2>1 DEF Tagged, Pairs
<1>2. ASSUME NEW c \in Callers, Done(call[c], k, t) \/ Current(call[c], k, t) PROVE t \in Tags
  <2>1. WellFormed(call[c])
    BY DEF Tagged
  <2>. QED  BY <1>2, <2>1 DEF Done, Current, WellFormed
<1>. QED  BY <1>1, <1>2 DEF Tied, Live, Pending

-----------------------------------------------------------------------------
(* Redis: the commands and the tags *)

LEMMA TagOneCommand ==
  ASSUME InRedis, Tagged, NEW c \in Callers, NEW k,
         Redis!Get(c, k) \/ Redis!Delete(c, k) \/ \E v, ttl : Redis!Set(c, k, v, ttl)
  PROVE  Tagged'
<1>1. CASE Redis!Get(c, k)
  <2>1. UNCHANGED <<store, members, tagExp, call, promised, parted>>
    BY <1>1 DEF Redis!Get, Redis!tagSets
  <2>. QED  BY <2>1, TaggedSame
<1>2. CASE Redis!Delete(c, k)
  <2>1. Redis!Drop({k}) /\ UNCHANGED <<members, tagExp>> /\ call' = Redis!Excused({k})
    BY <1>2 DEF Redis!Delete, Redis!tagSets
  <2>. QED  BY <2>1, TaggedDrop
<1>3. ASSUME NEW v, NEW ttl, Redis!Set(c, k, v, ttl) PROVE Tagged'
  <2>1. Redis!Put(k, v, ttl) /\ UNCHANGED <<members, tagExp>> /\ call' = Redis!Spared(k)
    BY <1>3 DEF Redis!Set, Redis!tagSets
  <2>. QED  BY <2>1, TaggedPut
<1>. QED  BY <1>1, <1>2, <1>3

\* The beginning of a call of several commands.
LEMMA TagBegins ==
  ASSUME InRedis, Tagged, NEW c \in Callers, NEW s, Redis!Begins(c, s), WellFormed(s), Fresh(s),
         Read(s)'
  PROVE  Tagged'
<1>1. call' = [call EXCEPT ![c] = s] /\ UNCHANGED <<store, members, tagExp, promised, parted>>
  BY DEF Redis!Begins, Redis!tagSets
<1>2. call'[c] = s
  BY <1>1 DEF InRedis, RedisHolds, Sweeps
<1>3. Read(call[c])'
  BY <1>2 DEF Read
<1>4. Follows(call[c], s)
  BY DEF Follows
<1>. QED  BY <1>1, <1>3, <1>4, TaggedGoes

LEMMA TagCallBegins ==
  ASSUME InRedis, Tagged, NEW c \in Callers,
         \/ \E patterns : Redis!Sweep(c, patterns)
         \/ \E t \in Tags : Redis!InvalidateTag(c, t)
         \/ \E k, v : \E ttl \in Nat, tags \in TagLists : Redis!SetWithTags(c, k, v, ttl, tags)
  PROVE  Tagged'
<1>1. ASSUME NEW patterns, Redis!Sweep(c, patterns) PROVE Tagged'
  <2>1. PICK s : s.op = "scan" /\ Redis!Begins(c, s)
    BY <1>1 DEF Redis!Sweep, Redis!ScanOf
  <2>. QED  BY <2>1, TagBegins DEF WellFormed, Fresh, Read
<1>2. ASSUME NEW t \in Tags, Redis!InvalidateTag(c, t) PROVE Tagged'
  <2>1. UNCHANGED members
    BY <1>2 DEF Redis!InvalidateTag, Redis!Begins, Redis!tagSets
  <2>2. CASE members[t] = {}
    <3>. PICK s : s = [op |-> "deltag", tag |-> t, keys |-> members[t], added |-> {}]
      OBVIOUS
    <3>1. WellFormed(s) /\ Fresh(s) /\ Read(s)' /\ Redis!Begins(c, s)
      BY <1>2, <2>1, <2>2 DEF WellFormed, Fresh, Read, Redis!InvalidateTag
    <3>. QED  BY <3>1, TagBegins
  <2>3. CASE members[t] # {}
    <3>. PICK s : s = [op |-> "delkeys", tag |-> t, keys |-> members[t], added |-> {}]
      OBVIOUS
    <3>1. WellFormed(s) /\ Fresh(s) /\ Read(s)' /\ Redis!Begins(c, s)
      BY <1>2, <2>1, <2>3 DEF WellFormed, Fresh, Read, Redis!InvalidateTag
    <3>. QED  BY <3>1, TagBegins
  <2>. QED  BY <2>2, <2>3
<1>3. ASSUME NEW k, NEW v, NEW ttl \in Nat, NEW tags \in TagLists,
             Redis!SetWithTags(c, k, v, ttl, tags)
      PROVE  Tagged'
  <2>. DEFINE s == [op |-> "set", key |-> k, value |-> v, ttl |-> ttl, tags |-> tags]
  <2>1. tags \in Seq(Tags)
    BY ManagerAssumption DEF ManagerAssumption
  <2>2. Redis!Begins(c, s)
    BY <1>3 DEF Redis!SetWithTags
  <2>3. WellFormed(s) /\ Fresh(s) /\ Read(s)'
    BY <2>1 DEF WellFormed, Fresh, Read
  <2>. HIDE DEF s
  <2>. QED  BY <2>2, <2>3, TagBegins
<1>. QED  BY <1>1, <1>2, <1>3

\* A call ends, or goes on to delete a page.
LEMMA TagGoesOn ==
  ASSUME InRedis, Tagged, UNCHANGED <<store, members, tagExp, promised, parted>>, NEW c \in Callers,
         NEW s, call' = [call EXCEPT ![c] = s], s.op \in {"idle", "del"}
  PROVE  Tagged'
<1>1. Follows(call[c], s)
  BY DEF Follows, WellFormed, Fresh
<1>2. call'[c] = s
  BY DEF InRedis, RedisHolds, Sweeps
<1>3. Read(call[c])'
  BY <1>2, ReadOnlyInvalidates
<1>. QED  BY <1>1, <1>3, TaggedGoes

LEMMA TagSweeps ==
  ASSUME InRedis, Tagged, NEW c \in Callers,
         Redis!Scan(c) \/ Redis!DelPage(c) \/ Redis!Breaks(c)
  PROVE  Tagged'
<1>1. CASE Redis!Scan(c)
  <2>1. PICK s : s.op = "del" /\ call' = [call EXCEPT ![c] = s]
    BY <1>1 DEF Redis!Scan
  <2>2. s.op \in {"idle", "del"} /\ UNCHANGED <<store, members, tagExp, promised, parted>>
    BY <1>1, <2>1 DEF Redis!Scan, Redis!tagSets
  <2>. QED  BY <2>1, <2>2, TagGoesOn
<1>2. CASE Redis!Breaks(c)
  <2>1. Redis!Idle.op \in {"idle", "del"} /\ call' = [call EXCEPT ![c] = Redis!Idle]
        /\ UNCHANGED <<store, members, tagExp, promised, parted>>
    BY <1>2 DEF Redis!Breaks, Redis!Idle, Redis!tagSets
  <2>. QED  BY <2>1, TagGoesOn
<1>3. CASE Redis!DelPage(c)
  <2>1. /\ Redis!Drop(call[c].page) /\ UNCHANGED <<members, tagExp>>
        /\ call' = [Redis!Excused(call[c].page) EXCEPT ![c] = Redis!AfterPage(call[c])]
    BY <1>3 DEF Redis!DelPage, Redis!tagSets
  <2>2. Redis!AfterPage(call[c]).op \in {"idle", "scan"}
    BY DEF Redis!AfterPage, Redis!ScanOf, Redis!Idle
  <2>3. DOMAIN Redis!Excused(call[c].page) = Callers
    BY DEF Redis!Excused
  <2>4. ASSUME NEW d \in Callers
        PROVE  \/ call'[d] = Redis!Excused(call[c].page)[d]
               \/ WellFormed(call'[d]) /\ Fresh(call'[d]) /\ Read(call[d])'
    <3>1. CASE d = c
      <4>1. call'[d].op \in {"idle", "scan"}
        BY <2>1, <2>2, <2>3, <3>1
      <4>. QED  BY <4>1, ReadOnlyInvalidates DEF WellFormed, Fresh
    <3>2. CASE d # c
      BY <2>1, <2>3, <3>2
    <3>. QED  BY <3>1, <3>2
  <2>. QED  BY <2>1, <2>4, TaggedDrop
<1>. QED  BY <1>1, <1>2, <1>3

LEMMA TagSet ==
  ASSUME InRedis, Tagged, NEW c \in Callers, Redis!SetTagged(c)
  PROVE  Tagged'
<1>. PICK s : s = call[c]
  OBVIOUS
<1>. DEFINE r == [op |-> "sadd", key |-> s.key, ttl |-> s.ttl, tags |-> s.tags, next |-> 1,
                  mine |-> {s.key}]
<1>1. /\ s.op = "set" /\ Redis!Put(s.key, s.value, s.ttl) /\ UNCHANGED <<members, tagExp>>
      /\ call' = [Redis!Spared(s.key) EXCEPT ![c] = r]
  BY DEF Redis!SetTagged, Redis!Within, Redis!tagSets
<1>2. WellFormed(r)
  <2>1. s.ttl \in Nat /\ s.tags \in Seq(Tags)
    BY <1>1 DEF Tagged, WellFormed
  <2>. QED  BY <2>1 DEF WellFormed
<1>3. r.op = "sadd" /\ r.next = 1
  OBVIOUS
<1>. HIDE DEF r
<1>4. DOMAIN Redis!Spared(s.key) = Callers
  BY DEF Redis!Spared
<1>5. ASSUME NEW d \in Callers
      PROVE  \/ call'[d] = Redis!Spared(s.key)[d]
             \/ WellFormed(call'[d]) /\ call'[d].op = "sadd" /\ call'[d].next = 1
  <2>1. CASE d = c
    <3>1. call'[d] = r
      BY <1>1, <1>4, <2>1
    <3>. QED  BY <1>2, <1>3, <3>1
  <2>2. CASE d # c
    BY <1>1, <1>4, <2>2
  <2>. QED  BY <2>1, <2>2
<1>. QED  BY <1>1, <1>5, TaggedPut

LEMMA TagDelKeys ==
  ASSUME InRedis, Tagged, NEW c \in Callers, Redis!DelKeys(c)
  PROVE  Tagged'
<1>. PICK s : s = call[c]
  OBVIOUS
<1>. DEFINE r == [op |-> "deltag", tag |-> s.tag, keys |-> s.keys, added |-> s.added]
<1>1. /\ s.op = "delkeys" /\ Redis!Drop(s.keys) /\ UNCHANGED <<members, tagExp>>
      /\ call' = [Redis!Excused(s.keys) EXCEPT ![c].op = "deltag"]
  BY DEF Redis!DelKeys, Redis!Within, Redis!tagSets
<1>2. s = [op |-> "delkeys", tag |-> s.tag, keys |-> s.keys, added |-> s.added]
  BY <1>1 DEF InRedis, RedisHolds, Sweeps, Shape
<1>3. DOMAIN Redis!Excused(s.keys) = Callers
  BY DEF Redis!Excused
<1>4. call'[c] = r
  <2>1. Redis!Excused(s.keys)[c] = s
    BY <1>1 DEF Redis!Excused, Redis!Sweeping
  <2>2. call'[c] = [s EXCEPT !.op = "deltag"]
    BY <1>1, <1>3, <2>1
  <2>3. [s EXCEPT !.op = "deltag"] = r
    BY <1>2
  <2>. QED  BY <2>2, <2>3
<1>5. s.tag \in Tags /\ members[s.tag] \subseteq s.keys \cup s.added
  BY <1>1 DEF Tagged, WellFormed, Read
<1>6. WellFormed(r) /\ Fresh(r)
  BY <1>5 DEF WellFormed, Fresh
<1>7. Read(call[c])'
  <2>1. /\ call'[c].op = "deltag" /\ call'[c].tag = s.tag /\ call'[c].added = s.added
    BY <1>4
  <2>2. \A k \in DOMAIN store' : k \notin s.keys
    BY <1>1 DEF Redis!Drop, Redis!Present, Redis!Restrict
  <2>. QED  BY <1>1, <1>5, <2>1, <2>2 DEF Read
<1>. HIDE DEF r
<1>8. ASSUME NEW d \in Callers
      PROVE  \/ call'[d] = Redis!Excused(s.keys)[d]
             \/ WellFormed(call'[d]) /\ Fresh(call'[d]) /\ Read(call[d])'
  <2>1. CASE d = c
    BY <1>4, <1>6, <1>7, <2>1
  <2>2. CASE d # c
    BY <1>1, <1>3, <2>2
  <2>. QED  BY <2>1, <2>2
<1>. QED  BY <1>1, <1>8, TaggedDrop

\* The set of a tag goes: what it names and is there was added since the call read it.
LEMMA TagDelTag ==
  ASSUME InRedis, Tagged, NEW c \in Callers, Redis!DelTag(c)
  PROVE  Tagged'
<1>. PICK s : s = call[c]
  OBVIOUS
<1>1. /\ s.op = "deltag" /\ UNCHANGED <<store, promised>>
      /\ members' = [t \in Tags |-> IF t \in {s.tag} THEN {} ELSE members[t]]
      /\ tagExp' = [t \in Tags |-> IF t \in {s.tag} THEN Redis!Never ELSE tagExp[t]]
      /\ parted' = parted \cup (s.added \X {s.tag})
      /\ call' = [call EXCEPT ![c] = Redis!Idle]
  BY DEF Redis!DelTag, Redis!Within, Redis!Untagged
<1>2. Redis!Never \in Int
  BY CacheAssumption DEF CacheAssumption, Redis!Never
<1>3. s.tag \in Tags /\ \A k \in DOMAIN store \cap members[s.tag] : Tied(k, s.tag) => k \in s.added
  BY <1>1 DEF Tagged, WellFormed, Read
<1>4. call'[c] = Redis!Idle /\ \A d \in Callers : d # c => call'[d] = call[d]
  BY <1>1 DEF InRedis, RedisHolds, Sweeps
<1>5. \A d \in Callers : Follows(call[d], call'[d])
  BY <1>4 DEF Follows, WellFormed, Fresh, Redis!Idle
<1>6. NothingTagged /\ \A d \in Callers : WellFormed(call'[d])
  BY <1>1, <1>5, FollowedIsNothingTagged
<1>7. ASSUME NEW k, NEW t, Tied(k, t)', There(k, t)'
      PROVE  t \in Tags /\ t # s.tag /\ Tied(k, t) /\ There(k, t)
  <2>1. Tied(k, t) /\ There(k, t)
    BY <1>1, <1>6, <1>7 DEF NothingTagged, Tied, There
  <2>2. t # s.tag
    <3>1. SUFFICES ASSUME t = s.tag PROVE FALSE
      OBVIOUS
    <3>2. k \in members[t]
      BY <2>1 DEF Tagged, Covered, Tied
    <3>3. k \in s.added
      BY <1>3, <2>1, <3>1, <3>2 DEF There
    <3>. QED  BY <1>1, <1>7, <3>1, <3>3 DEF There
  <2>3. t \in Tags
    BY <2>1, TiedTag
  <2>. QED  BY <2>1, <2>2, <2>3
<1>8. Covered'
  <2>1. ASSUME NEW k, NEW t, Live(k, t)', There(k, t)'
        PROVE  k \in members'[t] /\ store'[k].exp <= tagExp'[t]
    <3>1. t \in Tags /\ t # s.tag /\ There(k, t) /\ Live(k, t)
      BY <1>6, <1>7, <2>1 DEF Tied, NothingTagged
    <3>. QED  BY <1>1, <3>1 DEF Tagged, Covered
  <2>2. ASSUME NEW k, NEW t, Pending(k, t)', There(k, t)'
        PROVE  k \in members'[t]
    <3>1. t \in Tags /\ t # s.tag /\ There(k, t) /\ Pending(k, t)
      BY <1>6, <1>7, <2>2 DEF Tied, NothingTagged
    <3>. QED  BY <1>1, <3>1 DEF Tagged, Covered
  <2>. QED  BY <2>1, <2>2 DEF Covered
<1>9. ASSUME NEW d \in Callers PROVE Read(call[d])'
  <2>1. CASE d = c
    BY <1>4, <2>1, ReadOnlyInvalidates DEF Redis!Idle
  <2>2. CASE d # c
    <3>1. call'[d] = call[d] /\ Read(call[d]) /\ WellFormed(call[d])
      BY <1>4, <2>2 DEF Tagged
    <3>2. \A t \in Tags : members'[t] \subseteq members[t]
      BY <1>1
    <3>3. \A k, t : Tied(k, t)' => Tied(k, t)
      BY <1>6 DEF NothingTagged, Tied
    <3>. QED  BY <1>1, <3>1, <3>2, <3>3 DEF Read, WellFormed
  <2>. QED  BY <2>1, <2>2
<1>10. TagSets' /\ Pairs'
  BY <1>1, <1>2 DEF Tagged, TagSets, Pairs
<1>. QED  BY <1>6, <1>8, <1>9, <1>10 DEF Tagged

\* A key is added to the set of a tag, and those are told that have read the set.
LEMMA TagAdd ==
  ASSUME InRedis, Tagged, NEW c \in Callers, Redis!SAdd(c)
  PROVE  Tagged'
<1>. PICK s : s = call[c]
  OBVIOUS
<1>. PICK t0 : t0 = s.tags[s.next]
  OBVIOUS
<1>1. /\ s.op = "sadd" /\ s.next <= Len(s.tags) /\ UNCHANGED <<store, tagExp, promised, parted>>
      /\ members' = [members EXCEPT ![t0] = @ \cup {s.key}]
  BY DEF Redis!SAdd, Redis!Within
<1>2. /\ s.tags \in Seq(Tags) /\ s.next \in DOMAIN s.tags /\ t0 \in Tags /\ s.mine \subseteq {s.key}
      /\ s.ttl \in Nat /\ s.next \in Nat \ {0}
  BY <1>1 DEF Tagged, WellFormed
<1>3. /\ call'[c].op = "expire" /\ call'[c].key = s.key /\ call'[c].ttl = s.ttl
      /\ call'[c].tags = s.tags /\ call'[c].next = s.next /\ call'[c].mine = s.mine
  <2>1. call'[c] = [op |-> "expire", key |-> s.key, ttl |-> s.ttl, tags |-> s.tags,
                    next |-> s.next, mine |-> s.mine]
    BY AddGoes DEF InRedis, RedisHolds
  <2>. QED  BY <2>1
<1>4. ASSUME NEW d \in Callers, d # c
      PROVE  \/ /\ call[d].op \in {"delkeys", "deltag"} /\ call[d].tag = t0
                /\ call'[d].op = call[d].op /\ call'[d].tag = t0 /\ call'[d].keys = call[d].keys
                /\ call'[d].added = call[d].added \cup {s.key}
             \/ /\ ~(call[d].op \in {"delkeys", "deltag"} /\ call[d].tag = t0)
                /\ call'[d] = call[d]
  <2>1. d \in Callers \ {c}
    BY <1>4
  <2>2. \/ /\ call[d].op \in {"delkeys", "deltag"} /\ call[d].tag = t0
           /\ call'[d] = [op |-> call[d].op, tag |-> call[d].tag, keys |-> call[d].keys,
                          added |-> call[d].added \cup {s.key}]
        \/ /\ ~(call[d].op \in {"delkeys", "deltag"} /\ call[d].tag = t0)
           /\ call'[d] = call[d]
    BY <2>1, AddGoes DEF InRedis, RedisHolds
  <2>. QED  BY <2>2
<1>5. \A t \in Tags : members'[t] = IF t = t0 THEN members[t] \cup {s.key} ELSE members[t]
  BY <1>1, <1>2 DEF Tagged, TagSets
<1>6. ASSUME NEW k, NEW t
      PROVE  /\ Live(k, t)' => Live(k, t)
             /\ Pending(k, t)' => Pending(k, t) \/ (k = s.key /\ t = t0)
  <2>1. ASSUME NEW d \in Callers
        PROVE  /\ Done(call'[d], k, t) => Done(call[d], k, t)
               /\ Current(call'[d], k, t) => Current(call[d], k, t) \/ (k = s.key /\ t = t0)
    <3>1. CASE d = c
      BY <1>1, <1>2, <1>3, <3>1 DEF Done, Current
    <3>2. CASE d # c
      BY <1>4, <3>2 DEF Done, Current
    <3>. QED  BY <3>1, <3>2
  <2>2. ASSUME Live(k, t)' PROVE Live(k, t)
    <3>1. <<k, t>> \in promised' \/ \E d \in Callers : Done(call'[d], k, t)
      BY <2>2 DEF Live, Done
    <3>. QED  BY <1>1, <2>1, <3>1 DEF Live
  <2>3. ASSUME Pending(k, t)' PROVE Pending(k, t) \/ (k = s.key /\ t = t0)
    <3>1. \E d \in Callers : Current(call'[d], k, t)
      BY <2>3 DEF Pending, Current
    <3>. QED  BY <2>1, <3>1 DEF Pending
  <2>. QED  BY <2>2, <2>3
<1>7. Covered'
  <2>1. ASSUME NEW k, NEW t, Live(k, t)', There(k, t)'
        PROVE  k \in members'[t] /\ store'[k].exp <= tagExp'[t]
    <3>1. Live(k, t) /\ There(k, t)
      BY <1>1, <1>6, <2>1 DEF There
    <3>2. t \in Tags
      BY <3>1, TiedTag DEF Tied
    <3>. QED  BY <1>1, <1>5, <3>1, <3>2 DEF Tagged, Covered
  <2>2. ASSUME NEW k, NEW t, Pending(k, t)', There(k, t)'
        PROVE  k \in members'[t]
    <3>1. CASE k = s.key /\ t = t0
      BY <1>2, <1>5, <3>1
    <3>2. CASE Pending(k, t)
      <4>1. There(k, t)
        BY <1>1, <2>2 DEF There
      <4>2. t \in Tags
        BY <3>2, TiedTag DEF Tied
      <4>. QED  BY <1>5, <3>2, <4>1, <4>2 DEF Tagged, Covered
    <3>. QED  BY <1>6, <2>2, <3>1, <3>2
  <2>. QED  BY <2>1, <2>2 DEF Covered
<1>8. ASSUME NEW k, NEW t, Tied(k, t)', k # s.key \/ t # t0 PROVE Tied(k, t)
  BY <1>6, <1>8 DEF Tied
<1>9. ASSUME NEW d \in Callers PROVE WellFormed(call'[d]) /\ Read(call[d])'
  <2>1. CASE d = c
    <3>1. WellFormed(call'[d])
      BY <1>2, <1>3, <2>1 DEF WellFormed
    <3>2. Read(call[d])'
      BY <1>3, <2>1, ReadOnlyInvalidates
    <3>. QED  BY <3>1, <3>2
  <2>2. CASE d # c
    <3>1. WellFormed(call[d]) /\ Read(call[d])
      BY DEF Tagged
    <3>2. CASE /\ call[d].op \in {"delkeys", "deltag"} /\ call[d].tag = t0
               /\ call'[d].op = call[d].op /\ call'[d].tag = t0 /\ call'[d].keys = call[d].keys
               /\ call'[d].added = call[d].added \cup {s.key}
      <4>1. WellFormed(call'[d])
        BY <1>2, <3>2 DEF WellFormed
      <4>2. members'[t0] = members[t0] \cup {s.key}
        BY <1>2, <1>5
      <4>3. \A k : Tied(k, t0)' /\ k # s.key => Tied(k, t0)
        BY <1>8
      <4>4. Read(call[d])'
        BY <1>1, <3>1, <3>2, <4>2, <4>3 DEF Read
      <4>. QED  BY <4>1, <4>4
    <3>3. CASE /\ ~(call[d].op \in {"delkeys", "deltag"} /\ call[d].tag = t0)
               /\ call'[d] = call[d]
      <4>1. call[d].op \in {"delkeys", "deltag"} =>
              call[d].tag # t0 /\ members'[call[d].tag] = members[call[d].tag]
        BY <1>5, <3>1, <3>3 DEF WellFormed
      <4>2. \A k : call[d].tag # t0 /\ Tied(k, call[d].tag)' => Tied(k, call[d].tag)
        <5>1. ASSUME NEW k, call[d].tag # t0, Tied(k, call[d].tag)' PROVE Tied(k, call[d].tag)
          <6>1. PICK u : u = call[d].tag
            OBVIOUS
          <6>2. call'[d].tag = u
            BY <3>3, <6>1
          <6>3. Tied(k, u)'
            BY <5>1, <6>1, <6>2 DEF Tied, Live, Pending, Done, Current
          <6>. QED  BY <1>8, <5>1, <6>1, <6>3
        <5>. QED  BY <5>1
      <4>3. Read(call[d])'
        BY <1>1, <3>1, <3>3, <4>1, <4>2 DEF Read
      <4>. QED  BY <3>1, <3>3, <4>3
    <3>. QED  BY <1>4, <2>2, <3>2, <3>3
  <2>. QED  BY <2>1, <2>2
<1>10. TagSets' /\ Pairs'
  BY <1>1, <1>2 DEF Tagged, TagSets, Pairs
<1>. QED  BY <1>7, <1>9, <1>10 DEF Tagged

\* The lifetime of a set is written: what lives longer parts from it.
LEMMA TagExpire ==
  ASSUME InRedis, Tagged, NEW c \in Callers, Redis!Expire(c)
  PROVE  Tagged'
<1>. PICK s : s = call[c]
  OBVIOUS
<1>. PICK t0 : t0 = s.tags[s.next]
  OBVIOUS
<1>. PICK end : end = now + s.ttl + Grace
  OBVIOUS
<1>. PICK there : there = members[t0] \cap DOMAIN store
  OBVIOUS
<1>. PICK late : late = {k \in there : store[k].exp > end}
  OBVIOUS
<1>. DEFINE r == [op |-> "sadd", key |-> s.key, ttl |-> s.ttl, tags |-> s.tags, next |-> s.next + 1,
                  mine |-> s.mine]
<1>1. /\ s.op = "expire" /\ UNCHANGED <<store, members, promised>>
      /\ tagExp' = [tagExp EXCEPT ![t0] = IF members[t0] = {} THEN @ ELSE end]
      /\ parted' = (parted \ (there \X {t0})) \cup (late \X {t0})
      /\ call' = [call EXCEPT ![c] = [s EXCEPT !.op = "sadd", !.next = @ + 1]]
  BY DEF Redis!Expire, Redis!Within, Redis!Present
<1>2. [s EXCEPT !.op = "sadd", !.next = @ + 1] = r
  BY <1>1, ExpireGoes DEF InRedis, RedisHolds, Sweeps
<1>3. /\ s.tags \in Seq(Tags) /\ s.next \in DOMAIN s.tags /\ t0 \in Tags /\ s.mine \subseteq {s.key}
      /\ s.ttl \in Nat /\ s.next \in Nat \ {0}
  BY <1>1 DEF Tagged, WellFormed
<1>4. end \in Int
  BY <1>3, ManagerAssumption DEF ManagerAssumption, InRedis, Types
<1>5. call'[c] = r /\ \A d \in Callers : d # c => call'[d] = call[d]
  BY <1>1, <1>2 DEF InRedis, RedisHolds, Sweeps
<1>6. ASSUME NEW k, NEW t
      PROVE  /\ Live(k, t)' => Live(k, t) \/ (Pending(k, t) /\ t = t0)
             /\ Pending(k, t)' => Pending(k, t)
  <2>1. Done(r, k, t) => Done(s, k, t) \/ Current(s, k, t)
    <3>1. ASSUME NEW n \in DOMAIN s.tags, n < s.next + 1 PROVE n < s.next \/ n = s.next
      BY <1>3, <3>1
    <3>. QED  BY <1>1, <3>1 DEF Done, Current
  <2>2. ~Current(r, k, t) /\ (Current(s, k, t) => t = t0)
    BY DEF Current
  <2>. HIDE DEF r
  <2>3. ASSUME NEW d \in Callers
        PROVE  /\ Done(call'[d], k, t) => Done(call[d], k, t) \/ (Current(call[d], k, t) /\ t = t0)
               /\ Current(call'[d], k, t) => Current(call[d], k, t)
    <3>1. CASE d = c
      BY <1>5, <2>1, <2>2, <3>1
    <3>2. CASE d # c
      BY <1>5, <3>2
    <3>. QED  BY <3>1, <3>2
  <2>4. ASSUME Live(k, t)' PROVE Live(k, t) \/ (Pending(k, t) /\ t = t0)
    <3>1. <<k, t>> \in promised' \/ \E d \in Callers : Done(call'[d], k, t)
      BY <2>4 DEF Live, Done
    <3>. QED  BY <1>1, <2>3, <3>1 DEF Live, Pending
  <2>5. ASSUME Pending(k, t)' PROVE Pending(k, t)
    <3>1. \E d \in Callers : Current(call'[d], k, t)
      BY <2>5 DEF Pending, Current
    <3>. QED  BY <2>3, <3>1 DEF Pending
  <2>. QED  BY <2>4, <2>5
<1>7. \A k, t : Tied(k, t)' => Tied(k, t)
  BY <1>6 DEF Tied
<1>8. \A t \in Tags : t # t0 => tagExp'[t] = tagExp[t]
  BY <1>1, <1>3 DEF Tagged, TagSets
<1>9. members[t0] # {} => tagExp'[t0] = end
  BY <1>1, <1>3 DEF Tagged, TagSets
<1>10. ASSUME NEW k, NEW t, t # t0 PROVE <<k, t>> \in parted' <=> <<k, t>> \in parted
  BY <1>1, <1>10
<1>11. ASSUME NEW k, Tied(k, t0), There(k, t0)'
       PROVE  k \in members[t0] /\ k \in DOMAIN store /\ store[k].exp <= end
  <2>1. k \in DOMAIN store /\ <<k, t0>> \notin parted'
    BY <1>1, <1>11 DEF There
  <2>2. k \in members[t0]
    <3>1. CASE <<k, t0>> \notin parted
      BY <1>11, <2>1, <3>1 DEF Tagged, Covered, There, Tied
    <3>2. CASE <<k, t0>> \in parted
      BY <1>1, <2>1, <3>2
    <3>. QED  BY <3>1, <3>2
  <2>3. k \notin late
    BY <1>1, <2>1
  <2>4. store[k].exp \in Int
    BY <2>1 DEF InRedis, RedisHolds, Types
  <2>. QED  BY <1>4, <2>1, <2>2, <2>3, <2>4
<1>12. Covered'
  <2>1. ASSUME NEW k, NEW t, Live(k, t)', There(k, t)'
        PROVE  k \in members'[t] /\ store'[k].exp <= tagExp'[t]
    <3>1. Tied(k, t) /\ t \in Tags
      BY <1>7, <2>1, TiedTag DEF Tied
    <3>2. CASE t = t0
      BY <1>1, <1>9, <1>11, <2>1, <3>1, <3>2
    <3>3. CASE t # t0
      <4>1. Live(k, t) /\ There(k, t)
        BY <1>1, <1>6, <1>10, <2>1, <3>3 DEF There
      <4>. QED  BY <1>1, <1>8, <3>1, <3>3, <4>1 DEF Tagged, Covered
    <3>. QED  BY <3>2, <3>3
  <2>2. ASSUME NEW k, NEW t, Pending(k, t)', There(k, t)'
        PROVE  k \in members'[t]
    <3>1. Tied(k, t) /\ Pending(k, t)
      BY <1>6, <2>2 DEF Tied
    <3>2. CASE t = t0
      BY <1>1, <1>11, <2>2, <3>1, <3>2
    <3>3. CASE t # t0
      <4>1. There(k, t)
        BY <1>1, <1>10, <2>2, <3>3 DEF There
      <4>. QED  BY <1>1, <3>1, <4>1 DEF Tagged, Covered
    <3>. QED  BY <3>2, <3>3
  <2>. QED  BY <2>1, <2>2 DEF Covered
<1>13. ASSUME NEW d \in Callers PROVE WellFormed(call'[d]) /\ Read(call[d])'
  <2>1. CASE d = c
    <3>1. WellFormed(call'[d])
      BY <1>3, <1>5, <2>1 DEF WellFormed
    <3>2. Read(call[d])'
      BY <1>5, <2>1, ReadOnlyInvalidates
    <3>. QED  BY <3>1, <3>2
  <2>2. CASE d # c
    <3>1. call'[d] = call[d] /\ Read(call[d]) /\ WellFormed(call[d])
      BY <1>5, <2>2 DEF Tagged
    <3>2. Read(call[d])'
      BY <1>1, <1>7, <3>1 DEF Read
    <3>. QED  BY <3>1, <3>2
  <2>. QED  BY <2>1, <2>2
<1>14. TagSets' /\ Pairs'
  <2>1. tagExp' = [t \in Tags |-> tagExp'[t]] /\ \A t \in Tags : tagExp'[t] \in Int
    BY <1>1, <1>3, <1>4 DEF Tagged, TagSets
  <2>. QED  BY <1>1, <2>1 DEF Tagged, TagSets, Pairs
<1>. QED  BY <1>12, <1>13, <1>14 DEF Tagged

LEMMA TagStored ==
  ASSUME InRedis, Tagged, NEW c \in Callers, Redis!Stored(c)
  PROVE  Tagged'
<1>. PICK s : s = call[c]
  OBVIOUS
<1>1. /\ s.op = "sadd" /\ s.next > Len(s.tags) /\ UNCHANGED <<store, members, tagExp, parted>>
      /\ promised' = promised \cup (s.mine \X Range(s.tags))
      /\ call' = [call EXCEPT ![c] = Redis!Idle]
  BY DEF Redis!Stored, Redis!Within, Redis!tagSets, Redis!Range, Range
<1>2. s.tags \in Seq(Tags) /\ s.next \in Nat
  BY <1>1 DEF Tagged, WellFormed
<1>3. call'[c] = Redis!Idle /\ \A d \in Callers : d # c => call'[d] = call[d]
  BY <1>1 DEF InRedis, RedisHolds, Sweeps
<1>4. \A n \in DOMAIN s.tags : n < s.next /\ s.tags[n] \in Tags
  BY <1>1, <1>2
<1>5. ASSUME NEW k, NEW t, <<k, t>> \in s.mine \X Range(s.tags) PROVE Done(s, k, t)
  <2>1. k \in s.mine /\ \E n \in DOMAIN s.tags : t = s.tags[n]
    BY <1>5 DEF Range
  <2>. QED  BY <1>1, <1>4, <2>1 DEF Done
<1>6. \A k, t : ~Done(Redis!Idle, k, t) /\ ~Current(Redis!Idle, k, t)
  BY DEF Done, Current, Redis!Idle
<1>7. NothingTagged
  <2>1. ASSUME NEW k, NEW t, Live(k, t)' PROVE Live(k, t)
    <3>1. <<k, t>> \in promised' \/ \E d \in Callers : Done(call'[d], k, t)
      BY <2>1 DEF Live, Done
    <3>2. CASE <<k, t>> \in promised'
      BY <1>1, <1>5, <3>2 DEF Live
    <3>3. CASE \E d \in Callers : Done(call'[d], k, t)
      BY <1>3, <1>6, <3>3 DEF Live
    <3>. QED  BY <3>1, <3>2, <3>3
  <2>2. ASSUME NEW k, NEW t, Pending(k, t)' PROVE Pending(k, t)
    <3>1. \E d \in Callers : Current(call'[d], k, t)
      BY <2>2 DEF Pending, Current
    <3>. QED  BY <1>3, <1>6, <3>1 DEF Pending
  <2>. QED  BY <2>1, <2>2 DEF NothingTagged
<1>8. Quiet
  BY <1>1 DEF Quiet
<1>9. Pairs'
  <2>1. ASSUME NEW p \in s.mine \X Range(s.tags) PROVE p = <<p[1], p[2]>> /\ p[2] \in Tags
    BY <1>4 DEF Range
  <2>. QED  BY <1>1, <2>1 DEF Tagged, Pairs
<1>10. ASSUME NEW d \in Callers
       PROVE  WellFormed(call'[d]) /\ (call'[d] = call[d] \/ Read(call[d])')
  <2>1. CASE d = c
    BY <1>3, <2>1, ReadOnlyInvalidates DEF WellFormed, Redis!Idle
  <2>2. CASE d # c
    BY <1>3, <2>2 DEF Tagged
  <2>. QED  BY <2>1, <2>2
<1>. QED  BY <1>7, <1>8, <1>9, <1>10, TaggedQuiet

\* Values and sets expire: a set not before the values it was made to outlive.
LEMMA TagClock ==
  ASSUME InRedis, Tagged, Redis!Clock
  PROVE  Tagged'
<1>. PICK gone : gone = {k \in DOMAIN store : now' > store[k].exp}
  OBVIOUS
<1>. PICK ended : ended = {t \in Tags : now' > tagExp[t]}
  OBVIOUS
<1>. PICK lost : lost = {c \in Callers : call[c].op = "expire" /\ call[c].tags[call[c].next] \in ended}
  OBVIOUS
<1>. PICK left : left = {<<call[c].key, call[c].tags[call[c].next]>> : c \in lost}
  OBVIOUS
<1>1. /\ now' = now + 1 /\ store' = Restrict(store, DOMAIN store \ gone)
      /\ promised' = {p \in promised : p[1] \notin gone}
      /\ call' = Redis!Excused(gone)
  BY DEF Redis!Clock, Redis!Present, Redis!Restrict, Restrict, Redis!WithoutKeys
<1>2. /\ members' = [t \in Tags |-> IF t \in ended THEN {} ELSE members[t]]
      /\ tagExp' = [t \in Tags |-> IF t \in ended THEN Redis!Never ELSE tagExp[t]]
  BY DEF Redis!Clock, Redis!Untagged
<1>3. parted' = {p \in parted \cup left : p[1] \notin gone}
  BY DEF Redis!Clock, Redis!WithoutKeys, Redis!Present
<1>4. \A k \in DOMAIN store' : k \in DOMAIN store /\ k \notin gone /\ store'[k] = store[k]
  BY <1>1 DEF Restrict
<1>5. \A k \in DOMAIN store' : store[k].exp \in Int /\ now' <= store[k].exp
  BY <1>1, <1>4 DEF InRedis, RedisHolds, Types
<1>6. \A d \in Callers :
        /\ Follows(call[d], call'[d])
        /\ call[d].op \notin {"scan", "del"} => call'[d] = call[d]
        /\ call[d].op \in {"scan", "del"} => call'[d].op = call[d].op
  BY <1>1, ExcusedFollows
<1>7. promised' \subseteq promised
  BY <1>1
<1>8. NothingTagged /\ \A d \in Callers : WellFormed(call'[d])
  BY <1>6, <1>7, FollowedIsNothingTagged
<1>9. ASSUME NEW k, NEW t, k \in DOMAIN store', <<k, t>> \notin parted'
      PROVE  <<k, t>> \notin parted /\ <<k, t>> \notin left
  <2>1. <<k, t>>[1] \notin gone
    BY <1>4, <1>9
  <2>. QED  BY <1>3, <1>9, <2>1
<1>10. ASSUME NEW k, NEW t, NEW c \in Callers, Current(call[c], k, t), t \in ended
       PROVE  <<k, t>> \in left
  <2>1. k = call[c].key
    <3>1. call[c].mine \subseteq {call[c].key}
      BY <1>10 DEF Tagged, WellFormed, Current
    <3>. QED  BY <1>10, <3>1 DEF Current
  <2>2. t = call[c].tags[call[c].next] /\ c \in lost
    BY <1>10 DEF Current
  <2>3. <<call[c].key, call[c].tags[call[c].next]>> \in left
    BY <2>2, Zenon
  <2>. QED  BY <2>1, <2>2, <2>3, Zenon
<1>11. Covered'
  <2>1. ASSUME NEW k, NEW t, Live(k, t)', There(k, t)'
        PROVE  k \in members'[t] /\ store'[k].exp <= tagExp'[t]
    <3>1. k \in DOMAIN store' /\ <<k, t>> \notin parted /\ Live(k, t)
      BY <1>8, <1>9, <2>1 DEF NothingTagged, There
    <3>2. k \in members[t] /\ store[k].exp <= tagExp[t]
      BY <1>4, <3>1 DEF Tagged, Covered, There
    <3>3. t \in Tags
      BY <3>1, TiedTag DEF Tied
    <3>4. t \notin ended
      BY <1>1, <1>5, <3>1, <3>2, <3>3 DEF Tagged, TagSets, InRedis, Types
    <3>. QED  BY <1>2, <1>4, <3>1, <3>2, <3>3, <3>4
  <2>2. ASSUME NEW k, NEW t, Pending(k, t)', There(k, t)'
        PROVE  k \in members'[t]
    <3>1. k \in DOMAIN store' /\ <<k, t>> \notin parted /\ <<k, t>> \notin left /\ Pending(k, t)
      BY <1>8, <1>9, <2>2 DEF NothingTagged, There
    <3>2. k \in members[t]
      BY <1>4, <3>1 DEF Tagged, Covered, There
    <3>3. t \in Tags
      BY <3>1, TiedTag DEF Tied
    <3>4. t \notin ended
      BY <1>10, <3>1 DEF Pending
    <3>. QED  BY <1>2, <3>2, <3>3, <3>4
  <2>. QED  BY <2>1, <2>2 DEF Covered
<1>12. ASSUME NEW d \in Callers PROVE Read(call[d])'
  <2>1. CASE call[d].op \in {"scan", "del"}
    BY <1>6, <2>1, ReadOnlyInvalidates
  <2>2. CASE call[d].op \notin {"scan", "del"}
    <3>1. call'[d] = call[d] /\ Read(call[d]) /\ WellFormed(call[d])
      BY <1>6, <2>2 DEF Tagged
    <3>2. \A t \in Tags : members'[t] \subseteq members[t]
      BY <1>2
    <3>3. \A k, t : Tied(k, t)' => Tied(k, t)
      BY <1>8 DEF NothingTagged, Tied
    <3>. QED  BY <1>4, <3>1, <3>2, <3>3 DEF Read, WellFormed
  <2>. QED  BY <2>1, <2>2
<1>13. Redis!Never \in Int
  BY CacheAssumption DEF CacheAssumption, Redis!Never
<1>14. TagSets' /\ Pairs'
  BY <1>2, <1>7, <1>13 DEF Tagged, TagSets, Pairs
<1>. QED  BY <1>8, <1>11, <1>12, <1>14 DEF Tagged

-----------------------------------------------------------------------------
(* The manager and the tags *)

LEMMA TagInit == Init => TagInv
<1>. SUFFICES ASSUME Init PROVE TagInv
  OBVIOUS
<1>1. Redis!Never \in Int
  BY CacheAssumption DEF CacheAssumption, Redis!Never
<1>2. /\ promised = {} /\ members = [t \in Tags |-> {}] /\ tagExp = [t \in Tags |-> Redis!Never]
      /\ \A c \in Callers : call[c] = Redis!Idle
  BY DEF Init, Redis!Init
<1>3. ASSUME NEW c \in Callers
      PROVE  /\ WellFormed(call[c]) /\ Read(call[c])
             /\ \A k, t : ~Done(call[c], k, t) /\ ~Current(call[c], k, t)
  BY <1>2 DEF WellFormed, Read, Done, Current, Redis!Idle
<1>4. Covered
  BY <1>2, <1>3 DEF Covered, Live, Pending
<1>. QED  BY <1>1, <1>2, <1>3, <1>4 DEF TagInv, Tagged, TagSets, Pairs

LEMMA TagStores ==
  ASSUME InRedis, Tagged, NEW c \in Callers,
         \/ \E k, v : SetSchema(c, k, v)
         \/ \E k, v, ttl : SetQueryResult(c, k, v, ttl)
  PROVE  Tagged'
<1>1. ASSUME NEW k, NEW v, NEW ttl, Store(c, k, v, ttl) PROVE Tagged'
  <2>1. Redis!Set(c, k, v, ttl)
    BY <1>1 DEF Store, Cache, InRedis
  <2>. QED  BY <2>1, TagOneCommand
<1>. QED  BY <1>1 DEF SetSchema, SetQueryResult

LEMMA TagRedisOnly ==
  ASSUME InRedis, Tagged, NEW c \in Callers, RedisOnly(c) \/ ClearAll(c)
  PROVE  Tagged'
<1>1. CASE Redis!Command(c)
  BY <1>1, TagSweeps, TagSet, TagAdd, TagExpire, TagStored, TagDelKeys, TagDelTag DEF Redis!Command
<1>2. CASE \/ Redis!Clear(c)
           \/ \E p \in {QueryKeys, SchemaKeys} : Redis!InvalidatePattern(c, p)
  BY <1>2, TagCallBegins DEF Redis!Clear, Redis!InvalidatePattern
<1>3. CASE \E t \in Tags : Redis!InvalidateTag(c, t)
  BY <1>3, TagCallBegins
<1>4. ASSUME NEW a \in TagCalls, NEW v, NEW tags \in TagLists,
             Redis!SetWithTags(c, a[2], v, a[3], tags)
      PROVE  Tagged'
  <2>1. a[3] \in Nat
    BY ManagerAssumption DEF ManagerAssumption
  <2>. QED  BY <1>4, <2>1, TagCallBegins
<1>. QED  BY <1>1, <1>2, <1>3, <1>4 DEF RedisOnly, ClearAll, Cache, InRedis

LEMMA TagNext ==
  ASSUME Inv, TagInv, [Next]_vars
  PROVE  TagInv'
<1>1. ASSUME UNCHANGED <<backend, inRedis>> PROVE TagInv'
  <2>1. UNCHANGED <<backend, store, members, tagExp, call, promised, parted>>
    BY <1>1 DEF inRedis
  <2>. QED  BY <2>1, TaggedSame DEF TagInv
<1>2. UNCHANGED backend /\ (backend = "memory" => UNCHANGED promised)
  BY DEF Next, vars, inRedis, Time, CleanupLoop, Count, ClearAll, RedisOnly, InvalidateTable, DeleteKey,
         GetSchema, SetSchema, GetQueryResult, SetQueryResult, Lookup, Store, Cache
<1>3. CASE backend # "redis"
  BY <1>2, <1>3 DEF TagInv, Inv, Types
<1>4. ASSUME backend = "redis", Next PROVE TagInv'
  <2>1. InRedis /\ Tagged
    BY <1>4 DEF TagInv, Inv, InRedis
  <2>2. ASSUME Tagged' PROVE TagInv'
    BY <1>2, <1>4, <2>2 DEF TagInv
  <2>3. CASE Time \/ CleanupLoop
    <3>1. Redis!Clock
      BY <1>4, <2>3 DEF Time, CleanupLoop, Cache
    <3>. QED  BY <2>1, <2>2, <3>1, TagClock
  <2>4. ASSUME NEW c \in Callers, Count(c) PROVE TagInv'
    BY <1>1, <2>4 DEF Count
  <2>5. ASSUME NEW c \in Callers, RedisOnly(c) \/ ClearAll(c) PROVE TagInv'
    BY <2>1, <2>2, <2>5, TagRedisOnly
  <2>6. ASSUME NEW c \in Callers,
               \/ \E k : GetQueryResult(c, k) \/ GetSchema(c, k) \/ DeleteKey(c, k)
               \/ \E t : InvalidateTable(c, t)
        PROVE TagInv'
    <3>1. PICK k : Redis!Get(c, k) \/ Redis!Delete(c, k)
      BY <1>4, <2>6 DEF GetQueryResult, GetSchema, InvalidateTable, DeleteKey, Lookup, Cache
    <3>. QED  BY <2>1, <2>2, <3>1, TagOneCommand
  <2>7. ASSUME NEW c \in Callers,
               \/ \E k, v : SetSchema(c, k, v)
               \/ \E k, v, ttl : SetQueryResult(c, k, v, ttl)
        PROVE TagInv'
    BY <2>1, <2>2, <2>7, TagStores
  <2>. QED  BY <1>4, <2>3, <2>4, <2>5, <2>6, <2>7 DEF Next
<1>5. CASE UNCHANGED vars
  BY <1>1, <1>5 DEF vars
<1>. QED  BY <1>3, <1>4, <1>5

\* Any number of callers may tag, invalidate, set and delete, with any lifetimes and
\* between each other's commands: a value that SetWithTags has stored is named by its
\* tags for as long as it is there, unless the lifetime of the set was overwritten by
\* one that ends earlier, an invalidation took the set that was read before the value
\* was added to it, or the set expired between the value's SADD and its EXPIRE.
THEOREM TagsReach == Spec => []TagsCover
<1>1. ASSUME Inv, TagInv PROVE TagsCover
  <2>1. ASSUME NEW p \in promised, p \notin parted, p[1] \in DOMAIN store PROVE p[1] \in members[p[2]]
    <3>1. Tagged
      BY <1>1, <2>1 DEF TagInv
    <3>2. p = <<p[1], p[2]>>
      BY <3>1 DEF Tagged, Pairs
    <3>3. Live(p[1], p[2]) /\ There(p[1], p[2])
      BY <2>1, <3>2 DEF Live, There
    <3>. QED  BY <3>1, <3>3 DEF Tagged, Covered
  <2>. QED  BY <2>1 DEF TagsCover, Redis!TagsCover, Redis!Present
<1>2. Inv /\ TagInv /\ [Next]_vars => (Inv /\ TagInv)'
  BY InvNext, TagNext
<1>. QED  BY <1>1, <1>2, InvInit, TagInit, PTL DEF Spec
=============================================================================
