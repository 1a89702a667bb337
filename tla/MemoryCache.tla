---------------------------- MODULE MemoryCache ----------------------------
(***************************************************************************)
(* The in-memory LRU cache with expiry: internal/cache/memory.go.          *)
(*                                                                         *)
(* Every operation holds the mutex from its first to its last line, so     *)
(* each is one action.  The map and the list are two structures that must  *)
(* stay in step: Set loops until the map is below its limit and evicts     *)
(* from the list.                                                          *)
(***************************************************************************)
EXTENDS Integers, Sequences, FiniteSets, Functions

CONSTANTS
  Keys, Values,
  SizeOf,      \* len(value)
  MaxSize,     \* maxSize; NewMemoryCache replaces one that is not positive
  DefaultTTL,  \* defaultTTL, likewise
  TTLs,        \* ttl arguments of Set
  MaxTime,     \* bound: clock
  MaxCalls     \* bound: calls of Get and evictions that are counted

ASSUME CacheAssumption ==
  /\ SizeOf \in [Values -> Nat] /\ TTLs \subseteq Int
  /\ {MaxSize, DefaultTTL} \subseteq Nat \ {0} /\ {MaxTime, MaxCalls} \subseteq Nat

VARIABLES
  now,
  items,      \* c.items: the value and expiry of a key
  lru,        \* c.lruList, most recently used first
  bytesUsed, hits, misses, evictions,
  answer,     \* what Get has just returned; << >> after any other step
  written,    \* history: value and expiry of the last Set of a key not deleted since
  recent,     \* history: keys in the order of their last use
  evicted     \* history: keys evicted since their last Set

stats == <<hits, misses, evictions>>
mcvars == <<now, items, lru, bytesUsed, stats, answer, written, recent, evicted>>

Present == DOMAIN items

CacheInit ==
  /\ now = 0
  /\ items = << >> /\ lru = << >>
  /\ bytesUsed = 0 /\ hits = 0 /\ misses = 0 /\ evictions = 0
  /\ answer = << >>
  /\ written = << >> /\ recent = << >> /\ evicted = {}

\* The positions S of a list, in their order.
Ascending(S) ==
  CHOOSE f \in [1..Cardinality(S) -> S] : \A m, n \in DOMAIN f : m < n => f[m] < f[n]

\* What is left of a list without the keys D.
Without(s, D) ==
  LET kept == Ascending({n \in DOMAIN s : s[n] \notin D})
  IN  [n \in DOMAIN kept |-> s[kept[n]]]

ToFront(k, s) == <<k>> \o Without(s, {k})

\* One by one, so that their number is the size of the values of keys D.
Octets(D) == UNION {{k} \X (1..SizeOf[items[k].value]) : k \in D}

Bytes(D) == Cardinality(Octets(D))

\* removeItem, for every key of D
Remove(D) ==
  /\ items' = Restrict(items, Present \ D)
  /\ lru' = Without(lru, D)
  /\ bytesUsed' = bytesUsed - Bytes(D)

Expired(k) == now > items[k].exp

-----------------------------------------------------------------------------
Clock ==
  /\ now < MaxTime /\ now' = now + 1
  /\ answer' = << >>
  /\ UNCHANGED <<items, lru, bytesUsed, stats, written, recent, evicted>>

Miss(k) ==
  /\ misses < MaxCalls /\ misses' = misses + 1
  /\ answer' = <<k, "miss">>
  /\ UNCHANGED <<now, hits, evictions, written, recent, evicted>>

\* Faulty variant: a hit does not count as a use.
Get_NoMove(k) ==
  \/ k \notin Present /\ Miss(k) /\ UNCHANGED <<items, lru, bytesUsed>>
  \/ k \in Present /\ Expired(k) /\ Miss(k) /\ Remove({k})
  \/ /\ k \in Present /\ ~Expired(k) /\ hits < MaxCalls
     /\ recent' = ToFront(k, recent)
     /\ hits' = hits + 1 /\ answer' = <<k, items[k].value>>
     /\ UNCHANGED <<now, items, lru, bytesUsed, misses, evictions, written, evicted>>

Get(k) ==
  \/ k \notin Present /\ Miss(k) /\ UNCHANGED <<items, lru, bytesUsed>>
  \/ k \in Present /\ Expired(k) /\ Miss(k) /\ Remove({k})
  \/ /\ k \in Present /\ ~Expired(k) /\ hits < MaxCalls
     /\ lru' = ToFront(k, lru) /\ recent' = ToFront(k, recent)
     /\ hits' = hits + 1 /\ answer' = <<k, items[k].value>>
     /\ UNCHANGED <<now, items, bytesUsed, misses, evictions, written, evicted>>

Lifetime(ttl) == IF ttl <= 0 THEN DefaultTTL ELSE ttl

Entry(v, ttl) == [value |-> v, exp |-> now + Lifetime(ttl)]

With(f, k, x) == [j \in DOMAIN f \cup {k} |-> IF j = k THEN x ELSE f[j]]

\* Faulty variant: an overwritten value keeps its bytes.
Overwrite_Adds(k, e) ==
  /\ k \in Present
  /\ items' = With(items, k, e)
  /\ bytesUsed' = bytesUsed + SizeOf[e.value]
  /\ lru' = ToFront(k, lru)
  /\ UNCHANGED evictions

Overwrite(k, e) ==
  /\ k \in Present
  /\ items' = With(items, k, e)
  /\ bytesUsed' = bytesUsed + SizeOf[e.value] - SizeOf[items[k].value]
  /\ lru' = ToFront(k, lru)
  /\ UNCHANGED evictions

\* for len(c.items) >= c.maxSize { c.evictOldest() }
Victims == {lru[n] : n \in MaxSize..Len(lru)}

Insert(k, e) ==
  /\ k \notin Present
  /\ evictions + Cardinality(Victims) <= MaxCalls
  /\ evictions' = evictions + Cardinality(Victims)
  /\ items' = With(Restrict(items, Present \ Victims), k, e)
  /\ lru' = ToFront(k, Without(lru, Victims))
  /\ bytesUsed' = bytesUsed - Bytes(Victims) + SizeOf[e.value]

Set(k, v, ttl) ==
  /\ Overwrite(k, Entry(v, ttl)) \/ Insert(k, Entry(v, ttl))
  /\ answer' = << >>
  /\ written' = With(written, k, Entry(v, ttl))
  /\ recent' = ToFront(k, recent)
  /\ evicted' = (evicted \cup (Present \ DOMAIN items')) \ {k}
  /\ UNCHANGED <<now, hits, misses>>

Delete(k) ==
  /\ Remove({k} \cap Present)
  /\ answer' = << >>
  /\ written' = Restrict(written, DOMAIN written \ {k})
  /\ UNCHANGED <<now, stats, recent, evicted>>

Clear ==
  /\ items' = << >> /\ lru' = << >> /\ bytesUsed' = 0
  /\ answer' = << >> /\ written' = << >>
  /\ UNCHANGED <<now, stats, recent, evicted>>

\* cleanup, once a minute: all expired items in one critical section.
Cleanup ==
  /\ Remove({k \in Present : Expired(k)})
  /\ answer' = << >>
  /\ UNCHANGED <<now, stats, written, recent, evicted>>

-----------------------------------------------------------------------------
\* The list holds the keys of the map, each once and never more than the limit, and
\* the byte count is their size: every way an item leaves or changes keeps the three
\* structures in step.
StructuresAgree ==
  /\ Range(lru) = Present /\ Len(lru) = Cardinality(Present)
  /\ Cardinality(Present) <= MaxSize
  /\ bytesUsed = Bytes(Present)

\* What gives way is what has not been used for longest.
EvictsLeastRecent ==
  [][evictions' > evictions =>
       \A out \in Present \ DOMAIN items', in \in Present \cap DOMAIN items' :
         \E m, n \in DOMAIN recent : recent[m] = in /\ recent[n] = out /\ m < n]_mcvars
=============================================================================
