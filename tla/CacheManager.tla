---------------------------- MODULE CacheManager ----------------------------
(***************************************************************************)
(* The cache manager: internal/cache/cache.go, with caching, query caching *)
(* and schema caching enabled, over the memory cache or over Redis.        *)
(*                                                                         *)
(* The manager counts hits and misses of its own under its own mutex,      *)
(* after the cache has given up its one.                                   *)
(***************************************************************************)
EXTENDS MemoryCache

CONSTANTS
  Callers,     \* goroutines that call the manager
  ValuesOver,  \* bound: values that are stored over a backend
  Walkers,     \* bound: those that sweep and invalidate tags
  Tables,
  QueryKeys,   \* GenerateKey: "gql:" and a hash
  SchemaKeys,  \* "schema:" and a name
  TableKeyOf,  \* "table:" and the table's name
  QueryTTL, SchemaTTL,
  Tags, TagLists, Grace,  \* see RedisCache
  TagCalls,    \* bound: who stores which key with tags, and for how long
  Undecodable, \* values json.Unmarshal refuses: nested too deep, or not the manager's
  MaxAsked, MaxErrors  \* bounds: calls of Get that Redis answers, and RedisCache's

ASSUME ManagerAssumption ==
  /\ TableKeyOf \in [Tables -> Keys \ (QueryKeys \cup SchemaKeys)]
  /\ QueryKeys \cup SchemaKeys \subseteq Keys /\ QueryKeys \cap SchemaKeys = {}
  /\ {QueryTTL, SchemaTTL} \subseteq Nat
  /\ ValuesOver \in [{"memory", "redis"} -> SUBSET Values]
  /\ Values \cap {"miss", "failed"} = {} /\ Undecodable \subseteq Values
  /\ Walkers \subseteq Callers /\ TagLists \subseteq Seq(Tags)
  /\ TagCalls \subseteq Callers \X QueryKeys \X Nat /\ {Grace, MaxAsked, MaxErrors} \subseteq Nat /\ Grace > 0

Counters == {"queryHits", "queryMisses", "schemaHits", "schemaMisses"}

VARIABLES
  backend,     \* config.Backend
  store, members, tagExp, call, promised, parted, errors,  \* see RedisCache
  count,       \* the four counters
  owes,        \* the counter a caller is about to increment
  undecoded    \* history: hits whose value could not be decoded

inMemory == <<items, lru, bytesUsed, evictions, recent, evicted>>
inRedis == <<store, members, tagExp, call, promised, parted, errors>>
vars == <<mcvars, inRedis, backend, count, owes, undecoded>>

Redis == INSTANCE RedisCache WITH
  Clients <- Callers, ClearPatterns <- <<QueryKeys, SchemaKeys>>,
  MaxCalls <- MaxAsked

Init ==
  /\ backend \in {"memory", "redis"}
  /\ CacheInit /\ Redis!Init
  /\ count = [n \in Counters |-> 0]
  /\ owes = [c \in Callers |-> {}] /\ undecoded = 0

\* m.cache: one of the two.
Cache(memoryCall, redisCall) ==
  /\ \/ backend = "memory" /\ memoryCall /\ UNCHANGED inRedis
     \/ backend = "redis" /\ redisCall /\ UNCHANGED inMemory
  /\ UNCHANGED backend

Counted == UNCHANGED <<count, owes, undecoded>>

\* A hit on a value that does not decode is returned as a miss and counted as neither.
Lookup(c, k, refused, hit, miss) ==
  /\ owes[c] = {} /\ Cache(Get(k), Redis!Get(c, k))
  /\ IF answer'[2] \in refused
     THEN undecoded' = undecoded + 1 /\ UNCHANGED owes
     ELSE /\ owes' = [owes EXCEPT ![c] = {IF answer'[2] \in Values THEN hit ELSE miss}]
          /\ UNCHANGED undecoded
  /\ UNCHANGED count

GetQueryResult(c, k) == Lookup(c, k, Undecodable, "queryHits", "queryMisses")

\* The schema is returned as the bytes it is.
GetSchema(c, k) == Lookup(c, k, {}, "schemaHits", "schemaMisses")

Count(c) ==
  /\ \E n \in owes[c] : count' = [count EXCEPT ![n] = @ + 1]
  /\ owes' = [owes EXCEPT ![c] = {}]
  /\ UNCHANGED <<mcvars, inRedis, backend, undecoded>>

Store(c, k, v, ttl) ==
  owes[c] = {} /\ Cache(Set(k, v, ttl), Redis!Set(c, k, v, ttl)) /\ Counted

SetQueryResult(c, k, v, ttl) == Store(c, k, v, IF ttl = 0 THEN QueryTTL ELSE ttl)

SetSchema(c, k, v) == Store(c, k, v, SchemaTTL)

DeleteKey(c, k) ==
  owes[c] = {} /\ Cache(Delete(k), Redis!Delete(c, k)) /\ Counted

\* Delete of a key that nothing ever sets: the queries of the table stay cached.
InvalidateTable(c, t) == DeleteKey(c, TableKeyOf[t])

ClearAll(c) == c \in Walkers /\ owes[c] = {} /\ Cache(Clear, Redis!Clear(c)) /\ Counted

Time == Cache(Clock, Redis!Clock) /\ Counted

CleanupLoop == Cache(Cleanup, FALSE) /\ Counted

\* Operations of Redis alone; nothing in the repository calls those with tags or
\* patterns.
RedisOnly(c) ==
  /\ owes[c] = {}
  /\ Cache(FALSE,
       \/ Redis!Command(c)
       \/ \E a \in TagCalls, v \in ValuesOver[backend], tags \in TagLists :
            a[1] = c /\ Redis!SetWithTags(c, a[2], v, a[3], tags)
       \/ /\ c \in Walkers
          /\ \/ \E p \in {QueryKeys, SchemaKeys} : Redis!InvalidatePattern(c, p)
             \/ \E t \in Tags : Redis!InvalidateTag(c, t))
  /\ Counted

Next ==
  \/ Time \/ CleanupLoop
  \/ \E c \in Callers :
       \/ Count(c) \/ ClearAll(c) \/ RedisOnly(c)
       \/ \E t \in Tables : InvalidateTable(c, t)
       \/ \E k \in QueryKeys \cup SchemaKeys : DeleteKey(c, k)
       \/ \E k \in SchemaKeys : GetSchema(c, k) \/ \E v \in ValuesOver[backend] : SetSchema(c, k, v)
       \/ \E k \in QueryKeys :
            GetQueryResult(c, k)
            \/ \E v \in ValuesOver[backend], ttl \in TTLs : SetQueryResult(c, k, v, ttl)

Spec == Init /\ [][Next]_vars

-----------------------------------------------------------------------------
\* Get returns the last value set for that very key and not after its expiry; it
\* misses only what has expired, was deleted, cleared or invalidated, gave way to
\* others, or when Redis fails.  A Clear that has returned counts as the deletion of
\* every key that was not set since it began, whatever others did between its pages.
ReadsLastWrite ==
  answer # << >> /\ answer[2] # "failed" =>
    LET k == answer[1] IN
    IF answer[2] = "miss"
    THEN k \notin DOMAIN written \/ k \in evicted \/ now > written[k].exp
    ELSE k \in DOMAIN written /\ written[k].value = answer[2] /\ now <= written[k].exp

\* While a tagged value is there, its tags name it, but for what the code itself lets
\* go (RedisCache).
TagsCover == Redis!TagsCover

Owed(S) == Cardinality({c \in Callers : owes[c] \cap S # {}})

\* What is counted twice agrees: the list, the map and the byte count of the cache,
\* and its hits and misses with the manager's counts, the calls that are on the way to
\* them and the hits that did not decode, which the manager counts as neither
\* (cache.go:204-207).
AccountsAgree ==
  /\ backend = "memory" => StructuresAgree
  /\ hits = count["queryHits"] + count["schemaHits"] + Owed({"queryHits", "schemaHits"})
                + undecoded
  /\ misses = count["queryMisses"] + count["schemaMisses"]
                + Owed({"queryMisses", "schemaMisses"})
=============================================================================
