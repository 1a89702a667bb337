----------------------------- MODULE RedisCache -----------------------------
(***************************************************************************)
(* The cache in Redis: internal/cache/redis.go.                            *)
(*                                                                         *)
(* A call of one command is one step.  Clear and InvalidatePattern walk    *)
(* the keys with SCAN and delete page by page; SetWithTags is a pipeline,  *)
(* not a transaction; InvalidateTag is three commands.  Redis executes     *)
(* commands of other clients in between, and a connection that breaks      *)
(* leaves the rest undone.  Redis itself is external.                      *)
(***************************************************************************)
EXTENDS Integers, FiniteSets, Sequences, Functions

CONSTANTS
  Clients, Keys, Values, Tags,
  TagLists,       \* tags arguments
  ClearPatterns,  \* the keys of "gql:*", then those of "schema:*"
  Grace,          \* time.Hour
  MaxTime, MaxCalls,  \* bounds of the clock and of the counted calls of Get
  MaxErrors       \* bound: commands that fail, connections that break in mid-call

VARIABLES
  now, hits, misses, answer,
  written,   \* history: value and expiry of the last Set of a key not deleted since
  store,     \* value and expiry of the keys that exist
  members,   \* content of "tag:" sets; an empty set does not exist
  tagExp,    \* expiry of a tag set
  call,      \* what a client is doing
  promised,  \* history: values and the tags a successful call stored them with
  parted,    \* history: values and tags of theirs that calls of others have parted
  errors

tagSets == <<members, tagExp>>
counters == <<hits, misses>>
vars == <<now, counters, answer, written, store, tagSets, call, promised, parted, errors>>

Present == DOMAIN store
Idle == [op |-> "idle"]

\* No expiry: later than the clock can show.  A ttl that is not positive sets none.
Never == MaxTime + 1
Expiry(ttl) == IF ttl <= 0 THEN Never ELSE now + ttl

Init ==
  /\ store = << >>
  /\ members = [t \in Tags |-> {}] /\ tagExp = [t \in Tags |-> Never]
  /\ call = [c \in Clients |-> Idle]
  /\ promised = {} /\ parted = {} /\ errors = 0

-----------------------------------------------------------------------------
(* Redis *)

\* The sets of tags T are gone.
Untagged(T) ==
  /\ members' = [t \in Tags |-> IF t \in T THEN {} ELSE members[t]]
  /\ tagExp' = [t \in Tags |-> IF t \in T THEN Never ELSE tagExp[t]]


WithoutKeys(pairs, D) == {p \in pairs : p[1] \notin D}

Fails == errors < MaxErrors /\ errors' = errors + 1

\* What Redis holds after SET, and what the histories say of it.
Put(k, v, ttl) ==
  LET e == [value |-> v, exp |-> Expiry(ttl)] IN
  /\ store' = [j \in Present \cup {k} |-> IF j = k THEN e ELSE store[j]]
  /\ written' = [j \in DOMAIN written \cup {k} |-> IF j = k THEN e ELSE written[j]]
  /\ promised' = WithoutKeys(promised, {k}) /\ parted' = WithoutKeys(parted, {k})

\* What is left after DEL of the keys D.
Drop(D) ==
  /\ store' = Restrict(store, Present \ D)
  /\ promised' = WithoutKeys(promised, D) /\ parted' = WithoutKeys(parted, D)

Sweeping(c) == call[c].op \in {"scan", "del"}
Adding(c) == call[c].op \in {"sadd", "expire"}
Invalidating(c) == call[c].op \in {"delkeys", "deltag"}

\* A key that is set anew need not be found by the sweeps that have begun, and is no
\* longer the one of the calls that set it before ...
Spared(k) ==
  [c \in Clients |->
     IF Sweeping(c) THEN [call[c] EXCEPT !.spared = @ \cup {k}]
     ELSE IF Adding(c) THEN [call[c] EXCEPT !.mine = @ \ {k}] ELSE call[c]]

\* ... nor need one that is gone be returned by their iterations.
Excused(D) ==
  [c \in Clients |-> IF Sweeping(c) THEN [call[c] EXCEPT !.owed = @ \ D] ELSE call[c]]

\* Time passes, also in mid-call.  What has expired is gone; a set that expires
\* between SADD and EXPIRE takes the key just added with it.
Clock ==
  LET gone == {k \in Present : now' > store[k].exp}
      ended == {t \in Tags : now' > tagExp[t]}
      lost == {c \in Clients : call[c].op = "expire" /\ call[c].tags[call[c].next] \in ended}
  IN
  /\ now < MaxTime /\ now' = now + 1
  /\ store' = Restrict(store, Present \ gone)
  /\ written' = Restrict(written, {k \in DOMAIN written : now' <= written[k].exp})
  /\ Untagged(ended)
  /\ promised' = WithoutKeys(promised, gone)
  /\ parted' = WithoutKeys(parted \cup {<<call[c].key, call[c].tags[call[c].next]>> : c \in lost}, gone)
  /\ call' = Excused(gone) /\ answer' = << >>
  /\ UNCHANGED <<counters, errors>>

-----------------------------------------------------------------------------
(* Calls of one command *)

\* Any error is a miss.
Get(c, k) ==
  /\ call[c] = Idle
  /\ hits + misses < MaxCalls
  /\ \/ /\ k \in Present
        /\ hits' = hits + 1 /\ answer' = <<k, store[k].value>>
        /\ UNCHANGED <<misses, errors>>
     \/ /\ misses' = misses + 1
        /\ \/ k \notin Present /\ answer' = <<k, "miss">> /\ UNCHANGED errors
           \/ Fails /\ answer' = <<k, "failed">>
        /\ UNCHANGED hits
  /\ UNCHANGED <<now, written, store, tagSets, call, promised, parted>>

\* A SET that fails changes nothing, or was executed and its answer lost.
Set(c, k, v, ttl) ==
  /\ call[c] = Idle
  /\ Put(k, v, ttl)
  /\ call' = Spared(k) /\ answer' = << >>
  /\ UNCHANGED <<now, counters, tagSets, errors>>

Delete(c, k) ==
  /\ call[c] = Idle
  /\ Drop({k})
  /\ written' = Restrict(written, DOMAIN written \ {k})
  /\ call' = Excused({k}) /\ answer' = << >>
  /\ UNCHANGED <<now, counters, tagSets, errors>>

-----------------------------------------------------------------------------
(* Calls of several commands *)

Begins(c, s) ==
  /\ call[c] = Idle /\ call' = [call EXCEPT ![c] = s]
  /\ answer' = << >>
  /\ UNCHANGED <<now, counters, written, store, tagSets, promised, parted, errors>>

Within(c, op) == call[c].op = op /\ answer' = << >> /\ UNCHANGED <<now, counters>>

\* The connection breaks: what the call has not done yet stays undone.
Breaks(c) ==
  /\ call[c] # Idle /\ Fails
  /\ call' = [call EXCEPT ![c] = Idle] /\ answer' = << >>
  /\ UNCHANGED <<now, counters, written, store, tagSets, promised, parted>>

\* for each pattern: the keys that SCAN has to return before its cursor is 0.
ScanOf(patterns, present, spared) ==
  [op |-> "scan", patterns |-> patterns, owed |-> present \cap Head(patterns),
   spared |-> spared]

Sweep(c, patterns) == Begins(c, ScanOf(patterns, Present, {}))

Clear(c) == Sweep(c, ClearPatterns)

InvalidatePattern(c, p) == Sweep(c, <<p>>)

\* A page of some of the keys there are.  The last page comes when all keys that
\* have been there since the iteration began were returned.
Scan(c) ==
  LET s == call[c] IN
  /\ Within(c, "scan")
  /\ \E page \in SUBSET (Present \cap Head(s.patterns)), last \in BOOLEAN :
       /\ IF last THEN s.owed \subseteq page ELSE page # {}
       /\ call' = [call EXCEPT ![c] =
            [op |-> "del", page |-> page, last |-> last, patterns |-> s.patterns,
             owed |-> s.owed \ page, spared |-> s.spared]]
  /\ UNCHANGED <<written, store, tagSets, promised, parted, errors>>

\* The keys that were written before the sweep began count as deleted when it is over.
Survivors(s) == (DOMAIN written \ s.page) \ IF s.last THEN Head(s.patterns) \ s.spared ELSE {}

AfterPage(s) ==
  CASE ~s.last -> [op |-> "scan", patterns |-> s.patterns, owed |-> s.owed, spared |-> s.spared]
    [] s.last /\ Len(s.patterns) > 1 ->
         ScanOf(Tail(s.patterns), Present \ s.page, s.spared)
    [] OTHER -> Idle

\* Faulty variant: the loop ends with the first page.
DelPage_FirstOnly(c) ==
  LET s == [call[c] EXCEPT !.last = TRUE] IN
  /\ Within(c, "del")
  /\ Drop(s.page)
  /\ written' = Restrict(written, Survivors(s))
  /\ call' = [Excused(s.page) EXCEPT ![c] = AfterPage(s)]
  /\ UNCHANGED <<tagSets, errors>>

\* DEL of the page; an empty one needs no command.
DelPage(c) ==
  LET s == call[c] IN
  /\ Within(c, "del")
  /\ Drop(s.page)
  /\ written' = Restrict(written, Survivors(s))
  /\ call' = [Excused(s.page) EXCEPT ![c] = AfterPage(s)]
  /\ UNCHANGED <<tagSets, errors>>

-----------------------------------------------------------------------------
(* SetWithTags *)

SetWithTags(c, k, v, ttl, tags) ==
  Begins(c, [op |-> "set", key |-> k, value |-> v, ttl |-> ttl, tags |-> tags])

SetTagged(c) ==
  LET s == call[c] IN
  /\ Within(c, "set")
  /\ Put(s.key, s.value, s.ttl)
  /\ call' = [Spared(s.key) EXCEPT ![c] =
                [op |-> "sadd", key |-> s.key, ttl |-> s.ttl, tags |-> s.tags, next |-> 1,
                 mine |-> {s.key}]]
  /\ UNCHANGED <<tagSets, errors>>

\* Invalidations that have read the set know nothing of a key that is added to it.
Told(t, k) ==
  [c \in Clients |-> IF Invalidating(c) /\ call[c].tag = t
                     THEN [call[c] EXCEPT !.added = @ \cup {k}] ELSE call[c]]

\* SADD makes a set that never expires, or leaves the expiry of the one there is.
SAdd(c) ==
  LET s == call[c]
      t == s.tags[s.next]
  IN
  /\ Within(c, "sadd") /\ s.next <= Len(s.tags)
  /\ members' = [members EXCEPT ![t] = @ \cup {s.key}]
  /\ call' = [Told(t, s.key) EXCEPT ![c].op = "expire"]
  /\ UNCHANGED <<written, store, tagExp, promised, parted, errors>>

\* EXPIRE of a set that is gone does nothing.  A set has one lifetime, the last that
\* was written: values that live longer part from it.
Expire(c) ==
  LET s == call[c]
      t == s.tags[s.next]
      end == now + s.ttl + Grace
      there == members[t] \cap Present
  IN
  /\ Within(c, "expire")
  /\ tagExp' = [tagExp EXCEPT ![t] = IF members[t] = {} THEN @ ELSE end]
  /\ parted' = (parted \ (there \X {t})) \cup ({k \in there : store[k].exp > end} \X {t})
  /\ call' = [call EXCEPT ![c] = [s EXCEPT !.op = "sadd", !.next = @ + 1]]
  /\ UNCHANGED <<written, store, members, promised, errors>>

\* Exec returns nil: every command was executed.  What the call stored may have been
\* stored anew by others.
Stored(c) ==
  LET s == call[c] IN
  /\ Within(c, "sadd") /\ s.next > Len(s.tags)
  /\ promised' = promised \cup (s.mine \X Range(s.tags))
  /\ call' = [call EXCEPT ![c] = Idle]
  /\ UNCHANGED <<written, store, tagSets, parted, errors>>

-----------------------------------------------------------------------------
(* InvalidateTag *)

\* SMEMBERS
InvalidateTag(c, t) ==
  Begins(c, [op |-> IF members[t] = {} THEN "deltag" ELSE "delkeys",
             tag |-> t, keys |-> members[t], added |-> {}])

\* Faulty variant: the tag set is deleted before the keys it names.
DelKeys_TagFirst(c) ==
  LET s == call[c] IN
  /\ Within(c, "delkeys")
  /\ Untagged({s.tag})
  /\ call' = [call EXCEPT ![c].op = "deltag"]
  /\ UNCHANGED <<written, store, promised, parted, errors>>

\* DEL of every key at once.
DelKeys(c) ==
  LET s == call[c] IN
  /\ Within(c, "delkeys")
  /\ Drop(s.keys)
  /\ written' = Restrict(written, DOMAIN written \ s.keys)
  /\ call' = [Excused(s.keys) EXCEPT ![c].op = "deltag"]
  /\ UNCHANGED <<tagSets, errors>>

\* The set goes with the keys that were added since it was read: their values stay.
DelTag(c) ==
  LET s == call[c] IN
  /\ Within(c, "deltag")
  /\ Untagged({s.tag})
  /\ parted' = parted \cup (s.added \X {s.tag})
  /\ call' = [call EXCEPT ![c] = Idle]
  /\ UNCHANGED <<written, store, promised, errors>>

\* The next command of a call of several.
Command(c) ==
  \/ Scan(c) \/ DelPage(c)
  \/ SetTagged(c) \/ SAdd(c) \/ Expire(c) \/ Stored(c)
  \/ DelKeys(c) \/ DelTag(c)
  \/ Breaks(c)

-----------------------------------------------------------------------------
\* "SetWithTags stores a value with associated tags for later invalidation": while
\* the value is there its tags name it, but for what the code itself lets go: the
\* lifetime of the set was overwritten by one that ends before the value's (EXPIRE,
\* also that of the value's own call when it has no ttl), an invalidation deleted the
\* set with the value added after it read it, or the set expired between the value's
\* SADD and its EXPIRE.
TagsCover == \A p \in promised \ parted : p[1] \in Present => p[1] \in members[p[2]]
=============================================================================
