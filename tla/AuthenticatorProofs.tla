------------------------ MODULE AuthenticatorProofs ------------------------
(* Theorems about Authenticator, for any number of concurrent requests, any   *)
(* configurations, tokens and keys, and any times.                            *)
EXTENDS Authenticator, SequenceTheorems, TLAPS

-----------------------------------------------------------------------------
(* The inductive invariant *)

Types ==
  /\ config \in Configs /\ now \in Nat
  /\ published \subseteq Keys /\ jwks \subseteq Keys
  /\ withdrawn \in [Keys -> Nat \cup {NoTime}] /\ expires \in Nat \cup {NoTime}
  /\ pc \in [Clients -> {"idle", "done", "webhook", "lookup", "lock", "fetch", "verify", "claims"}]
  /\ request \in [Clients -> {None} \cup Requests]
  /\ key \in [Clients -> {NoKey, config.static} \cup Keys]
  /\ answer = [c \in Clients |-> answer[c]]

InToken(c) == pc[c] \in {"lookup", "lock", "fetch", "verify", "claims"}

\* A token on its way has passed the checks so far.
Passed ==
  \A c \in Clients :
    LET t == request[c].token IN
    /\ InToken(c) => /\ request[c] \in Requests /\ t # None
                     /\ ExpectedAlgorithm # "" => t.alg = ExpectedAlgorithm
    /\ pc[c] = "claims" => \/ t.signer \in Keys \/ t.signer = config.static
                           \/ ~config.legacy /\ config.skipVerification

\* The request that fetches holds the lock, and found the cache expired.
LockHeld ==
  /\ \A c \in Clients : pc[c] = "fetch" => lock = c
  /\ lock # None => ~Valid

\* Keys that were read at or after time t.
ReadSince(keys, t) == \A k \in keys : k \in published \/ (withdrawn[k] \in Nat /\ t <= withdrawn[k])

\* A fetch takes FetchLimit at most, and its keys were published since it began.
FetchIsFresh ==
  IF lock = None THEN fetch = None
  ELSE /\ fetch \in [start : Nat, keys : {None} \cup SUBSET Keys]
       /\ fetch.start <= now /\ now <= fetch.start + FetchLimit
       /\ fetch.keys # None => ReadSince(fetch.keys, fetch.start)

\* What is stored was published when its fetch began, and is not kept for longer than TTL.
CacheIsFresh ==
  expires # NoTime =>
    /\ expires <= now + TTL
    /\ \A k \in jwks : \/ k \in published
                       \/ withdrawn[k] \in Nat /\ expires <= withdrawn[k] + TTL + FetchLimit

Inv == Types /\ Passed /\ LockHeld /\ FetchIsFresh /\ CacheIsFresh

LEMMA InvInit == Init => Inv
<1>. USE AuthenticatorAssumption DEF AuthenticatorAssumption
<1>1. Init => Types
  BY DEF Init, Types
<1>. QED  BY <1>1 DEF Init, Inv, Passed, LockHeld, FetchIsFresh, CacheIsFresh, InToken

-----------------------------------------------------------------------------
(* Steps of a request *)

Ahead == {"lookup", "lock", "fetch", "verify", "claims"}

\* A request moves on.
LEMMA Moves ==
  ASSUME Types, Passed, NEW c \in Clients, UNCHANGED surroundings,
         NEW to \in {"done", "webhook"} \cup Ahead, pc' = [pc EXCEPT ![c] = to],
         NEW r \in {None} \cup Requests, request' = [request EXCEPT ![c] = r],
         to \in Ahead =>
           /\ r \in Requests /\ r.token # None
           /\ ExpectedAlgorithm # "" => r.token.alg = ExpectedAlgorithm,
         to = "claims" => \/ r.token.signer \in Keys \/ r.token.signer = config.static
                          \/ ~config.legacy /\ config.skipVerification,
         NEW k \in {NoKey, config.static} \cup Keys, key' = [key EXCEPT ![c] = k],
         NEW a, answer' = [answer EXCEPT ![c] = a],
         jwks' \subseteq Keys, expires' \in Nat \cup {NoTime}
  PROVE  Types' /\ Passed'
<1>. USE DEF surroundings, Ahead
<1>1. Types'
  BY DEF Types
<1>2. Passed'
  <2>. SUFFICES ASSUME NEW d \in Clients
                PROVE  LET t == request'[d].token IN
                       /\ InToken(d)' => /\ request'[d] \in Requests /\ t # None
                                         /\ ExpectedAlgorithm # "" => t.alg = ExpectedAlgorithm
                       /\ pc'[d] = "claims" => \/ t.signer \in Keys \/ t.signer = config.static
                                               \/ ~config.legacy /\ config.skipVerification
    BY DEF Passed, ExpectedAlgorithm
  <2>1. CASE d = c
    <3>1. request'[d] = r /\ pc'[d] = to
      BY <2>1 DEF Types
    <3>. QED  BY <3>1 DEF InToken
  <2>2. CASE d # c
    <3>1. request'[d] = request[d] /\ pc'[d] = pc[d]
      BY <2>2 DEF Types
    <3>. QED  BY <3>1 DEF Passed, InToken
  <2>. QED  BY <2>1, <2>2
<1>. QED  BY <1>1, <1>2

\* ... and the cache stays.
LEMMA InvMoves ==
  ASSUME Inv, NEW c \in Clients, UNCHANGED <<surroundings, shared>>,
         NEW to \in {"done", "webhook", "lookup", "lock", "verify", "claims"}, pc' = [pc EXCEPT ![c] = to],
         NEW r \in {None} \cup Requests, request' = [request EXCEPT ![c] = r],
         to \in {"lookup", "lock", "verify", "claims"} =>
           /\ r \in Requests /\ r.token # None
           /\ ExpectedAlgorithm # "" => r.token.alg = ExpectedAlgorithm,
         to = "claims" => \/ r.token.signer \in Keys \/ r.token.signer = config.static
                          \/ ~config.legacy /\ config.skipVerification,
         NEW k \in {NoKey, config.static} \cup Keys, key' = [key EXCEPT ![c] = k],
         NEW a, answer' = [answer EXCEPT ![c] = a]
  PROVE  Inv'
<1>1. Types' /\ Passed'
  <2>1. jwks' \subseteq Keys /\ expires' \in Nat \cup {NoTime}
    BY DEF Inv, Types, shared
  <2>2. to \in {"done", "webhook"} \cup Ahead /\ (to \in Ahead => to \in {"lookup", "lock", "verify", "claims"})
    BY DEF Ahead
  <2>. QED  BY <2>1, <2>2, Moves DEF Inv
<1>2. LockHeld' /\ FetchIsFresh' /\ CacheIsFresh'
  BY DEF Inv, LockHeld, Types, Valid, FetchIsFresh, CacheIsFresh, ReadSince, surroundings, shared
<1>. QED  BY <1>1, <1>2 DEF Inv

LEMMA StaticKeyType ==
  ASSUME NEW kty
  PROVE  StaticKey(kty) \in {NoKey, config.static}
  BY DEF StaticKey

LEMMA InvAuthenticate ==
  ASSUME Inv, NEW c \in Clients, NEW r \in Requests, AuthenticateRequest(c, r)
  PROVE  Inv'
<1>1. UNCHANGED <<surroundings, shared>> /\ request' = [request EXCEPT ![c] = r]
  BY DEF AuthenticateRequest
<1>2. ASSUME NEW to \in {"done", "webhook"}, NEW a, NoKeyFor(c),
             pc' = [pc EXCEPT ![c] = to], answer' = [answer EXCEPT ![c] = a]
      PROVE  Inv'
  BY <1>1, <1>2, InvMoves DEF NoKeyFor
<1>3. CASE r.token # None /\ BeginToken(c, r.token)
  <2>1. CASE Refuse(c) /\ NoKeyFor(c)
    BY <1>2, <2>1 DEF Refuse, Answer
  <2>2. ASSUME ExpectedAlgorithm # "" => r.token.alg = ExpectedAlgorithm,
               NEW to \in {"lookup", "verify", "claims"}, Goto(c, to),
               to = "claims" => ~config.legacy /\ config.skipVerification,
               NEW k \in {NoKey, config.static}, key' = [key EXCEPT ![c] = k]
        PROVE  Inv'
    BY <1>1, <1>3, <2>2, InvMoves DEF Goto
  <2>3. CASE /\ ExpectedAlgorithm # "" => r.token.alg = ExpectedAlgorithm
             /\ ~config.legacy /\ config.skipVerification /\ Goto(c, "claims") /\ NoKeyFor(c)
    BY <2>2, <2>3 DEF NoKeyFor
  <2>4. CASE /\ ExpectedAlgorithm # "" => r.token.alg = ExpectedAlgorithm
             /\ Goto(c, "lookup") /\ NoKeyFor(c)
    BY <2>2, <2>4 DEF NoKeyFor
  <2>5. CASE /\ ExpectedAlgorithm # "" => r.token.alg = ExpectedAlgorithm
             /\ Goto(c, "verify") /\ key' = [key EXCEPT ![c] = StaticKey(r.token.alg)]
    BY <2>2, <2>5, StaticKeyType
  <2>. QED  BY <1>3, <2>1, <2>3, <2>4, <2>5 DEF BeginToken
<1>4. CASE Answer(c, Admin) /\ NoKeyFor(c)
  BY <1>2, <1>4 DEF Answer
<1>5. CASE Goto(c, "webhook") /\ NoKeyFor(c)
  BY <1>2, <1>5 DEF Goto
<1>6. CASE Refuse(c) /\ NoKeyFor(c)
  BY <1>2, <1>6 DEF Refuse, Answer
<1>. QED  BY <1>3, <1>4, <1>5, <1>6 DEF AuthenticateRequest

\* The key that is found is one of those searched, or the static key.
LEMMA FindsKey ==
  ASSUME NEW c, NEW keys, Find(c, keys)
  PROVE  \E k \in {NoKey, config.static} \cup keys : key' = [key EXCEPT ![c] = k]
  BY StaticKeyType DEF Find

LEMMA InvFind ==
  ASSUME Inv, NEW c \in Clients, InToken(c), NEW keys \in SUBSET Keys, Find(c, keys),
         UNCHANGED shared
  PROVE  Inv'
<1>1. PICK k \in {NoKey, config.static} \cup keys : key' = [key EXCEPT ![c] = k]
  BY FindsKey
<1>2. /\ UNCHANGED surroundings /\ request' = [request EXCEPT ![c] = request[c]]
      /\ pc' = [pc EXCEPT ![c] = "verify"] /\ answer' = [answer EXCEPT ![c] = NoSession]
  BY DEF Find, Goto, Inv, Types
<1>3. request[c] \in Requests /\ request[c].token # None
      /\ (ExpectedAlgorithm # "" => request[c].token.alg = ExpectedAlgorithm)
  BY DEF Inv, Passed
<1>. QED  BY <1>1, <1>2, <1>3, InvMoves

\* A step of a request that ends its wait for the webhook, for the cache or for the
\* checks, and takes no lock.
LEMMA InvChecks ==
  ASSUME Inv, NEW c \in Clients, WebhookAnswers(c) \/ ReadCache(c) \/ Verify(c) \/ CheckClaims(c)
  PROVE  Inv'
<1>1. request[c] \in {None} \cup Requests /\ key[c] \in {NoKey, config.static} \cup Keys
      /\ jwks \subseteq Keys /\ request = [request EXCEPT ![c] = request[c]]
      /\ key = [key EXCEPT ![c] = key[c]]
  BY DEF Inv, Types
<1>2. ASSUME UNCHANGED <<surroundings, shared, request>>, NEW a, Answer(c, a),
             NEW k \in {NoKey, config.static} \cup Keys, key' = [key EXCEPT ![c] = k]
      PROVE  Inv'
  <2>1. request' = [request EXCEPT ![c] = request[c]]
    BY <1>1, <1>2
  <2>. QED  BY <1>1, <1>2, <2>1, InvMoves DEF Answer
<1>3. CASE WebhookAnswers(c)
  <2>1. UNCHANGED <<surroundings, shared, request, key>> /\ \E a : Answer(c, a)
    BY <1>3 DEF WebhookAnswers, Refuse
  <2>. QED  BY <1>1, <1>2, <2>1
<1>4. CASE CheckClaims(c)
  <2>1. UNCHANGED <<surroundings, shared, request, key>> /\ \E a : Answer(c, a)
    BY <1>4 DEF CheckClaims, Refuse
  <2>. QED  BY <1>1, <1>2, <2>1
<1>5. CASE ReadCache(c)
  <2>1. CASE Valid
    BY <1>1, <1>5, <2>1, InvFind DEF ReadCache, InToken
  <2>2. CASE ~Valid
    <3>1. Goto(c, "lock") /\ UNCHANGED <<surroundings, shared, request, key>> /\ InToken(c)
      BY <1>5, <2>2 DEF ReadCache, InToken
    <3>2. /\ request[c] \in Requests /\ request[c].token # None
          /\ ExpectedAlgorithm # "" => request[c].token.alg = ExpectedAlgorithm
      BY <3>1 DEF Inv, Passed
    <3>3. request' = [request EXCEPT ![c] = request[c]] /\ key' = [key EXCEPT ![c] = key[c]]
      BY <1>1, <3>1
    <3>. QED  BY <1>1, <3>1, <3>2, <3>3, InvMoves DEF Goto
  <2>. QED  BY <2>1, <2>2
<1>6. CASE Verify(c)
  <2>1. NoKeyFor(c) /\ UNCHANGED <<surroundings, shared, request>> /\ InToken(c)
    BY <1>6 DEF Verify, InToken
  <2>2. \/ pc' = [pc EXCEPT ![c] = "done"] /\ \E a : answer' = [answer EXCEPT ![c] = a]
        \/ key[c] # NoKey /\ key[c] = request[c].token.signer /\ Goto(c, "claims")
    <3>1. CASE key[c] = NoKey
      BY <1>6, <3>1 DEF Verify, Refuse, Answer
    <3>2. CASE key[c] # NoKey /\ key[c] \in Keys /\ request[c].token.alg = "ES"
      BY <1>6, <3>2 DEF Verify, Answer
    <3>3. CASE /\ key[c] # NoKey /\ ~(key[c] \in Keys /\ request[c].token.alg = "ES")
               /\ key[c] = request[c].token.signer
      BY <1>6, <3>3 DEF Verify, Goto
    <3>4. CASE /\ key[c] # NoKey /\ ~(key[c] \in Keys /\ request[c].token.alg = "ES")
               /\ key[c] # request[c].token.signer
      BY <1>6, <3>4 DEF Verify, Refuse, Answer
    <3>. QED  BY <3>1, <3>2, <3>3, <3>4
  <2>3. ASSUME key[c] # NoKey, key[c] = request[c].token.signer, Goto(c, "claims")
        PROVE  Inv'
    <3>1. /\ request[c] \in Requests /\ request[c].token # None
          /\ ExpectedAlgorithm # "" => request[c].token.alg = ExpectedAlgorithm
      BY <2>1 DEF Inv, Passed
    <3>2. request' = [request EXCEPT ![c] = request[c]]
      BY <1>1, <2>1
    <3>. QED  BY <1>1, <2>1, <2>3, <3>1, <3>2, InvMoves DEF Goto, NoKeyFor
  <2>. QED  BY <1>2, <2>1, <2>2, <2>3 DEF NoKeyFor, Answer
<1>. QED  BY <1>3, <1>4, <1>5, <1>6

-----------------------------------------------------------------------------
(* The lock and the fetch *)

LEMMA InvLock ==
  ASSUME Inv, NEW c \in Clients, Lock(c)
  PROVE  Inv'
<1>. USE AuthenticatorAssumption DEF AuthenticatorAssumption
<1>1. CASE Valid
  <2>1. jwks \in SUBSET Keys
    BY DEF Inv, Types
  <2>. QED  BY <1>1, <2>1, InvFind DEF Lock, InToken
<1>2. CASE ~Valid
  <2>1. /\ pc[c] = "lock" /\ lock = None /\ lock' = c
        /\ fetch' = [start |-> now, keys |-> None]
        /\ pc' = [pc EXCEPT ![c] = "fetch"] /\ answer' = [answer EXCEPT ![c] = NoSession]
        /\ UNCHANGED <<surroundings, jwks, expires, request, key>>
    BY <1>2 DEF Lock, Goto
  <2>2. Types' /\ Passed'
    <3>1. /\ request[c] \in Requests /\ request[c].token # None
          /\ ExpectedAlgorithm # "" => request[c].token.alg = ExpectedAlgorithm
      BY <2>1 DEF Inv, Passed, InToken
    <3>2. /\ request' = [request EXCEPT ![c] = request[c]] /\ key' = [key EXCEPT ![c] = key[c]]
          /\ key[c] \in {NoKey, config.static} \cup Keys
          /\ jwks' \subseteq Keys /\ expires' \in Nat \cup {NoTime}
      BY <2>1 DEF Inv, Types
    <3>3. "fetch" \in {"done", "webhook"} \cup Ahead /\ UNCHANGED surroundings
      BY <2>1 DEF Ahead
    <3>4. /\ pc' = [pc EXCEPT ![c] = "fetch"] /\ answer' = [answer EXCEPT ![c] = NoSession]
          /\ Types /\ Passed
      BY <2>1 DEF Inv
    <3>. QED  BY <3>1, <3>2, <3>3, <3>4, Moves
  <2>3. LockHeld'
    BY <1>2, <2>1 DEF Inv, LockHeld, Types, Valid, surroundings
  <2>4. FetchIsFresh'
    <3>1. fetch' \in [start : Nat, keys : {None} \cup SUBSET Keys] /\ fetch'.start = now
          /\ fetch'.keys = None /\ now' = now /\ now \in Nat
      BY <2>1 DEF Inv, Types, surroundings
    <3>. QED  BY <2>1, <3>1 DEF FetchIsFresh
  <2>5. CacheIsFresh'
    BY <2>1 DEF Inv, CacheIsFresh, surroundings
  <2>. QED  BY <2>2, <2>3, <2>4, <2>5 DEF Inv
<1>. QED  BY <1>1, <1>2

\* The end of a fetch: nobody else holds the lock.
LEMMA InvFetched ==
  ASSUME Inv, NEW c \in Clients, StoreKeys(c) \/ FetchFails(c)
  PROVE  Inv'
<1>. USE AuthenticatorAssumption DEF AuthenticatorAssumption
<1>1. /\ pc[c] = "fetch" /\ lock = c /\ lock # None /\ lock' = None /\ fetch' = None
      /\ UNCHANGED <<surroundings, request>>
  BY DEF StoreKeys, FetchFails, Find, Inv, LockHeld
<1>2. /\ fetch \in [start : Nat, keys : {None} \cup SUBSET Keys]
      /\ fetch.start <= now /\ now <= fetch.start + FetchLimit
      /\ fetch.keys # None => fetch.keys \subseteq Keys /\ ReadSince(fetch.keys, fetch.start)
  BY <1>1 DEF Inv, FetchIsFresh
<1>3. \/ /\ fetch.keys # None /\ jwks' = fetch.keys /\ expires' = now + TTL
         /\ Find(c, fetch.keys)
      \/ UNCHANGED <<jwks, expires>> /\ Find(c, {})
  BY DEF StoreKeys, FetchFails
<1>4. /\ jwks' \subseteq Keys /\ expires' \in Nat \cup {NoTime}
      /\ \E keys \in SUBSET Keys : Find(c, keys)
  BY <1>2, <1>3 DEF Inv, Types
<1>5. Types' /\ Passed'
  <2>1. PICK keys \in SUBSET Keys : Find(c, keys)
    BY <1>4
  <2>2. PICK k \in {NoKey, config.static} \cup keys : key' = [key EXCEPT ![c] = k]
    BY <2>1, FindsKey
  <2>3. /\ pc' = [pc EXCEPT ![c] = "verify"] /\ answer' = [answer EXCEPT ![c] = NoSession]
        /\ request' = [request EXCEPT ![c] = request[c]]
    BY <1>1, <2>1 DEF Find, Goto, Inv, Types
  <2>4. /\ request[c] \in Requests /\ request[c].token # None
        /\ ExpectedAlgorithm # "" => request[c].token.alg = ExpectedAlgorithm
    BY <1>1 DEF Inv, Passed, InToken
  <2>5. /\ "verify" \in {"done", "webhook"} \cup Ahead /\ UNCHANGED surroundings
        /\ k \in {NoKey, config.static} \cup Keys
    BY <1>1 DEF Ahead
  <2>. QED  BY <1>4, <2>2, <2>3, <2>4, <2>5, Moves DEF Inv
<1>6. LockHeld'
  <2>1. \A d \in Clients : pc[d] = "fetch" => d = c
    BY <1>1 DEF Inv, LockHeld
  <2>2. pc' = [pc EXCEPT ![c] = "verify"]
    BY <1>4 DEF Find, Goto
  <2>. QED  BY <1>1, <2>1, <2>2 DEF LockHeld, Inv, Types
<1>7. FetchIsFresh'
  BY <1>1 DEF FetchIsFresh
<1>8. CacheIsFresh'
  <2>1. UNCHANGED <<now, published, withdrawn>> /\ now \in Nat
    BY <1>1 DEF surroundings, Inv, Types
  <2>2. CASE UNCHANGED <<jwks, expires>>
    BY <2>1, <2>2 DEF Inv, CacheIsFresh
  <2>3. CASE fetch.keys # None /\ jwks' = fetch.keys /\ expires' = now + TTL
    <3>1. ASSUME NEW k \in fetch.keys
          PROVE  k \in published \/ (withdrawn[k] \in Nat /\ now + TTL <= withdrawn[k] + TTL + FetchLimit)
      <4>1. fetch.start \in Nat /\ fetch.start <= now /\ now <= fetch.start + FetchLimit
        BY <1>2
      <4>2. k \in published \/ (withdrawn[k] \in Nat /\ fetch.start <= withdrawn[k])
        BY <1>2, <2>3, <3>1 DEF ReadSince
      <4>. QED  BY <2>1, <4>1, <4>2
    <3>. QED  BY <2>1, <2>3, <3>1 DEF CacheIsFresh
  <2>. QED  BY <1>3, <2>2, <2>3
<1>. QED  BY <1>5, <1>6, <1>7, <1>8 DEF Inv

-----------------------------------------------------------------------------
(* The provider and the clock *)

LEMMA InvSurroundings ==
  ASSUME Inv, ProviderAnswers \/ Tick \/ \E k \in Keys : Rotate(k)
  PROVE  Inv'
<1>. USE AuthenticatorAssumption DEF AuthenticatorAssumption
<1>1. Passed'
  BY DEF ProviderAnswers, Tick, Rotate, Inv, Passed, InToken, ExpectedAlgorithm, surroundings
<1>2. CASE ProviderAnswers
  <2>1. /\ fetch # None /\ fetch' = [fetch EXCEPT !.keys = published]
        /\ UNCHANGED <<surroundings, jwks, expires, lock, pc, request, key, answer>>
    BY <1>2 DEF ProviderAnswers
  <2>2. Types' /\ LockHeld' /\ CacheIsFresh'
    BY <2>1 DEF surroundings, Inv, Types, LockHeld, Valid, CacheIsFresh
  <2>3. lock # None /\ fetch \in [start : Nat, keys : {None} \cup SUBSET Keys]
        /\ fetch.start <= now /\ now <= fetch.start + FetchLimit /\ published \subseteq Keys
    BY <2>1 DEF Inv, FetchIsFresh, Types
  <2>4. /\ fetch' \in [start : Nat, keys : {None} \cup SUBSET Keys]
        /\ fetch'.start = fetch.start /\ fetch'.keys = published
    BY <2>1, <2>3
  <2>5. FetchIsFresh'
    BY <2>1, <2>3, <2>4 DEF FetchIsFresh, ReadSince, surroundings
  <2>. QED  BY <1>1, <2>2, <2>5 DEF Inv
<1>3. CASE Tick
  <2>1. /\ now' = now + 1 /\ (fetch # None => now < fetch.start + FetchLimit)
        /\ UNCHANGED <<config, published, withdrawn, shared, pc, request, key, answer>>
    BY <1>3 DEF Tick
  <2>2. now \in Nat /\ expires \in Nat \cup {NoTime}
    BY DEF Inv, Types
  <2>3. Types'
    BY <2>1 DEF Inv, Types, shared
  <2>4. LockHeld'
    BY <2>1, <2>2 DEF Inv, LockHeld, Valid, shared
  <2>5. FetchIsFresh'
    <3>1. CASE lock = None
      BY <2>1, <3>1 DEF Inv, FetchIsFresh, shared
    <3>2. CASE lock # None
      <4>1. /\ fetch \in [start : Nat, keys : {None} \cup SUBSET Keys] /\ fetch.start <= now
            /\ fetch.keys # None => ReadSince(fetch.keys, fetch.start)
        BY <3>2 DEF Inv, FetchIsFresh
      <4>2. now < fetch.start + FetchLimit /\ fetch.start \in Nat
        BY <2>1, <4>1
      <4>. QED  BY <2>1, <2>2, <3>2, <4>1, <4>2 DEF FetchIsFresh, ReadSince, shared
    <3>. QED  BY <3>1, <3>2
  <2>6. CacheIsFresh'
    BY <2>1, <2>2 DEF Inv, CacheIsFresh, shared
  <2>. QED  BY <1>1, <2>3, <2>4, <2>5, <2>6 DEF Inv
<1>4. ASSUME NEW k \in Keys, Rotate(k) PROVE Inv'
  <2>1. /\ \/ k \in published /\ published' = published \ {k} /\ withdrawn' = [withdrawn EXCEPT ![k] = now]
           \/ published' = published \cup {k} /\ withdrawn' = [withdrawn EXCEPT ![k] = NoTime]
        /\ UNCHANGED <<config, now, shared, pc, request, key, answer>>
    BY <1>4 DEF Rotate
  <2>2. now \in Nat /\ expires \in Nat \cup {NoTime} /\ withdrawn \in [Keys -> Nat \cup {NoTime}]
    BY DEF Inv, Types
  <2>3. Types'
    BY <2>1, <2>2 DEF Inv, Types, shared
  <2>4. LockHeld'
    BY <2>1 DEF Inv, LockHeld, Valid, shared
  \* What was read or stored says the same of every other key, and k is withdrawn now.
  <2>6. ASSUME NEW x \in Keys
        PROVE  \/ x \in published' \/ withdrawn'[x] = now
               \/ x \notin published /\ withdrawn'[x] = withdrawn[x]
    BY <2>1, <2>2
  <2>7. FetchIsFresh'
    <3>1. CASE lock = None
      BY <2>1, <3>1 DEF Inv, FetchIsFresh, shared
    <3>2. CASE lock # None
      <4>1. /\ fetch \in [start : Nat, keys : {None} \cup SUBSET Keys] /\ fetch.start <= now
            /\ now <= fetch.start + FetchLimit
            /\ fetch.keys # None => fetch.keys \subseteq Keys /\ ReadSince(fetch.keys, fetch.start)
        BY <3>2 DEF Inv, FetchIsFresh
      <4>2. fetch.keys # None => ReadSince(fetch.keys, fetch.start)'
        BY <2>1, <2>2, <2>6, <4>1 DEF ReadSince, shared
      <4>. QED  BY <2>1, <3>2, <4>1, <4>2 DEF FetchIsFresh, shared
    <3>. QED  BY <3>1, <3>2
  <2>8. CacheIsFresh'
    <3>1. jwks \subseteq Keys
      BY DEF Inv, Types
    <3>2. ASSUME expires # NoTime, NEW x \in jwks
          PROVE  \/ x \in published'
                 \/ withdrawn'[x] \in Nat /\ expires <= withdrawn'[x] + TTL + FetchLimit
      <4>1. expires \in Nat /\ expires <= now + TTL
        BY <2>2, <3>2 DEF Inv, CacheIsFresh
      <4>2. \/ x \in published
            \/ withdrawn[x] \in Nat /\ expires <= withdrawn[x] + TTL + FetchLimit
        BY <3>2 DEF Inv, CacheIsFresh
      <4>. QED  BY <2>2, <2>6, <3>1, <4>1, <4>2
    <3>. QED  BY <2>1, <3>2 DEF Inv, CacheIsFresh, shared
  <2>. QED  BY <1>1, <2>3, <2>4, <2>7, <2>8 DEF Inv
<1>. QED  BY <1>2, <1>3, <1>4

LEMMA InvNext ==
  ASSUME Inv, [Next]_vars
  PROVE  Inv'
<1>1. CASE UNCHANGED vars
  BY <1>1 DEF vars, surroundings, shared, Inv, Types, Passed, InToken, ExpectedAlgorithm, LockHeld,
              Valid, FetchIsFresh, ReadSince, CacheIsFresh
<1>2. ASSUME NEW c \in Clients, Step(c) PROVE Inv'
  BY <1>2, InvChecks, InvLock, InvFetched DEF Step
<1>. QED  BY <1>1, <1>2, InvAuthenticate, InvSurroundings DEF Next

LEMMA InvAlways == Spec => []Inv
  BY InvInit, InvNext, PTL DEF Spec

-----------------------------------------------------------------------------
(* What follows *)

LEMMA ValidMeansFree ==
  ASSUME Inv, NEW c \in Clients, StoreKeys(c) \/ FetchFails(c)
  PROVE  ~Valid
  BY AuthenticatorAssumption DEF AuthenticatorAssumption, StoreKeys, FetchFails, Inv, LockHeld

\* Whatever the other requests do while one looks for its key: between two fetches
\* that bring keys lies a whole lifetime of the cache.
THEOREM OneFetchPerLifetime == Spec => FetchesApart
<1>1. Inv /\ [Next]_vars => [expires' # expires => ~Valid]_vars
  <2>. SUFFICES ASSUME Inv, Next, expires' # expires PROVE ~Valid
    OBVIOUS
  <2>1. ASSUME NEW c \in Clients, Step(c) PROVE \E d \in Clients : StoreKeys(d)
    BY <2>1 DEF Step, WebhookAnswers, ReadCache, Lock, FetchFails, Verify, CheckClaims, shared
  <2>2. ASSUME NEW c \in Clients, NEW r \in Requests, AuthenticateRequest(c, r) PROVE FALSE
    BY <2>2 DEF AuthenticateRequest, shared
  <2>3. ASSUME ProviderAnswers \/ Tick \/ \E k \in Keys : Rotate(k) PROVE FALSE
    BY <2>3 DEF ProviderAnswers, Tick, Rotate, shared
  <2>. QED  BY <2>1, <2>2, <2>3, ValidMeansFree DEF Next
<1>. QED  BY <1>1, InvAlways, PTL DEF Spec, FetchesApart

\* Steps that bring a key: it is in the cache while that is valid, or was fetched.
LEMMA KeyComesFrom ==
  ASSUME Inv, NEW c \in Clients, Step(c), key'[c] # key[c], key'[c] \in Keys
  PROVE  \/ Valid /\ key'[c] \in jwks
         \/ pc[c] = "fetch" /\ fetch.keys # None /\ key'[c] \in fetch.keys
<1>. USE AuthenticatorAssumption DEF AuthenticatorAssumption
<1>1. key[c] \in {NoKey, config.static} \cup Keys /\ config \in Configs
      /\ key = [d \in Clients |-> key[d]]
  BY DEF Inv, Types
<1>2. ~NoKeyFor(c) /\ ~UNCHANGED key
  BY <1>1 DEF NoKeyFor
<1>3. ASSUME NEW keys, Find(c, keys) PROVE key'[c] \in keys
  <2>1. PICK k \in {NoKey, config.static} \cup keys : key' = [key EXCEPT ![c] = k]
    BY <1>3, FindsKey
  <2>. QED  BY <1>1, <2>1
<1>4. CASE ReadCache(c) \/ Lock(c)
  BY <1>2, <1>3, <1>4 DEF ReadCache, Lock
<1>5. CASE StoreKeys(c)
  BY <1>3, <1>5 DEF StoreKeys
<1>6. CASE FetchFails(c)
  <2>1. key'[c] \in {}
    BY <1>3, <1>6 DEF FetchFails
  <2>. QED  BY <2>1
<1>7. CASE WebhookAnswers(c) \/ Verify(c) \/ CheckClaims(c)
  BY <1>2, <1>7 DEF WebhookAnswers, Verify, CheckClaims
<1>. QED  BY <1>4, <1>5, <1>6, <1>7 DEF Step

KeyLives(k) == \/ k \in published
               \/ withdrawn[k] # NoTime /\ now < withdrawn[k] + TTL + FetchLimit

LEMMA KeyStillLives ==
  ASSUME Inv, NEW c \in Clients, Step(c), key'[c] # key[c], key'[c] \in Keys
  PROVE  KeyLives(key'[c])
<1>. DEFINE k == key'[c]
<1>1. UNCHANGED published /\ now \in Nat /\ expires \in Nat \cup {NoTime}
  BY DEF Step, WebhookAnswers, ReadCache, Lock, StoreKeys, FetchFails, Verify, CheckClaims, Find,
         surroundings, Inv, Types
<1>. USE AuthenticatorAssumption DEF AuthenticatorAssumption, KeyLives
<1>. HIDE DEF k
<1>2. CASE Valid /\ k \in jwks
  <2>1. expires \in Nat /\ now < expires
    BY <1>1, <1>2 DEF Valid
  <2>2. k \in published \/ (withdrawn[k] \in Nat /\ expires <= withdrawn[k] + TTL + FetchLimit)
    BY <1>2 DEF Inv, CacheIsFresh, Valid
  <2>3. KeyLives(k)
    BY <1>1, <2>1, <2>2
  <2>. QED  BY <2>3 DEF k
<1>3. CASE pc[c] = "fetch" /\ fetch.keys # None /\ k \in fetch.keys
  <2>1. lock # None
    BY <1>3 DEF Inv, LockHeld
  <2>2. fetch.start \in Nat /\ now <= fetch.start + FetchLimit
    BY <2>1 DEF Inv, FetchIsFresh
  <2>3. k \in published \/ (withdrawn[k] \in Nat /\ fetch.start <= withdrawn[k])
    BY <1>3, <2>1 DEF Inv, FetchIsFresh, ReadSince
  <2>4. KeyLives(k)
    BY <1>1, <2>2, <2>3
  <2>. QED  BY <2>4 DEF k
<1>. QED  BY <1>2, <1>3, KeyComesFrom DEF k

\* No interleaving of requests, fetches and rotations lets a key verify a token once
\* the lifetime of the cache and the time of a fetch have passed since its withdrawal.
THEOREM KeysDie == Spec => WithdrawnKeyDies
<1>1. ASSUME Inv, Next, NEW c \in Clients, key'[c] # key[c], key'[c] \in Keys
      PROVE  KeyLives(key'[c])
  <2>1. key \in [Clients -> {NoKey, config.static} \cup Keys] /\ config \in Configs
    BY <1>1 DEF Inv, Types
  <2>2. ASSUME NEW d \in Clients, Step(d) PROVE KeyLives(key'[c])
    <3>1. \/ UNCHANGED key \/ \E k : key' = [key EXCEPT ![d] = k]
      BY <2>2 DEF Step, WebhookAnswers, ReadCache, Lock, StoreKeys, FetchFails, Verify, CheckClaims,
                  Find, NoKeyFor
    <3>2. c = d
      BY <1>1, <2>1, <3>1
    <3>. QED  BY <1>1, <2>2, <3>2, KeyStillLives
  <2>3. ASSUME NEW d \in Clients, NEW r \in Requests, AuthenticateRequest(d, r) PROVE FALSE
    <3>1. \E k \in {NoKey, config.static} : key' = [key EXCEPT ![d] = k]
      BY <2>3, StaticKeyType DEF AuthenticateRequest, BeginToken, NoKeyFor
    <3>2. key'[c] = key[c] \/ key'[c] \in {NoKey, config.static}
      BY <2>1, <3>1
    <3>. QED  BY <1>1, <2>1, <3>2, AuthenticatorAssumption DEF AuthenticatorAssumption
  <2>4. ASSUME ProviderAnswers \/ Tick \/ \E k \in Keys : Rotate(k) PROVE FALSE
    BY <1>1, <2>4 DEF ProviderAnswers, Tick, Rotate
  <2>. QED  BY <1>1, <2>2, <2>3, <2>4 DEF Next
<1>2. Inv /\ [Next]_vars =>
        [\A c \in Clients : key'[c] # key[c] /\ key'[c] \in Keys =>
           \/ key'[c] \in published
           \/ /\ withdrawn[key'[c]] # NoTime
              /\ now < withdrawn[key'[c]] + TTL + FetchLimit]_vars
  BY <1>1 DEF KeyLives
<1>. QED  BY <1>2, InvAlways, PTL DEF Spec, WithdrawnKeyDies

-----------------------------------------------------------------------------
(* Sessions *)

EarnedBy(c) ==
  Done(c) /\ answer[c] \notin {NoSession, Aborted} =>
    LET s == answer[c]  t == request[c].token IN
    /\ s.admin => s.from = "secret" /\ request[c].secret = config.adminSecret
    /\ s.from = "nobody" => ~config.enabled
    /\ s.from = "token" =>
         /\ ExpectedAlgorithm # "" => t.alg = ExpectedAlgorithm
         /\ \/ t.signer \in Keys \/ t.signer = config.static
            \/ ~config.legacy /\ config.skipVerification
         /\ Intended(t)
         /\ t.allowed = <<>> \/ \E i \in DOMAIN t.allowed : s.role = t.allowed[i]

\* A role that a token gets is one it allows, if it names any.
LEMMA RoleAllowed ==
  ASSUME NEW token, token.allowed \in Seq(STRING), token.allowed # <<>>
  PROVE  \E i \in DOMAIN token.allowed : RoleOf(token) = token.allowed[i]
<1>1. 1 \in DOMAIN token.allowed
  BY EmptySeq, LenProperties
<1>. QED  BY <1>1 DEF RoleOf

\* A step that answers one request, or none, leaves the others' answers as they were.
LEMMA EarnedKeep ==
  ASSUME Types, \A d \in Clients : EarnedBy(d), NEW c \in Clients, UNCHANGED config,
         NEW to, pc' = [pc EXCEPT ![c] = to], NEW a, answer' = [answer EXCEPT ![c] = a],
         NEW r, request' = [request EXCEPT ![c] = r],
         to = "done" /\ a \notin {NoSession, Aborted} => EarnedBy(c)'
  PROVE  (\A d \in Clients : EarnedBy(d))'
<1>. SUFFICES ASSUME NEW d \in Clients PROVE EarnedBy(d)'
  OBVIOUS
<1>1. CASE d = c
  <2>1. pc'[d] = to /\ answer'[d] = a
    BY <1>1 DEF Types
  <2>2. CASE to = "done" /\ a \notin {NoSession, Aborted}
    BY <1>1, <2>2
  <2>3. CASE ~(to = "done" /\ a \notin {NoSession, Aborted})
    BY <2>1, <2>3 DEF EarnedBy, Done
  <2>. QED  BY <2>2, <2>3
<1>2. CASE d # c
  <2>1. pc'[d] = pc[d] /\ answer'[d] = answer[d] /\ request'[d] = request[d] /\ config' = config
    BY <1>2 DEF Types
  <2>2. \A token : Intended(token)' = Intended(token)
    BY <2>1 DEF Intended
  <2>3. ExpectedAlgorithm' = ExpectedAlgorithm /\ Done(d)' = Done(d)
    BY <2>1 DEF Done, ExpectedAlgorithm
  <2>4. EarnedBy(d)
    OBVIOUS
  <2>. QED  BY <2>1, <2>2, <2>3, <2>4, Zenon DEF EarnedBy
<1>. QED  BY <1>1, <1>2

\* Answers that need no token: the administrator's, nobody's and the webhook's.
LEMMA EarnedWithoutToken ==
  ASSUME Types, NEW c \in Clients, UNCHANGED config, NEW s, Answer(c, s),
         \/ s = Refusal
         \/ s = Admin /\ request'[c].secret = config.adminSecret
         \/ \E role \in {"", "user"} :
              s = [role |-> role, allowed |-> <<>>, admin |-> FALSE, from |-> "webhook"]
  PROVE  EarnedBy(c)'
<1>1. answer'[c] = s
  BY DEF Answer, Types
<1>2. CASE s = Refusal
  <2>1. CASE config.enabled
    BY <1>1, <1>2, <2>1 DEF EarnedBy, Refusal
  <2>2. CASE ~config.enabled
    <3>1. s = Anonymous /\ ~Anonymous.admin /\ Anonymous.from = "nobody"
      BY <1>2, <2>2 DEF Refusal, Anonymous
    <3>. QED  BY <1>1, <2>2, <3>1 DEF EarnedBy
  <2>. QED  BY <2>1, <2>2
<1>3. CASE s = Admin /\ request'[c].secret = config.adminSecret
  BY <1>1, <1>3 DEF EarnedBy, Admin
<1>4. ASSUME NEW role \in {"", "user"},
             s = [role |-> role, allowed |-> <<>>, admin |-> FALSE, from |-> "webhook"]
      PROVE  EarnedBy(c)'
  <2>1. ~s.admin /\ s.from = "webhook"
    BY <1>4
  <2>. QED  BY <1>1, <2>1 DEF EarnedBy
<1>. QED  BY <1>2, <1>3, <1>4

\* The answer to a token that has passed every check.
LEMMA EarnedByToken ==
  ASSUME Types, Passed, NEW c \in Clients, pc[c] = "claims", UNCHANGED <<config, request>>,
         Intended(request[c].token), Answer(c, SessionOf(request[c].token))
  PROVE  EarnedBy(c)'
<1>. DEFINE t == request[c].token
<1>1. answer'[c] = SessionOf(t) /\ request'[c].token = t
  BY DEF Answer, Types
<1>2. /\ t # None /\ request[c] \in Requests
      /\ ExpectedAlgorithm # "" => t.alg = ExpectedAlgorithm
      /\ \/ t.signer \in Keys \/ t.signer = config.static
         \/ ~config.legacy /\ config.skipVerification
  BY DEF Passed, InToken
<1>3. t.allowed = <<>> \/ \E i \in DOMAIN t.allowed : RoleOf(t) = t.allowed[i]
  BY <1>2, RoleAllowed, AuthenticatorAssumption DEF AuthenticatorAssumption
<1>4. Intended(t)' /\ ExpectedAlgorithm' = ExpectedAlgorithm /\ config' = config
  BY DEF Intended, ExpectedAlgorithm
<1>5. /\ ~SessionOf(t).admin /\ SessionOf(t).from = "token" /\ SessionOf(t).role = RoleOf(t)
  BY DEF SessionOf
<1>. QED  BY <1>1, <1>2, <1>3, <1>4, <1>5 DEF EarnedBy

Earned == \A c \in Clients : EarnedBy(c)

\* A step that changes no answer of a request, or sends one on its way.
LEMMA EarnedGoto ==
  ASSUME Types, Earned, NEW c \in Clients, UNCHANGED config, NEW to, to # "done", Goto(c, to),
         NEW r, request' = [request EXCEPT ![c] = r]
  PROVE  Earned'
  BY EarnedKeep DEF Goto, Earned

LEMMA EarnedAnswer ==
  ASSUME Types, Earned, NEW c \in Clients, UNCHANGED config, NEW a, Answer(c, a),
         NEW r, request' = [request EXCEPT ![c] = r],
         a \notin {NoSession, Aborted} => EarnedBy(c)'
  PROVE  Earned'
  BY EarnedKeep DEF Answer, Earned

LEMMA EarnedRefuse ==
  ASSUME Types, Earned, NEW c \in Clients, UNCHANGED config, Refuse(c),
         NEW r, request' = [request EXCEPT ![c] = r]
  PROVE  Earned'
<1>1. Answer(c, Refusal) /\ EarnedBy(c)'
  BY EarnedWithoutToken DEF Refuse
<1>. QED  BY <1>1, EarnedAnswer

LEMMA EarnedAuthenticate ==
  ASSUME Inv, Earned, NEW c \in Clients, NEW r \in Requests, AuthenticateRequest(c, r)
  PROVE  Earned'
<1>1. Types /\ UNCHANGED config /\ request' = [request EXCEPT ![c] = r] /\ request'[c] = r
  BY DEF AuthenticateRequest, surroundings, Inv, Types
<1>2. ASSUME NEW to \in {"webhook", "claims", "lookup", "verify"}, Goto(c, to) PROVE Earned'
  BY <1>1, <1>2, EarnedGoto
<1>3. CASE Refuse(c)
  BY <1>1, <1>3, EarnedRefuse
<1>4. CASE r.secret # "" /\ r.secret = config.adminSecret /\ Answer(c, Admin)
  <2>1. EarnedBy(c)'
    BY <1>1, <1>4, EarnedWithoutToken
  <2>. QED  BY <1>1, <1>4, <2>1, EarnedAnswer
<1>5. CASE BeginToken(c, r.token)
  BY <1>2, <1>3, <1>5 DEF BeginToken
<1>. QED  BY <1>2, <1>3, <1>4, <1>5 DEF AuthenticateRequest

LEMMA EarnedStep ==
  ASSUME Inv, Earned, NEW c \in Clients, Step(c)
  PROVE  Earned'
<1>1. Types /\ Passed /\ UNCHANGED <<config, request>> /\ request' = [request EXCEPT ![c] = request[c]]
  BY DEF Step, WebhookAnswers, ReadCache, Lock, StoreKeys, FetchFails, Verify, CheckClaims, Find,
         surroundings, Inv, Types
<1>2. ASSUME NEW to \in {"claims", "lock", "fetch", "verify"}, Goto(c, to) PROVE Earned'
  BY <1>1, <1>2, EarnedGoto
<1>3. CASE Refuse(c)
  BY <1>1, <1>3, EarnedRefuse
<1>4. CASE WebhookAnswers(c)
  <2>1. ASSUME NEW role \in {"", "user"},
               Answer(c, [role |-> role, allowed |-> <<>>, admin |-> FALSE, from |-> "webhook"])
        PROVE  Earned'
    <3>1. EarnedBy(c)'
      BY <1>1, <2>1, EarnedWithoutToken
    <3>. QED  BY <1>1, <2>1, <3>1, EarnedAnswer
  <2>. QED  BY <1>3, <1>4, <2>1 DEF WebhookAnswers
<1>5. CASE ReadCache(c) \/ Lock(c) \/ StoreKeys(c) \/ FetchFails(c)
  <2>1. \E to \in {"lock", "fetch", "verify"} : Goto(c, to)
    BY <1>5 DEF ReadCache, Lock, StoreKeys, FetchFails, Find
  <2>. QED  BY <1>2, <2>1
<1>6. CASE Verify(c)
  <2>1. CASE Answer(c, Aborted)
    BY <1>1, <2>1, EarnedAnswer
  <2>. QED  BY <1>2, <1>3, <1>6, <2>1 DEF Verify
<1>7. CASE CheckClaims(c)
  <2>1. CASE Intended(request[c].token) /\ Answer(c, SessionOf(request[c].token))
    <3>1. EarnedBy(c)'
      BY <1>1, <1>7, <2>1, EarnedByToken DEF CheckClaims
    <3>. QED  BY <1>1, <2>1, <3>1, EarnedAnswer
  <2>. QED  BY <1>3, <1>7, <2>1 DEF CheckClaims
<1>. QED  BY <1>4, <1>5, <1>6, <1>7 DEF Step

\* However requests, fetches and rotations interleave, a session was earned by the
\* request that got it: the secret, a signature that verified with a configured or
\* published key, or an anonymous role that the configuration allows.
THEOREM Sessions == Spec => []SessionEarned
<1>1. Init => Earned
  BY DEF Init, Earned, EarnedBy, Done
<1>2. Inv /\ Earned /\ [Next]_vars => Earned'
  <2>. SUFFICES ASSUME Inv, Earned, [Next]_vars PROVE Earned'
    OBVIOUS
  <2>1. CASE UNCHANGED <<config, request, pc, answer>>
    BY <2>1 DEF Earned, EarnedBy, Done, ExpectedAlgorithm, Intended
  <2>2. CASE ProviderAnswers \/ Tick \/ \E k \in Keys : Rotate(k)
    BY <2>1, <2>2 DEF ProviderAnswers, Tick, Rotate, surroundings
  <2>3. CASE UNCHANGED vars
    BY <2>1, <2>3 DEF vars, surroundings
  <2>. QED  BY <2>2, <2>3, EarnedStep, EarnedAuthenticate DEF Next
<1>3. Earned => SessionEarned
  BY DEF Earned, EarnedBy, SessionEarned
<1>. QED  BY <1>1, <1>2, <1>3, InvAlways, PTL DEF Spec
=============================================================================
