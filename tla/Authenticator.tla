--------------------------- MODULE Authenticator ---------------------------
(***************************************************************************)
(* internal/auth/auth.go, lines 101 to 775, and authMiddleware of          *)
(* internal/engine/server.go: how a request gets its session, and the      *)
(* cache of the provider's keys (JWKS) that concurrent requests share.     *)
(*                                                                         *)
(* A signature is the key it was made with.  A configuration is a record   *)
(* of the settings that matter, chosen in Init; "legacy" means that        *)
(* config.JWT is nil.  A key is [kid, kty], kty one of "HS", "RS", "ES".    *)
(***************************************************************************)
EXTENDS Integers, Sequences, FiniteSets

CONSTANTS Clients,      \* goroutines that serve requests
          Configs,      \* configurations explored
          Requests,     \* [secret, token, webhook]: what a request carries
          Keys,         \* keys of the provider
          NoKey, NoTime, NoSession, None,
          Aborted,      \* the answer of a request that panicked
          TTL,          \* lifetime of the cached keys (5 minutes)
          FetchLimit,   \* timeout of the HTTP client (10 seconds)
          MaxTime, MaxRotations  \* bounds on the clock and on the provider

\* Keys are told apart by how they came: a configured one has no kid and is none of
\* the provider's.
ASSUME AuthenticatorAssumption ==
  /\ TTL \in Nat \ {0} /\ FetchLimit \in Nat /\ MaxTime \in Nat /\ MaxRotations \in Nat
  /\ NoTime \notin Nat
  /\ None \notin Clients /\ \A keys \in SUBSET Keys : keys # None
  /\ None \notin [start : Nat, keys : {None} \cup SUBSET Keys]
  /\ NoKey \notin Keys /\ \A cf \in Configs : cf.static \notin Keys
  /\ \A r \in Requests : r.token # None => r.token.allowed \in Seq(STRING)

VARIABLES config,
          now,          \* time.Now()
          published,    \* the keys the provider hands out
          withdrawn,    \* key -> when it was taken back, or NoTime
          rotations,    \* how often the provider changed its keys
          jwks,         \* jwksCache: a set of keys
          expires,      \* jwksCacheExp, or NoTime while jwksCache is nil
          lock,         \* who holds jwksMu for writing, or None
          fetch,        \* [start, keys] of the holder's request, or None
          pc, request, key, answer

shared == <<jwks, expires, lock, fetch>>
surroundings == <<config, now, published, withdrawn, rotations>>
vars == <<surroundings, shared, pc, request, key, answer>>

-----------------------------------------------------------------------------
(* Configuration *)

\* The static key that initializeKeys parsed, if it is of type kty.
StaticKey(kty) == IF config.static # NoKey /\ config.static.kty = kty
                  THEN config.static ELSE NoKey

\* alg "" is a configuration without an expected algorithm.
ExpectedAlgorithm == config.alg

UsesJWKS(token) == token.kid # "" /\ ~config.legacy /\ config.jwks

-----------------------------------------------------------------------------
(* Sessions *)

Anonymous == [role |-> config.unauthorized, allowed |-> <<>>, admin |-> FALSE,
              from |-> "nobody"]

\* Faulty variant: the default role comes after the check.
RoleOf_DefaultLast(token) ==
  LET role == IF token.role # "" /\ token.allowed # <<>>
                 /\ \A i \in DOMAIN token.allowed : token.allowed[i] # token.role
              THEN token.allowed[1] ELSE token.role
  IN IF role = "" THEN config.default ELSE role

\* The default role of a token without one; a role that is not allowed gives way
\* to the first that is.
RoleOf(token) ==
  LET role == IF token.role = "" THEN config.default ELSE token.role
  IN IF token.allowed # <<>> /\ \A i \in DOMAIN token.allowed : token.allowed[i] # role
     THEN token.allowed[1] ELSE role

Admin == [role |-> "admin", allowed |-> <<>>, admin |-> TRUE, from |-> "secret"]

SessionOf(token) == [role |-> RoleOf(token), allowed |-> token.allowed,
                     admin |-> FALSE, from |-> "token"]

Skew == IF config.legacy THEN 0 ELSE config.skew

\* exp + skew is not before now, nbf - skew is not after it.
InTime(token) ==
  \/ ~config.legacy /\ config.skipExpiration
  \/ /\ token.exp # NoTime => token.exp + Skew >= now
     /\ token.nbf # NoTime => token.nbf - Skew <= now

Intended(token) ==
  config.legacy \/ /\ config.issuer = "" \/ token.iss = config.issuer
                   /\ config.audience = "" \/ config.audience \in token.aud

-----------------------------------------------------------------------------
(* Answers.  authMiddleware lets a request without a session pass as       *)
(* nobody's, unless authentication is enabled.                             *)

Answer(c, session) ==
  /\ pc' = [pc EXCEPT ![c] = "done"]
  /\ answer' = [answer EXCEPT ![c] = session]

Refusal == IF config.enabled THEN NoSession ELSE Anonymous

Refuse(c) == Answer(c, Refusal)

Goto(c, step) ==
  /\ pc' = [pc EXCEPT ![c] = step]
  /\ answer' = [answer EXCEPT ![c] = NoSession]

NoKeyFor(c) == key' = [key EXCEPT ![c] = NoKey]

\* The first checks of ValidateJWT, up to the signature.
BeginToken(c, token) ==
  IF ~token.wellFormed \/ (ExpectedAlgorithm # "" /\ token.alg # ExpectedAlgorithm)
  THEN Refuse(c) /\ NoKeyFor(c)
  ELSE IF ~config.legacy /\ config.skipVerification
       THEN Goto(c, "claims") /\ NoKeyFor(c)
  ELSE IF token.alg \in {"RS", "ES"} /\ UsesJWKS(token)
       THEN Goto(c, "lookup") /\ NoKeyFor(c)
  ELSE /\ key' = [key EXCEPT ![c] = StaticKey(token.alg)]
       /\ Goto(c, "verify")

\* AuthenticateRequest
AuthenticateRequest(c, r) ==
  /\ pc[c] \in {"idle", "done"}
  /\ request' = [request EXCEPT ![c] = r]
  /\ IF r.secret # "" /\ r.secret = config.adminSecret THEN Answer(c, Admin) /\ NoKeyFor(c)
     ELSE IF r.token # None THEN BeginToken(c, r.token)
     ELSE IF config.webhook THEN Goto(c, "webhook") /\ NoKeyFor(c)
     ELSE Refuse(c) /\ NoKeyFor(c)
  /\ UNCHANGED <<surroundings, shared>>

\* The webhook answers with a role, or without one, or not at all.
WebhookAnswers(c) ==
  /\ pc[c] = "webhook"
  /\ \/ Refuse(c)
     \/ \E role \in {"", "user"} :
          Answer(c, [role |-> role, allowed |-> <<>>, admin |-> FALSE, from |-> "webhook"])
  /\ UNCHANGED <<surroundings, shared, request, key>>

-----------------------------------------------------------------------------
(* getJWKSKey.  Whatever goes wrong in it, the static key is used.         *)

Valid == expires # NoTime /\ now < expires

\* findKeyInJWKS and jwkToPublicKey: a key of another type is as good as none.
Find(c, keys) ==
  LET token == request[c].token
      found == {k \in keys : k.kid = token.kid /\ k.kty = token.alg}
  IN /\ \E k \in IF found = {} THEN {StaticKey(token.alg)} ELSE found :
          key' = [key EXCEPT ![c] = k]
     /\ Goto(c, "verify")
     /\ UNCHANGED <<surroundings, request>>

\* Under the read lock, which nobody holds for longer than this step.
ReadCache(c) ==
  /\ pc[c] = "lookup" /\ lock = None
  /\ IF Valid THEN Find(c, jwks)
     ELSE Goto(c, "lock") /\ UNCHANGED <<surroundings, request, key>>
  /\ UNCHANGED shared

\* Faulty variant: no second look under the write lock.
Lock_NoDoubleCheck(c) ==
  /\ pc[c] = "lock" /\ lock = None
  /\ lock' = c
  /\ fetch' = [start |-> now, keys |-> None]
  /\ Goto(c, "fetch")
  /\ UNCHANGED <<surroundings, jwks, expires, request, key>>

Lock(c) ==
  /\ pc[c] = "lock" /\ lock = None
  /\ IF Valid THEN Find(c, jwks) /\ UNCHANGED shared
     ELSE /\ lock' = c
          /\ fetch' = [start |-> now, keys |-> None]
          /\ Goto(c, "fetch")
          /\ UNCHANGED <<surroundings, jwks, expires, request, key>>

ProviderAnswers ==
  /\ fetch # None /\ fetch.keys = None
  /\ fetch' = [fetch EXCEPT !.keys = published]
  /\ UNCHANGED <<surroundings, jwks, expires, lock, pc, request, key, answer>>

\* Faulty variant: keys that were stored before are kept.
StoreKeys_Adds(c) ==
  /\ pc[c] = "fetch" /\ fetch.keys # None
  /\ jwks' = jwks \cup fetch.keys
  /\ expires' = now + TTL
  /\ lock' = None /\ fetch' = None
  /\ Find(c, jwks')

StoreKeys(c) ==
  /\ pc[c] = "fetch" /\ fetch.keys # None
  /\ jwks' = fetch.keys
  /\ expires' = now + TTL
  /\ lock' = None /\ fetch' = None
  /\ Find(c, fetch.keys)

\* Faulty variant: after an error the request tries again, and again.
FetchFails_Retries(c) ==
  /\ pc[c] = "fetch"
  /\ lock' = None /\ fetch' = None
  /\ Goto(c, "lock")
  /\ UNCHANGED <<surroundings, jwks, expires, request, key>>

\* No connection, a timeout, or an answer that cannot be decoded.
FetchFails(c) ==
  /\ pc[c] = "fetch"
  /\ lock' = None /\ fetch' = None
  /\ Find(c, {})
  /\ UNCHANGED <<jwks, expires>>

\* A public key made from a provider's EC key has no curve: verifying with it panics,
\* and net/http aborts the request.
Verify(c) ==
  LET token == request[c].token IN
  /\ pc[c] = "verify"
  /\ IF key[c] = NoKey THEN Refuse(c)
     ELSE IF key[c] \in Keys /\ token.alg = "ES" THEN Answer(c, Aborted)
     ELSE IF key[c] = token.signer THEN Goto(c, "claims")
     ELSE Refuse(c)
  /\ NoKeyFor(c)
  /\ UNCHANGED <<surroundings, shared, request>>

\* The rest of ValidateJWT.
CheckClaims(c) ==
  LET token == request[c].token IN
  /\ pc[c] = "claims"
  /\ IF InTime(token) /\ Intended(token) THEN Answer(c, SessionOf(token)) ELSE Refuse(c)
  /\ UNCHANGED <<surroundings, shared, request, key>>

-----------------------------------------------------------------------------
(* The surroundings *)

\* The provider takes a key back, or hands one out.
Rotate(k) ==
  /\ rotations < MaxRotations /\ rotations' = rotations + 1
  /\ IF k \in published
     THEN published' = published \ {k} /\ withdrawn' = [withdrawn EXCEPT ![k] = now]
     ELSE published' = published \cup {k} /\ withdrawn' = [withdrawn EXCEPT ![k] = NoTime]
  /\ UNCHANGED <<config, now, shared, pc, request, key, answer>>

\* A fetch is over when the client's timeout is.
Tick ==
  /\ now < MaxTime /\ now' = now + 1
  /\ fetch # None => now < fetch.start + FetchLimit
  /\ UNCHANGED <<config, published, withdrawn, rotations, shared, pc, request, key, answer>>

Init ==
  /\ config \in Configs
  /\ now = 0
  /\ published \in SUBSET Keys
  /\ withdrawn = [k \in Keys |-> NoTime]
  /\ rotations = 0
  /\ jwks = {} /\ expires = NoTime /\ lock = None /\ fetch = None
  /\ pc = [c \in Clients |-> "idle"]
  /\ request = [c \in Clients |-> None]
  /\ key = [c \in Clients |-> NoKey]
  /\ answer = [c \in Clients |-> NoSession]

Step(c) ==
  \/ WebhookAnswers(c) \/ ReadCache(c) \/ Lock(c) \/ StoreKeys(c) \/ FetchFails(c)
  \/ Verify(c) \/ CheckClaims(c)

Next ==
  \/ \E c \in Clients : Step(c) \/ \E r \in Requests : AuthenticateRequest(c, r)
  \/ ProviderAnswers
  \/ \E k \in Keys : Rotate(k)
  \/ Tick

Spec == Init /\ [][Next]_vars

\* sync.RWMutex keeps no goroutine waiting for ever; every call has a timeout.
FairSpec ==
  Spec /\ \A c \in Clients : WF_vars(Step(c)) /\ SF_vars(ReadCache(c) \/ Lock(c))

-----------------------------------------------------------------------------
(* Properties *)

Done(c) == pc[c] = "done"

\* A session is earned: an administrator's by the secret; one from a token by a
\* signature of a key that was configured or published, by the expected algorithm and
\* for this server, with a role among those the token allows.  Nobody gets in as
\* nobody while authentication is enabled.
SessionEarned ==
  \A c \in Clients : Done(c) /\ answer[c] \notin {NoSession, Aborted} =>
    LET s == answer[c]  t == request[c].token IN
    /\ s.admin => s.from = "secret" /\ request[c].secret = config.adminSecret
    /\ s.from = "nobody" => ~config.enabled
    /\ s.from = "token" =>
         /\ ExpectedAlgorithm # "" => t.alg = ExpectedAlgorithm
         /\ \/ t.signer \in Keys \/ t.signer = config.static
            \/ ~config.legacy /\ config.skipVerification
         /\ Intended(t)
         /\ t.allowed = <<>> \/ \E i \in DOMAIN t.allowed : s.role = t.allowed[i]

\* Two fetches that bring keys are a lifetime of the cache apart, however many
\* requests find the cache expired at once (the second look under the write lock).
FetchesApart == [][expires' # expires => ~Valid]_vars

\* A key the provider has withdrawn verifies nothing after the lifetime of the cache
\* and the time of one fetch: no interleaving stores older keys over newer ones.
WithdrawnKeyDies ==
  [][\A c \in Clients : key'[c] # key[c] /\ key'[c] \in Keys =>
       \/ key'[c] \in published
       \/ /\ withdrawn[key'[c]] # NoTime
          /\ now < withdrawn[key'[c]] + TTL + FetchLimit]_vars

\* Every request is answered: waiting for the lock and for the provider, a
\* fetch that fails included, always ends.
EveryRequestAnswered == \A c \in Clients : pc[c] \notin {"idle", "done"} ~> Done(c)

=============================================================================
