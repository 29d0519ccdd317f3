--------------------------- MODULE GatewayTokens ---------------------------
(***************************************************************************)
(* The bKash id_token that calls to the gateway carry (lib/bkash.ts):      *)
(* found in Redis, made from a refresh token, or granted anew.             *)
(*                                                                         *)
(* Redis may fail at any call, which counts as an absent key.  A call that *)
(* runs into its timeout is not taken back: a write is still carried out   *)
(* when Redis comes back, and its expiration runs from then on.            *)
(***************************************************************************)
EXTENDS Integers, FiniteSets

CONSTANTS
  Payments,               \* requests in flight that need a token
  ID_TOKEN_TTL_SECONDS,   \* expiration of the key, and the life bKash gives the
  IdTokenLife,            \* token, in a common unit of time
  RefreshTtl,             \* REFRESH_TOKEN_TTL_SECONDS in that unit
  NoKey

ASSUME GatewayTokensAssumption ==
  /\ ID_TOKEN_TTL_SECONDS \in Nat \ {0} /\ RefreshTtl \in Nat \ {0}
  /\ IdTokenLife \in Nat /\ ID_TOKEN_TTL_SECONDS < IdTokenLife
  /\ NoKey \notin Int

VARIABLES
  key,      \* Redis: the cached id_token, its age and the time its key has left
  refresh,  \* Redis: the time the key of the refresh token has left
  asking,   \* requests: where they are
  writing,  \* the cacheTokens in flight: what is written next and its age
  dead,     \* history: a token was handed out that had lived out its life
  late      \* history: a token was cached with less life than its key

gatewayTokensVars == <<key, refresh, asking, writing, dead, late>>

Cached == [age : Nat, left : Nat]
First == [age : Nat]        \* the id_token, as old as it is when it is written
Second == [refresh |-> TRUE] \* the refresh token

GatewayTokensTypeOK ==
  /\ key \in Cached \cup {NoKey}
  /\ refresh \in Nat \cup {NoKey}
  /\ asking \in [Payments -> {"idle", "missed", "refreshing", "granting"}]
  /\ writing \in [Payments -> First \cup {Second, NoKey}]
  /\ dead \in BOOLEAN /\ late \in BOOLEAN

GatewayTokensInit ==
  /\ key = NoKey /\ refresh = NoKey
  /\ asking = [p \in Payments |-> "idle"]
  /\ writing = [p \in Payments |-> NoKey]
  /\ dead = FALSE /\ late = FALSE

Asks(p, from, to) ==
  /\ asking[p] = from
  /\ asking' = [asking EXCEPT ![p] = to]

-----------------------------------------------------------------------------
(***************************************************************************)
(* getGrantToken.                                                          *)
(***************************************************************************)

FindIdToken(p) ==
  /\ key # NoKey
  /\ Asks(p, "idle", "idle")
  /\ dead' = (dead \/ key.age >= IdTokenLife)
  /\ UNCHANGED <<key, refresh, writing, late>>

\* The key is absent, or Redis fails or is too slow.
MissIdToken(p) ==
  /\ Asks(p, "idle", "missed")
  /\ UNCHANGED <<key, refresh, writing, dead, late>>

FindRefreshToken(p) ==
  /\ \/ refresh # NoKey /\ Asks(p, "missed", "refreshing")
     \/ Asks(p, "missed", "granting")
  /\ UNCHANGED <<key, refresh, writing, dead, late>>

\* The answer is handed out at once; it is cached as long as Redis takes, with
\* a refresh token if bKash sent one.  A process caches one answer at a time.
Answered(p, from) ==
  /\ writing[p] = NoKey
  /\ Asks(p, from, "idle")
  /\ writing' = [writing EXCEPT ![p] = [age |-> 0]]
  /\ UNCHANGED <<key, refresh, dead, late>>

\* A refresh token that is refused is not taken out of Redis.
refreshGrantToken(p) ==
  \/ Answered(p, "refreshing")
  \/ /\ Asks(p, "refreshing", "granting")
     /\ UNCHANGED <<key, refresh, writing, dead, late>>

requestNewGrantToken(p) ==
  \/ Answered(p, "granting")
  \/ /\ Asks(p, "granting", "idle")
     /\ UNCHANGED <<key, refresh, writing, dead, late>>

\* Mutant: the key is kept for the whole life of the token.
Expiration_WholeLife == IdTokenLife

Expiration == ID_TOKEN_TTL_SECONDS

\* cacheTokens: the id_token is set, or that fails; then the refresh token.
CacheIdToken(p) ==
  LET write == writing[p]
  IN  /\ write \notin {NoKey, Second}
      /\ \/ /\ key' = [age |-> write.age, left |-> Expiration]
            /\ late' = (late \/ write.age + ID_TOKEN_TTL_SECONDS > IdTokenLife)
         \/ UNCHANGED <<key, late>>
      /\ writing' \in {[writing EXCEPT ![p] = Second], [writing EXCEPT ![p] = NoKey]}
      /\ UNCHANGED <<refresh, asking, dead>>

CacheRefreshToken(p) ==
  /\ writing[p] = Second
  /\ refresh' \in {refresh, RefreshTtl}
  /\ writing' = [writing EXCEPT ![p] = NoKey]
  /\ UNCHANGED <<key, asking, dead, late>>

-----------------------------------------------------------------------------
\* A unit of time passes: tokens age, keys expire.  Ages count up to the life.
TimePasses ==
  /\ key' = IF key = NoKey \/ key.left = 1 THEN NoKey
            ELSE [age |-> key.age + 1, left |-> key.left - 1]
  /\ refresh' = IF refresh \in {NoKey, 1} THEN NoKey ELSE refresh - 1
  /\ writing' = [p \in Payments |->
       IF writing[p] \in {NoKey, Second} \/ writing[p].age = IdTokenLife THEN writing[p]
       ELSE [writing[p] EXCEPT !.age = @ + 1]]
  /\ UNCHANGED <<asking, dead, late>>

\* The process stops, with the writes it still had to make.
ProcessStops ==
  /\ asking' = [p \in Payments |-> "idle"]
  /\ writing' = [p \in Payments |-> NoKey]
  /\ UNCHANGED <<key, refresh, dead, late>>

GatewayTokensNext ==
  \/ \E p \in Payments :
       \/ FindIdToken(p) \/ MissIdToken(p) \/ FindRefreshToken(p)
       \/ refreshGrantToken(p) \/ requestNewGrantToken(p)
       \/ CacheIdToken(p) \/ CacheRefreshToken(p)
  \/ TimePasses
  \/ ProcessStops

GatewayTokensSpec == GatewayTokensInit /\ [][GatewayTokensNext]_gatewayTokensVars

-----------------------------------------------------------------------------
\* A payment is never sent to bKash with an id_token that was dead when it was
\* handed out, whoever fetched, refreshed and cached tokens in whichever order,
\* if Redis took no longer to store them than the five minutes by which a key
\* goes before its token ("refresh a bit early", bkash.ts:9).  Beyond that, a
\* dead token stays in the cache for up to its expiration (bkash.ts:126).
TokensAreAlive == ~late => ~dead
==============================================================================
