------------------------------- MODULE RpcAuth -------------------------------
(***************************************************************************)
(* The Authenticator of balancer/zrpc/internal/auth: the token of an       *)
(* application is kept in a Redis hash, and in front of it in a cache      *)
(* whose entries expire after five minutes. Calls that miss the cache      *)
(* share one fetch (Take of go-zero's collection.Cache).                   *)
(***************************************************************************)
EXTENDS Naturals

CONSTANTS
  Token,      \* the tokens the application may have
  MaxChanges  \* bound: how often its token in Redis is changed

VARIABLES
  store,    \* the token in Redis, or "absent"
  changes,  \* how often it was changed
  cache,    \* the cached token, or "unknown"
  fetch,    \* the fetch in flight: "none", "asked", or what it has read
  fresh     \* history: "yes" if the cache cannot hold an older token than Redis

authVars == <<store, changes, cache, fetch, fresh>>

NewAuthenticator ==
  /\ store \in Token \cup {"absent"} /\ changes = 0
  /\ cache = "unknown" /\ fetch = "none" /\ fresh = "yes"

\* Variant for a mutation run: a failed fetch lets a call pass in either mode.
ValidateNotStrict(mode, given, expect) ==
  IF expect = "error" THEN "nil"
  ELSE IF given # expect THEN "Unauthenticated" ELSE "nil"

\* The verdict on a token, given what Take returned. A hash without the
\* application is an error of Hget like any other.
Validate(mode, given, expect) ==
  IF expect = "error" THEN IF mode = "strict" THEN "Internal" ELSE "nil"
  ELSE IF given # expect THEN "Unauthenticated" ELSE "nil"

Cached == cache # "unknown"

\* Take, when the cache does not have the token: the first caller asks Redis.
JoinFetch ==
  /\ ~ Cached
  /\ fetch' = IF fetch = "none" THEN "asked" ELSE fetch
  /\ UNCHANGED <<store, changes, cache, fresh>>

\* Redis answers, or does not.
Hget ==
  /\ fetch = "asked"
  /\ fetch' \in {"error", IF store = "absent" THEN "error" ELSE store}
  /\ UNCHANGED <<store, changes, cache, fresh>>

Fetched == fetch \notin {"none", "asked"}

\* The fetch ends for all who wait for it; an error is not cached.
EndFetch ==
  /\ Fetched
  /\ cache' = IF fetch = "error" THEN "unknown" ELSE fetch
  /\ fetch' = "none"
  /\ fresh' = IF fetch = "error" THEN "yes" ELSE fresh
  /\ UNCHANGED <<store, changes>>

CacheExpires ==
  /\ Cached
  /\ cache' = "unknown" /\ fresh' = "yes"
  /\ UNCHANGED <<store, changes, fetch>>

\* An operator changes or removes the token.
ChangeToken ==
  /\ changes < MaxChanges
  /\ changes' = changes + 1
  /\ \E t \in (Token \cup {"absent"}) \ {store} : store' = t
  /\ fresh' = IF Cached \/ Fetched THEN "no" ELSE "yes"
  /\ UNCHANGED <<cache, fetch>>
=============================================================================
