----------------------------- MODULE JwtValidator -----------------------------
(***************************************************************************)
(* Local validation of agent tokens against the hub's published keys       *)
(* (src/packages/pub-server/src/auth/jwt-validator.ts): a cache of the key *)
(* set with an age, a second look at the hub for an unknown key id, and    *)
(* validations that overlap, each with a fetch of its own.  The hub        *)
(* publishes and withdraws keys at any time, answers late, in any order,   *)
(* or not at all.  A token is its key id: what a signature, an expiry or a *)
(* claim may still refuse changes no state.  Local-trust mode, where the   *)
(* key set is the issuer's key, is LocalTrust; Trust composes the two.     *)
(***************************************************************************)
EXTENDS Naturals

CONSTANTS
    Validations, \* calls of validate()
    Keys,        \* key ids
    TTL,         \* JWKS_CACHE_TTL_MS, in ticks
    MaxTime,     \* bound on the clock
    NoKid        \* no key id: a call that is not in progress

ASSUME ValidatorAssumption ==
    NoKid \notin Keys /\ TTL \in Nat \ {0} /\ MaxTime \in Nat /\ TTL <= MaxTime

VARIABLES
    now,       \* Date.now()
    published, \* the keys the hub publishes
    cache,     \* keys of jwksCache; {} when it is null
    cacheTime, \* jwksCacheTimestamp
    stage,     \* how far each validation is
    kid,       \* the key id of its token
    retried,   \* the calls in their second look
    since,     \* when its fetch began
    keys,      \* the key set it was answered
    began,     \* history: when it began
    steady,    \* history: calls whose key has been published since they began
    lastSeen   \* history: when a key was withdrawn, 0 for a published one

hub     == <<published, lastSeen>>
caching == <<cache, cacheTime>>
calls   == <<stage, kid, retried, since, keys, began, steady>>
vars    == <<now, hub, caching, calls>>

Stages == {"idle", "fetching", "served", "looked"}

TypeOK ==
    /\ now \in TTL..MaxTime
    /\ published \subseteq Keys
    /\ cache \subseteq Keys
    /\ cacheTime \in 0..MaxTime
    /\ stage \in [Validations -> Stages]
    /\ kid \in [Validations -> Keys \cup {NoKid}]
    /\ retried \subseteq Validations
    /\ since \in [Validations -> 0..MaxTime]
    /\ keys \in [Validations -> SUBSET Keys]
    /\ began \in [Validations -> 0..MaxTime]
    /\ steady \subseteq Validations
    /\ lastSeen \in [Keys -> 0..MaxTime]

\* The clock is far from 0; a key that was never published was last seen at 0
Init ==
    /\ now = TTL
    /\ published \in SUBSET Keys \ {{}}
    /\ cache = {} /\ cacheTime = 0
    /\ stage = [v \in Validations |-> "idle"]
    /\ kid = [v \in Validations |-> NoKid]
    /\ retried = {}
    /\ since = [v \in Validations |-> 0]
    /\ keys = [v \in Validations |-> {}]
    /\ began = [v \in Validations |-> 0]
    /\ steady = {}
    /\ lastSeen = [k \in Keys |-> 0]

-----------------------------------------------------------------------------
(* The hub and the clock *)

Tick ==
    /\ now < MaxTime
    /\ now' = now + 1
    /\ UNCHANGED <<hub, caching, calls>>

\* The hub publishes another set of keys
Rotate(S) ==
    /\ published' = S
    /\ lastSeen' = [k \in Keys |-> CASE k \in S -> 0
                                     [] k \in published \ S -> now
                                     [] OTHER -> lastSeen[k]]
    /\ steady' = {v \in steady : kid[v] \in S}
    /\ UNCHANGED <<now, caching, stage, kid, retried, since, keys, began>>

\* The hub answers a request with what it publishes now
Serve(v) ==
    /\ stage[v] = "fetching"
    /\ stage' = [stage EXCEPT ![v] = "served"]
    /\ keys' = [keys EXCEPT ![v] = published]
    /\ UNCHANGED <<now, hub, caching, kid, retried, since, began, steady>>

-----------------------------------------------------------------------------
(* validate and fetchJwks *)

\* Mutant: the age of the set is not looked at
FreshWhenever == cache # {}

Fresh == cache # {} /\ now - cacheTime < TTL

\* fetchJwks up to its await, with the set s in the cache: a fresh set is the
\* answer, else the hub is asked
FetchJwks(v, fresh) ==
    IF fresh
    THEN /\ stage' = [stage EXCEPT ![v] = "looked"]
         /\ keys' = [keys EXCEPT ![v] = cache]
         /\ UNCHANGED since
    ELSE /\ stage' = [stage EXCEPT ![v] = "fetching"]
         /\ since' = [since EXCEPT ![v] = now]
         /\ UNCHANGED keys

Validate(v, k) ==
    /\ stage[v] = "idle"
    /\ kid' = [kid EXCEPT ![v] = k]
    /\ FetchJwks(v, Fresh)
    /\ began' = [began EXCEPT ![v] = now]
    /\ steady' = IF k \in published THEN steady \cup {v} ELSE steady
    /\ UNCHANGED <<now, hub, caching, retried>>

\* Mutant: the set is dated when it arrives
ArriveDatedNow(v) ==
    /\ stage[v] = "served"
    /\ stage' = [stage EXCEPT ![v] = "looked"]
    /\ cache' = keys[v]
    /\ cacheTime' = now
    /\ since' = [since EXCEPT ![v] = 0]
    /\ UNCHANGED <<now, hub, kid, retried, keys, began, steady>>

\* Mutant: the set is dated when it expires
ArriveDatedAtExpiry(v) ==
    /\ stage[v] = "served"
    /\ stage' = [stage EXCEPT ![v] = "looked"]
    /\ cache' = keys[v]
    /\ cacheTime' = since[v] + TTL
    /\ since' = [since EXCEPT ![v] = 0]
    /\ UNCHANGED <<now, hub, kid, retried, keys, began, steady>>

\* The answer arrives: it replaces whatever the cache holds by then, and is
\* dated when its fetch began
Arrive(v) ==
    /\ stage[v] = "served"
    /\ stage' = [stage EXCEPT ![v] = "looked"]
    /\ cache' = keys[v]
    /\ cacheTime' = since[v]
    /\ since' = [since EXCEPT ![v] = 0]
    /\ UNCHANGED <<now, hub, kid, retried, keys, began, steady>>

\* A call ends and its locals with it; the next one may begin
End(v) ==
    /\ stage' = [stage EXCEPT ![v] = "idle"]
    /\ kid' = [kid EXCEPT ![v] = NoKid]
    /\ retried' = retried \ {v}
    /\ since' = [since EXCEPT ![v] = 0]
    /\ keys' = [keys EXCEPT ![v] = {}]
    /\ began' = [began EXCEPT ![v] = 0]
    /\ steady' = steady \ {v}
    /\ UNCHANGED <<now, hub, caching>>

\* The request fails, the hub refuses it, or its answer holds no keys
FetchFails(v) ==
    /\ stage[v] \in {"fetching", "served"}
    /\ End(v)

Accept(v) ==
    /\ stage[v] = "looked"
    /\ kid[v] \in keys[v]
    /\ End(v)

\* Mutant: the second look is answered by the cache, too
RetryFromCache(v) ==
    /\ stage[v] = "looked"
    /\ kid[v] \notin keys[v]
    /\ v \notin retried
    /\ retried' = retried \cup {v}
    /\ FetchJwks(v, Fresh)
    /\ UNCHANGED <<now, hub, caching, kid, began, steady>>

\* The key is unknown: the cache is emptied, so that fetchJwks asks the hub
Retry(v) ==
    /\ stage[v] = "looked"
    /\ kid[v] \notin keys[v]
    /\ v \notin retried
    /\ retried' = retried \cup {v}
    /\ cache' = {} /\ cacheTime' = 0
    /\ FetchJwks(v, FALSE)
    /\ UNCHANGED <<now, hub, kid, began, steady>>

\* Mutant: one look more while the hub withholds the key
NotFoundRetries(v) ==
    /\ stage[v] = "looked"
    /\ kid[v] \notin keys[v]
    /\ v \in retried
    /\ FetchJwks(v, FALSE)
    /\ UNCHANGED <<now, hub, caching, kid, retried, began, steady>>

\* The key is unknown after the second look
NotFound(v) ==
    /\ stage[v] = "looked"
    /\ kid[v] \notin keys[v]
    /\ v \in retried
    /\ End(v)

-----------------------------------------------------------------------------

Next ==
    \/ Tick
    \/ \E S \in SUBSET Keys \ {{}} : Rotate(S)
    \/ \E v \in Validations :
        \/ \E k \in Keys : Validate(v, k)
        \/ Serve(v) \/ Arrive(v) \/ FetchFails(v)
        \/ Accept(v) \/ Retry(v) \/ NotFound(v)

Spec == Init /\ [][Next]_vars

\* An HTTP request ends, one way or the other, and continuations run
Fairness ==
    \A v \in Validations :
        WF_vars(Arrive(v) \/ FetchFails(v) \/ Accept(v) \/ Retry(v) \/ NotFound(v))

-----------------------------------------------------------------------------
(* Properties *)

\* The last moment, up to now, at which the hub published key k
Seen(k) == IF k \in published THEN now ELSE lastSeen[k]

\* A key the hub withdrew a full cache age before a validation begins is not
\* accepted by it, in whatever order late answers replace each other in the
\* cache: a set is dated when its fetch began (jwt-validator.ts:72, 117).
WithdrawnKeyForgotten ==
    [][\A v \in Validations : Accept(v) => Seen(kid[v]) + TTL > began[v]]_vars

\* A token is refused for an unknown key only if the hub did not publish the key
\* throughout the validation: however stale the cache, the second look is at the
\* hub (jwt-validator.ts:160-164).
PublishedKeyFound ==
    [][\A v \in Validations : NotFound(v) => v \notin steady]_vars

\* A validation ends, whatever the others do to the cache it shares.
ValidationEnds ==
    \A v \in Validations : stage[v] # "idle" ~> stage[v] = "idle"
=============================================================================
