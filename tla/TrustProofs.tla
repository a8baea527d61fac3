----------------------------- MODULE TrustProofs -----------------------------
(***************************************************************************)
(* Proofs about JwtValidator, for any keys, overlapping validations, cache *)
(* age and clock, and about LocalTrust, for any agents, crashes and edits; *)
(* at the end both are transferred to the pub that is one or the other.    *)
(*                                                                         *)
(* The validator's argument dates every key set by what the hub did: the   *)
(* keys of a set were published when it was dated, or later.  The local    *)
(* authority's invariants each follow one hand-over between what is on     *)
(* disk and what is in memory: the key from its file, the roster from its  *)
(* file and back, where not everything that is written can be read.        *)
(***************************************************************************)
EXTENDS Trust, TLAPS

-----------------------------------------------------------------------------
(* The validator and the hub's keys *)

\* No key was seen in the future.
SeenInPast == \A k \in Keys : lastSeen[k] <= now

\* The keys in the cache were published at its date or later.
CacheDated ==
    cache # {} => cacheTime <= now /\ \A k \in cache : Seen(k) >= cacheTime

\* No call began in the future.
BeganInPast == \A v \in Validations : began[v] <= now

\* A fetch begins within its call, and its answer is no older than it.
FetchDated ==
    \A v \in Validations : stage[v] \in {"fetching", "served"} =>
        /\ began[v] <= since[v] /\ since[v] <= now
        /\ stage[v] = "served" => \A k \in keys[v] : Seen(k) >= since[v]

\* The keys a call looks into were published within the cache age before it.
LookDated ==
    \A v \in Validations : stage[v] = "looked" =>
        \A k \in keys[v] : Seen(k) + TTL > began[v]

DateInv ==
    TypeOK /\ SeenInPast /\ BeganInPast /\ CacheDated /\ FetchDated /\ LookDated

\* The initial state satisfies the invariant.
LEMMA InitDateInv == Init => DateInv
<1> SUFFICES ASSUME Init PROVE DateInv
  OBVIOUS
<1> USE ValidatorAssumption DEF Init
<1>1. TypeOK
  BY DEF TypeOK, Stages
<1>2. SeenInPast /\ BeganInPast /\ CacheDated /\ FetchDated /\ LookDated
  BY DEF SeenInPast, BeganInPast, CacheDated, FetchDated, LookDated
<1> QED  BY <1>1, <1>2 DEF DateInv

\* Every step keeps types.
LEMMA NextTypeOK == TypeOK /\ [Next]_vars => TypeOK'
<1> SUFFICES ASSUME TypeOK, [Next]_vars PROVE TypeOK'
  OBVIOUS
<1> USE ValidatorAssumption DEF TypeOK, Stages, hub, caching, calls
<1>1. CASE Tick
  BY <1>1 DEF Tick
<1>2. ASSUME NEW S \in SUBSET Keys, Rotate(S) PROVE TypeOK'
  BY <1>2 DEF Rotate
<1>3. ASSUME NEW v \in Validations, Serve(v) PROVE TypeOK'
  BY <1>3 DEF Serve
<1>4. ASSUME NEW v \in Validations, NEW k \in Keys, Validate(v, k) PROVE TypeOK'
  BY <1>4 DEF Validate, FetchJwks
<1>5. ASSUME NEW v \in Validations, Arrive(v) PROVE TypeOK'
  BY <1>5 DEF Arrive
<1>6. ASSUME NEW v \in Validations, FetchFails(v) \/ Accept(v) \/ NotFound(v)
      PROVE  TypeOK'
  BY <1>6 DEF FetchFails, Accept, NotFound, End
<1>7. ASSUME NEW v \in Validations, Retry(v) PROVE TypeOK'
  BY <1>7 DEF Retry, FetchJwks
<1>8. CASE UNCHANGED vars
  BY <1>8 DEF vars
<1> QED  BY <1>1, <1>2, <1>3, <1>4, <1>5, <1>6, <1>7, <1>8 DEF Next

\* The last moment a key was seen never moves back.
LEMMA SeenGrows ==
  ASSUME TypeOK, SeenInPast, [Next]_vars
  PROVE  /\ SeenInPast'
         /\ now <= now'
         /\ \A k \in Keys : Seen(k) <= Seen(k)'
<1> USE DEF TypeOK, SeenInPast, Seen, hub, caching, calls
<1>1. CASE Tick
  BY <1>1 DEF Tick
<1>2. ASSUME NEW S \in SUBSET Keys, Rotate(S)
      PROVE  SeenInPast' /\ now <= now' /\ \A k \in Keys : Seen(k) <= Seen(k)'
  BY <1>2 DEF Rotate
<1>3. CASE UNCHANGED <<now, published, lastSeen>>
  BY <1>3
<1>4. ASSUME NEW v \in Validations,
             \/ \E k \in Keys : Validate(v, k)
             \/ Serve(v) \/ Arrive(v) \/ FetchFails(v)
             \/ Accept(v) \/ Retry(v) \/ NotFound(v)
      PROVE  UNCHANGED <<now, published, lastSeen>>
  BY <1>4 DEF Validate, Serve, Arrive, FetchFails, Accept, Retry, NotFound, End
<1> QED  BY <1>1, <1>2, <1>3, <1>4 DEF Next, vars

\* The moment a key was last seen is a natural number.
LEMMA SeenType == TypeOK => \A k \in Keys : Seen(k) \in Nat
  BY ValidatorAssumption DEF TypeOK, Seen

\* Every step keeps the cache dated: an answer brings the date of its fetch along.
LEMMA CacheDatedStep == DateInv /\ [Next]_vars => CacheDated'
<1> SUFFICES ASSUME DateInv, [Next]_vars PROVE CacheDated'
  OBVIOUS
<1>0. TypeOK /\ TypeOK' /\ SeenInPast /\ CacheDated /\ FetchDated
  BY NextTypeOK DEF DateInv
<1>1. /\ now \in Nat /\ now' \in Nat /\ now <= now'
      /\ \A k \in Keys : Seen(k) \in Nat /\ Seen(k)' \in Nat /\ Seen(k) <= Seen(k)'
  <2>1. \A k \in Keys : Seen(k) \in Nat
    BY <1>0, SeenType
  <2>2. \A k \in Keys : Seen(k)' \in Nat
    BY <1>0, ValidatorAssumption DEF TypeOK, Seen
  <2>3. now <= now' /\ \A k \in Keys : Seen(k) <= Seen(k)'
    BY <1>0, SeenGrows
  <2> QED  BY <2>1, <2>2, <2>3, <1>0, ValidatorAssumption DEF TypeOK
<1>2. CASE UNCHANGED caching
  BY <1>0, <1>1, <1>2 DEF CacheDated, caching, TypeOK
<1>3. ASSUME NEW v \in Validations, Arrive(v) PROVE CacheDated'
  <2>1. stage[v] = "served" /\ cache' = keys[v] /\ cacheTime' = since[v]
    BY <1>3 DEF Arrive
  <2>2. since[v] <= now /\ \A k \in keys[v] : Seen(k) >= since[v]
    BY <1>0, <2>1 DEF FetchDated
  <2>3. since[v] \in Nat /\ keys[v] \subseteq Keys
    BY <1>0 DEF TypeOK
  <2> QED  BY <1>1, <2>1, <2>2, <2>3 DEF CacheDated
<1>4. ASSUME NEW v \in Validations, Retry(v) PROVE CacheDated'
  BY <1>4 DEF Retry, CacheDated
<1>5. ASSUME NEW v \in Validations,
             \/ \E k \in Keys : Validate(v, k)
             \/ Serve(v) \/ FetchFails(v) \/ Accept(v) \/ NotFound(v)
      PROVE  UNCHANGED caching
  BY <1>5 DEF Validate, Serve, FetchFails, Accept, NotFound, End, caching
<1>6. Tick \/ (\E S \in SUBSET Keys : Rotate(S)) \/ UNCHANGED vars => UNCHANGED caching
  BY DEF Tick, Rotate, vars, caching
<1> QED  BY <1>2, <1>3, <1>4, <1>5, <1>6 DEF Next

\* Every step keeps the fetches dated: Serve answers with what is published now.
LEMMA FetchDatedStep == DateInv /\ [Next]_vars => FetchDated' /\ BeganInPast'
<1> SUFFICES ASSUME DateInv, [Next]_vars PROVE FetchDated' /\ BeganInPast'
  OBVIOUS
<1>0. TypeOK /\ TypeOK' /\ BeganInPast /\ FetchDated
  BY NextTypeOK DEF DateInv
<1>1. /\ now \in Nat /\ now' \in Nat /\ now <= now'
      /\ \A k \in Keys : Seen(k) \in Nat /\ Seen(k)' \in Nat /\ Seen(k) <= Seen(k)'
  <2>1. \A k \in Keys : Seen(k) \in Nat
    BY <1>0, SeenType
  <2>2. \A k \in Keys : Seen(k)' \in Nat
    BY <1>0, ValidatorAssumption DEF TypeOK, Seen
  <2>3. now <= now' /\ \A k \in Keys : Seen(k) <= Seen(k)'
    BY <1>0, SeenGrows DEF DateInv
  <2> QED  BY <2>1, <2>2, <2>3, <1>0, ValidatorAssumption DEF TypeOK
<1> DEFINE Dated(w) == stage[w] \in {"fetching", "served"} =>
                         /\ began[w] <= since[w] /\ since[w] <= now
                         /\ stage[w] = "served" => \A k \in keys[w] : Seen(k) >= since[w]
<1>2. \A w \in Validations : began[w] \in Nat /\ since[w] \in Nat /\ keys[w] \subseteq Keys
  BY <1>0 DEF TypeOK
<1>3. \A w \in Validations : Dated(w) /\ began[w] <= now
  BY <1>0 DEF FetchDated, BeganInPast
<1>4. ASSUME NEW w \in Validations,
             UNCHANGED <<stage[w], began[w], since[w], keys[w]>>
      PROVE  Dated(w)' /\ began'[w] <= now'
  BY <1>1, <1>2, <1>3, <1>4
<1>5. ASSUME NEW v \in Validations,
             \/ \E k \in Keys : Validate(v, k)
             \/ Serve(v) \/ Arrive(v) \/ FetchFails(v)
             \/ Accept(v) \/ Retry(v) \/ NotFound(v)
      PROVE  /\ \A w \in Validations \ {v} :
                  UNCHANGED <<stage[w], began[w], since[w], keys[w]>>
             /\ UNCHANGED hub /\ now' = now
  BY <1>5, <1>0 DEF Validate, Serve, Arrive, FetchFails, Accept, Retry, NotFound,
                    End, FetchJwks, TypeOK, hub
<1>6. ASSUME NEW v \in Validations,
             \/ \E k \in Keys : Validate(v, k)
             \/ Serve(v) \/ Arrive(v) \/ FetchFails(v)
             \/ Accept(v) \/ Retry(v) \/ NotFound(v)
      PROVE  Dated(v)' /\ began'[v] <= now'
  <2>1. now' = now
    BY <1>5, <1>6
  <2>2. ASSUME NEW k \in Keys, Validate(v, k) PROVE Dated(v)' /\ began'[v] <= now'
    BY <2>1, <2>2, <1>0, <1>1, <1>2 DEF Validate, FetchJwks, TypeOK
  <2>3. CASE Serve(v)
    <3>1. /\ stage[v] = "fetching" /\ keys'[v] = published
          /\ began' = began /\ since' = since /\ stage'[v] = "served"
          /\ published' = published
      BY <2>3, <1>0 DEF Serve, TypeOK, hub
    <3>2. \A k \in published : Seen(k)' = now
      BY <3>1, <2>1 DEF Seen
    <3> QED  BY <3>1, <3>2, <2>1, <1>1, <1>2, <1>3
  <2>4. CASE Retry(v)
    BY <2>1, <2>4, <1>0, <1>1, <1>2, <1>3 DEF Retry, FetchJwks, TypeOK
  <2>5. CASE Arrive(v)
    BY <2>1, <2>5, <1>0, <1>3 DEF Arrive, TypeOK
  <2>6. CASE FetchFails(v) \/ Accept(v) \/ NotFound(v)
    BY <2>1, <2>6, <1>0, <1>1 DEF FetchFails, Accept, NotFound, End, TypeOK
  <2> QED  BY <1>6, <2>2, <2>3, <2>4, <2>5, <2>6
<1>7. Tick \/ (\E S \in SUBSET Keys : Rotate(S)) \/ UNCHANGED vars
        => UNCHANGED <<stage, began, since, keys>>
  BY DEF Tick, Rotate, vars, calls
<1>8. \A w \in Validations : Dated(w)' /\ began'[w] <= now'
  BY <1>4, <1>5, <1>6, <1>7 DEF Next
<1> QED  BY <1>8 DEF FetchDated, BeganInPast

\* Every step keeps dated what a call looks into: the cache is fresh when a call
\* takes its keys from it, and a fetch began within its call.
LEMMA LookDatedStep == DateInv /\ [Next]_vars => LookDated'
<1> SUFFICES ASSUME DateInv, [Next]_vars PROVE LookDated'
  OBVIOUS
<1>0. TypeOK /\ TypeOK' /\ CacheDated /\ FetchDated /\ LookDated
  BY NextTypeOK DEF DateInv
<1>1. /\ now \in Nat /\ now' \in Nat /\ now <= now'
      /\ \A k \in Keys : Seen(k) \in Nat /\ Seen(k)' \in Nat /\ Seen(k) <= Seen(k)'
  <2>1. \A k \in Keys : Seen(k) \in Nat
    BY <1>0, SeenType
  <2>2. \A k \in Keys : Seen(k)' \in Nat
    BY <1>0, ValidatorAssumption DEF TypeOK, Seen
  <2>3. now <= now' /\ \A k \in Keys : Seen(k) <= Seen(k)'
    BY <1>0, SeenGrows DEF DateInv
  <2> QED  BY <2>1, <2>2, <2>3, <1>0, ValidatorAssumption DEF TypeOK
<1> DEFINE Dated(w) == stage[w] = "looked" => \A k \in keys[w] : Seen(k) + TTL > began[w]
<1>2. \A w \in Validations : began[w] \in Nat /\ since[w] \in Nat /\ keys[w] \subseteq Keys
  BY <1>0 DEF TypeOK
<1>3. ASSUME NEW w \in Validations, UNCHANGED <<stage[w], began[w], keys[w]>>
      PROVE  Dated(w)'
  <2>1. SUFFICES ASSUME stage[w] = "looked", NEW k \in keys[w]
                 PROVE  Seen(k)' + TTL > began[w]
    BY <1>3
  <2>2. Seen(k) + TTL > began[w]
    BY <1>0, <2>1 DEF LookDated
  <2>3. k \in Keys
    BY <1>2, <2>1
  <2> QED  BY <1>1, <1>2, <2>2, <2>3, ValidatorAssumption
<1>4. ASSUME NEW v \in Validations,
             \/ \E k \in Keys : Validate(v, k)
             \/ Serve(v) \/ Arrive(v) \/ FetchFails(v)
             \/ Accept(v) \/ Retry(v) \/ NotFound(v)
      PROVE  \A w \in Validations \ {v} : UNCHANGED <<stage[w], began[w], keys[w]>>
  BY <1>4, <1>0 DEF Validate, Serve, Arrive, FetchFails, Accept, Retry, NotFound,
                    End, FetchJwks, TypeOK
<1>5. ASSUME NEW v \in Validations, NEW k \in Keys, Validate(v, k) PROVE Dated(v)'
  <2>1. CASE Fresh
    <3>1. keys'[v] = cache /\ began'[v] = now
      BY <1>5, <2>1, <1>0 DEF Validate, FetchJwks, TypeOK
    <3>2. cacheTime \in Nat /\ cacheTime <= now /\ now - cacheTime < TTL
      BY <2>1, <1>0 DEF Fresh, CacheDated, TypeOK
    <3>3. \A j \in cache : Seen(j) >= cacheTime /\ j \in Keys
      BY <2>1, <1>0 DEF Fresh, CacheDated, TypeOK
    <3> QED  BY <3>1, <3>2, <3>3, <1>1, ValidatorAssumption
  <2>2. CASE ~Fresh
    BY <1>5, <2>2, <1>0 DEF Validate, FetchJwks, TypeOK
  <2> QED  BY <2>1, <2>2
<1>6. ASSUME NEW v \in Validations, Arrive(v) PROVE Dated(v)'
  <2>1. stage[v] = "served" /\ UNCHANGED <<keys, began>>
    BY <1>6 DEF Arrive
  <2>2. began[v] <= since[v] /\ \A k \in keys[v] : Seen(k) >= since[v]
    BY <2>1, <1>0 DEF FetchDated
  <2> QED  BY <2>1, <2>2, <1>1, <1>2, ValidatorAssumption
<1>7. ASSUME NEW v \in Validations,
             Serve(v) \/ FetchFails(v) \/ Accept(v) \/ Retry(v) \/ NotFound(v)
      PROVE  Dated(v)'
  BY <1>7, <1>0 DEF Serve, FetchFails, Accept, Retry, NotFound, End, FetchJwks, TypeOK
<1>8. Tick \/ (\E S \in SUBSET Keys : Rotate(S)) \/ UNCHANGED vars
        => UNCHANGED <<stage, began, keys>>
  BY DEF Tick, Rotate, vars, calls
<1>9. \A w \in Validations : Dated(w)'
  BY <1>3, <1>4, <1>5, <1>6, <1>7, <1>8 DEF Next
<1> QED  BY <1>9 DEF LookDated

\* In every reachable state the key sets are dated by what the hub published.
LEMMA DateInductive == Spec => []DateInv
<1>1. DateInv /\ [Next]_vars => DateInv'
  BY NextTypeOK, SeenGrows, CacheDatedStep, FetchDatedStep, LookDatedStep DEF DateInv
<1> QED  BY InitDateInv, <1>1, PTL DEF Spec

\* The cache, its date and every call's locals are always well typed (the fields
\* of JwtValidator, jwt-validator.ts:42-46, and the locals of validate).
THEOREM ValidatorTypeTheorem == Spec => []TypeOK
  BY DateInductive, PTL DEF DateInv

\* A key withdrawn a full cache age before a validation began is not accepted by
\* it, however answers and overlapping calls replace the cache (fetchJwks).
THEOREM WithdrawalTheorem == Spec => WithdrawnKeyForgotten
<1> DEFINE Recent == \A v \in Validations : Accept(v) => Seen(kid[v]) + TTL > began[v]
<1>1. ASSUME DateInv PROVE Recent
  BY <1>1 DEF DateInv, LookDated, Accept
<1>2. DateInv /\ [Next]_vars => [Recent]_vars
  BY <1>1, Zenon
<1> HIDE DEF Recent
<1>3. Spec => [][Recent]_vars
  BY <1>2, DateInductive, PTL DEF Spec
<1> QED  BY <1>3, Zenon DEF WithdrawnKeyForgotten, Recent

-----------------------------------------------------------------------------
(* The second look *)

\* A steady call's key is published; its second look, once answered, holds it.
\* Between two calls nothing is left of the last one.
SteadyKnown(v) ==
    /\ stage[v] = "idle" => v \notin retried /\ v \notin steady
    /\ v \in steady => kid[v] \in published
    /\ v \in retried /\ v \in steady /\ stage[v] \in {"served", "looked"}
         => kid[v] \in keys[v]

SteadyInv == \A v \in Validations : SteadyKnown(v)

\* Every step keeps SteadyInv: Retry leads to a fetch, never to the cache.
LEMMA SteadyStep == TypeOK /\ SteadyInv /\ [Next]_vars => SteadyInv'
<1> SUFFICES ASSUME TypeOK, SteadyInv, [Next]_vars PROVE SteadyInv'
  OBVIOUS
<1>1. ASSUME NEW w \in Validations,
             UNCHANGED <<stage[w], kid[w], keys[w], published>>,
             w \in retried' <=> w \in retried, w \in steady' <=> w \in steady
      PROVE  SteadyKnown(w)'
  BY <1>1 DEF SteadyInv, SteadyKnown
<1>2. ASSUME NEW v \in Validations,
             \/ \E k \in Keys : Validate(v, k)
             \/ Serve(v) \/ Arrive(v) \/ FetchFails(v)
             \/ Accept(v) \/ Retry(v) \/ NotFound(v)
      PROVE  \A w \in Validations \ {v} :
               /\ UNCHANGED <<stage[w], kid[w], keys[w], published>>
               /\ w \in retried' <=> w \in retried
               /\ w \in steady' <=> w \in steady
  BY <1>2 DEF Validate, Serve, Arrive, FetchFails, Accept, Retry, NotFound, End,
              FetchJwks, TypeOK, hub
<1>3. ASSUME NEW v \in Validations, NEW k \in Keys, Validate(v, k)
      PROVE  SteadyKnown(v)'
  BY <1>3 DEF Validate, FetchJwks, TypeOK, hub, SteadyInv, SteadyKnown
<1>4. ASSUME NEW v \in Validations, Serve(v) PROVE SteadyKnown(v)'
  BY <1>4 DEF Serve, TypeOK, hub, SteadyInv, SteadyKnown
<1>5. ASSUME NEW v \in Validations, Arrive(v) PROVE SteadyKnown(v)'
  BY <1>5 DEF Arrive, TypeOK, hub, SteadyInv, SteadyKnown
<1>6. ASSUME NEW v \in Validations, Retry(v) PROVE SteadyKnown(v)'
  BY <1>6 DEF Retry, FetchJwks, TypeOK, hub, SteadyInv, SteadyKnown
<1>7. ASSUME NEW v \in Validations, FetchFails(v) \/ Accept(v) \/ NotFound(v)
      PROVE  SteadyKnown(v)'
  BY <1>7 DEF FetchFails, Accept, NotFound, End, TypeOK, SteadyKnown
<1>8. ASSUME NEW S \in SUBSET Keys, Rotate(S), NEW w \in Validations
      PROVE  SteadyKnown(w)'
  BY <1>8 DEF Rotate, SteadyInv, SteadyKnown
<1>9. Tick \/ UNCHANGED vars => UNCHANGED <<stage, kid, keys, published, retried, steady>>
  BY DEF Tick, vars, calls, hub
<1> QED
  BY <1>1, <1>2, <1>3, <1>4, <1>5, <1>6, <1>7, <1>8, <1>9 DEF Next, SteadyInv

\* A token is refused for an unknown key only if the key was not published
\* throughout its validation (the second fetchJwks of validate).
THEOREM SecondLookTheorem == Spec => PublishedKeyFound
<1> DEFINE Known == \A v \in Validations : NotFound(v) => v \notin steady
<1>1. Init => SteadyInv
  BY DEF Init, SteadyInv, SteadyKnown
<1>2. Spec => []SteadyInv
  BY <1>1, SteadyStep, ValidatorTypeTheorem, PTL DEF Spec
<1>3. ASSUME SteadyInv PROVE Known
  BY <1>3 DEF SteadyInv, SteadyKnown, NotFound
<1>4. SteadyInv /\ [Next]_vars => [Known]_vars
  BY <1>3, Zenon
<1> HIDE DEF Known
<1>5. Spec => [][Known]_vars
  BY <1>2, <1>4, PTL DEF Spec
<1> QED  BY <1>5, Zenon DEF PublishedKeyFound, Known

-----------------------------------------------------------------------------
(* The local authority *)

\* A registration is in progress only in a pub that serves, and in its map
RegistrationInv ==
    /\ registering # NoAgent => process = "serving" /\ registering \in memory
    /\ renamed => registering # NoAgent

RosterInv == LocalTypeOK /\ RegistrationInv /\ TornByEditor

\* What was answered 201 is in the map as soon as the map was loaded
AckedInv ==
    /\ ~torn => acked \subseteq file
    /\ process \in {"watch", "serving"} => acked \subseteq memory

\* The map is what was loaded, unless the watcher has something to tell
FollowInv ==
    /\ process # "serving" => unsaved = {}
    /\ process = "watch" /\ ~unwatched => Parses /\ memory = file
    /\ MapIsRoster

\* Tokens are signed with the key on disk or with removed ones; a key is in use
\* only once it is on disk
KeyInv ==
    /\ keyTorn => keyFile = 0
    /\ process = "write" => keyFile = 0
    /\ process \in {"load", "watch", "serving"} => issuer = keyFile
    /\ \A a \in Agents : token[a] \in {0, keyFile} \cup retired

\* Boot steps, an agent's steps and the supervisor's, one by one
LEMMA StepCases ==
    ASSUME [LocalNext]_localVars
    PROVE  \/ Start \/ LoadKey \/ CreateKey \/ WriteKey \/ LoadRoster \/ Watch
           \/ BootFails \/ Crash
           \/ BeginEdit \/ EndLostEdit \/ RemoveKey
           \/ \E S \in SUBSET Agents : EndEdit(S)
           \/ Reload \/ Rename \/ Answer
           \/ \E a \in Agents : \/ Register(a) \/ RegisterFails(a)
                                \/ Auth(a) \/ Mint(a) \/ Enter(a)
           \/ UNCHANGED localVars
BY DEF LocalNext, OwnStep, BootStep, SupervisorStep, AgentStep

-----------------------------------------------------------------------------
(* The state is well typed, and only the supervisor tears the roster *)

\* Every flag stays a flag.
LEMMA FlagsStep == FlagsOK /\ [LocalNext]_localVars => FlagsOK'
<1> SUFFICES ASSUME FlagsOK, [LocalNext]_localVars PROVE FlagsOK'
  OBVIOUS
<1> USE DEF FlagsOK, keyState, disk, roster, agents
<1>1. CASE Start \/ LoadKey \/ CreateKey \/ WriteKey \/ LoadRoster \/ Watch
  BY <1>1, Zenon DEF Start, LoadKey, CreateKey, WriteKey, LoadRoster, Watch
<1>2. CASE BootFails \/ Crash
  BY <1>2, Zenon DEF BootFails, Crash, Dies
<1>3. CASE BeginEdit \/ EndLostEdit \/ RemoveKey \/ \E S \in SUBSET Agents : EndEdit(S)
  BY <1>3, Zenon DEF BeginEdit, EndLostEdit, RemoveKey, EndEdit, Touched
<1>4. CASE Reload \/ Rename \/ Answer
  BY <1>4, Zenon DEF Reload, Rename, Answer, Touched
<1>5. CASE \E a \in Agents : \/ Register(a) \/ RegisterFails(a)
                              \/ Auth(a) \/ Mint(a) \/ Enter(a)
  BY <1>5, Zenon DEF Register, RegisterFails, AddRecord, Auth, Mint, Enter
<1>6. CASE UNCHANGED localVars
  BY <1>6, Zenon DEF localVars
<1> QED BY <1>1, <1>2, <1>3, <1>4, <1>5, <1>6, StepCases

\* The state stays well typed.
LEMMA LocalTypeStep == LocalTypeOK /\ RegistrationInv /\ [LocalNext]_localVars => LocalTypeOK'
<1> SUFFICES ASSUME LocalTypeOK, FlagsOK', RegistrationInv, [LocalNext]_localVars PROVE LocalTypeOK'
  BY FlagsStep DEF LocalTypeOK
<1> USE DEF LocalTypeOK, Boot, Free, keyState, disk, roster, agents
<1>1. CASE Start \/ LoadRoster \/ Watch
  BY <1>1 DEF Start, LoadRoster, Watch
<1>2. CASE LoadKey
  BY <1>2 DEF LoadKey
<1>3. CASE CreateKey
  BY <1>3 DEF CreateKey
<1>4. CASE WriteKey
  BY <1>4 DEF WriteKey
<1>5. CASE BootFails
  BY <1>5 DEF BootFails, Dies
<1>6. CASE Crash
  BY <1>6 DEF Crash, Dies
<1>7. CASE BeginEdit \/ EndLostEdit
  <2>1. CASE BeginEdit
    <3>1. edits' \in Nat /\ file' = {} /\ editor' = "live"
      BY <2>1 DEF BeginEdit
    <3> QED BY <2>1, <3>1 DEF BeginEdit
  <2>2. CASE EndLostEdit
    BY <2>2 DEF EndLostEdit
  <2> QED BY <1>7, <2>1, <2>2
<1>8. CASE RemoveKey
  <2>1. retired' \subseteq Nat
    BY <1>8 DEF RemoveKey
  <2> QED BY <1>8, <2>1 DEF RemoveKey
<1>9. ASSUME NEW S \in SUBSET Agents, EndEdit(S) PROVE LocalTypeOK'
  BY <1>9 DEF EndEdit
<1>10. CASE Reload \/ Rename
  BY <1>10 DEF Reload, Rename
<1>11. CASE Answer
  BY <1>11 DEF Answer, RegistrationInv
<1>12. ASSUME NEW a \in Agents, Register(a) \/ RegisterFails(a) PROVE LocalTypeOK'
  BY <1>12 DEF Register, RegisterFails, AddRecord
<1>13. ASSUME NEW a \in Agents, Auth(a) \/ Enter(a) PROVE LocalTypeOK'
  BY <1>13 DEF Auth, Enter
<1>14. ASSUME NEW a \in Agents, Mint(a) PROVE LocalTypeOK'
  <2>1. token' \in [Agents -> Nat]
    BY <1>14 DEF Mint
  <2> QED BY <1>14, <2>1 DEF Mint
<1>15. CASE UNCHANGED localVars
  BY <1>15 DEF localVars
<1> QED
  BY <1>1, <1>2, <1>3, <1>4, <1>5, <1>6, <1>7, <1>8, <1>9, <1>10, <1>11, <1>12,
     <1>13, <1>14, <1>15, StepCases, Zenon

\* A registration is over before anything else happens in the process.
LEMMA RegistrationStep == RegistrationInv /\ [LocalNext]_localVars => RegistrationInv'
<1> SUFFICES ASSUME RegistrationInv, [LocalNext]_localVars PROVE RegistrationInv'
  OBVIOUS
<1> USE DEF RegistrationInv, Boot, Free, keyState, disk, roster, agents
<1>1. CASE Start \/ LoadKey \/ CreateKey \/ WriteKey \/ LoadRoster \/ Watch
  BY <1>1 DEF Start, LoadKey, CreateKey, WriteKey, LoadRoster, Watch
<1>2. CASE BootFails \/ Crash
  BY <1>2 DEF BootFails, Crash, Dies
<1>3. CASE BeginEdit \/ EndLostEdit \/ RemoveKey
  BY <1>3 DEF BeginEdit, EndLostEdit, RemoveKey, Touched
<1>4. ASSUME NEW S \in SUBSET Agents, EndEdit(S) PROVE RegistrationInv'
  BY <1>4 DEF EndEdit, Touched
<1>5. CASE Reload \/ Rename
  BY <1>5 DEF Reload, Rename, Touched
<1>6. CASE Answer
  BY <1>6 DEF Answer
<1>7. ASSUME NEW a \in Agents, Register(a) \/ RegisterFails(a) PROVE RegistrationInv'
  BY <1>7 DEF Register, RegisterFails, AddRecord
<1>8. ASSUME NEW a \in Agents, Auth(a) \/ Mint(a) \/ Enter(a) PROVE RegistrationInv'
  BY <1>8 DEF Auth, Mint, Enter
<1>9. CASE UNCHANGED localVars
  BY <1>9 DEF localVars
<1> QED
  BY <1>1, <1>2, <1>3, <1>4, <1>5, <1>6, <1>7, <1>8, <1>9, StepCases, Zenon

\* Only an edit tears the roster, and a rename mends it.
LEMMA TornStep == TornByEditor /\ [LocalNext]_localVars => TornByEditor'
<1> SUFFICES ASSUME TornByEditor, [LocalNext]_localVars PROVE TornByEditor'
  OBVIOUS
<1> USE DEF TornByEditor, keyState, disk, roster, agents
<1>1. CASE Start \/ LoadKey \/ CreateKey \/ WriteKey \/ LoadRoster \/ Watch
  BY <1>1 DEF Start, LoadKey, CreateKey, WriteKey, LoadRoster, Watch
<1>2. CASE BootFails \/ Crash
  BY <1>2 DEF BootFails, Crash, Dies
<1>3. CASE BeginEdit \/ EndLostEdit \/ RemoveKey
  BY <1>3 DEF BeginEdit, EndLostEdit, RemoveKey, Touched
<1>4. ASSUME NEW S \in SUBSET Agents, EndEdit(S) PROVE TornByEditor'
  BY <1>4 DEF EndEdit, Touched
<1>5. CASE Reload \/ Rename
  BY <1>5 DEF Reload, Rename, Touched
<1>6. CASE Answer
  BY <1>6 DEF Answer
<1>7. ASSUME NEW a \in Agents, Register(a) \/ RegisterFails(a) PROVE TornByEditor'
  BY <1>7 DEF Register, RegisterFails, AddRecord
<1>8. ASSUME NEW a \in Agents, Auth(a) \/ Mint(a) \/ Enter(a) PROVE TornByEditor'
  BY <1>8 DEF Auth, Mint, Enter
<1>9. CASE UNCHANGED localVars
  BY <1>9 DEF localVars
<1> QED
  BY <1>1, <1>2, <1>3, <1>4, <1>5, <1>6, <1>7, <1>8, <1>9, StepCases, Zenon

\* Every reachable state satisfies the invariant.
LEMMA RosterInvariant == LocalSpec => []RosterInv
<1>1. LocalInit => RosterInv
  <2> SUFFICES ASSUME LocalInit PROVE RosterInv
    OBVIOUS
  <2>1. FlagsOK
    BY DEF LocalInit, FlagsOK
  <2>2. LocalTypeOK
    BY <2>1 DEF LocalInit, LocalTypeOK
  <2>3. RegistrationInv /\ TornByEditor
    BY DEF LocalInit, RegistrationInv, TornByEditor
  <2> QED BY <2>2, <2>3 DEF RosterInv
<1>2. RosterInv /\ [LocalNext]_localVars => RosterInv'
  BY LocalTypeStep, RegistrationStep, TornStep DEF RosterInv
<1> QED BY <1>1, <1>2, PTL DEF LocalSpec

\* The roster, the key and the tokens are well typed in every reachable state.
THEOREM LocalTypeTheorem == LocalSpec => []LocalTypeOK
BY RosterInvariant, PTL DEF RosterInv

\* Only an edit of the supervisor's tears the roster: register() never does.
THEOREM TornTheorem == LocalSpec => []TornByEditor
BY RosterInvariant, PTL DEF RosterInv

-----------------------------------------------------------------------------
(* What was acknowledged is kept *)

\* No step loses an agent that was answered 201.
LEMMA AckedStep == RosterInv /\ AckedInv /\ [LocalNext]_localVars => AckedInv'
<1> SUFFICES ASSUME RosterInv, AckedInv, [LocalNext]_localVars PROVE AckedInv'
  OBVIOUS
<1> USE DEF AckedInv, Parses, Free, keyState, disk, roster, agents
<1>1. CASE Start \/ LoadKey \/ CreateKey \/ WriteKey \/ LoadRoster \/ Watch
  BY <1>1 DEF Start, LoadKey, CreateKey, WriteKey, LoadRoster, Watch
<1>2. CASE BootFails \/ Crash
  BY <1>2 DEF BootFails, Crash, Dies
<1>3. CASE BeginEdit \/ EndLostEdit \/ RemoveKey
  BY <1>3 DEF BeginEdit, EndLostEdit, RemoveKey
<1>4. ASSUME NEW S \in SUBSET Agents, EndEdit(S) PROVE AckedInv'
  BY <1>4 DEF EndEdit
<1>5. CASE Reload
  BY <1>5 DEF Reload
<1>6. CASE Rename
  BY <1>6 DEF Rename, RosterInv, RegistrationInv
<1>7. CASE Answer
  BY <1>7 DEF Answer, RosterInv, RegistrationInv
<1>8. ASSUME NEW a \in Agents, Register(a) \/ RegisterFails(a) PROVE AckedInv'
  BY <1>8 DEF Register, RegisterFails, AddRecord
<1>9. ASSUME NEW a \in Agents, Auth(a) \/ Mint(a) \/ Enter(a)
      PROVE  AckedInv'
  BY <1>9 DEF Auth, Mint, Enter
<1>10. CASE UNCHANGED localVars
  BY <1>10 DEF localVars
<1> QED
  BY <1>1, <1>2, <1>3, <1>4, <1>5, <1>6, <1>7, <1>8, <1>9, <1>10, StepCases, Zenon

\* An agent answered 201 stays in the roster, on disk and in a serving pub, until
\* an edit leaves it out.
THEOREM AckedTheorem == LocalSpec => []AckedKept
<1>1. LocalInit => AckedInv
  BY DEF LocalInit, AckedInv
<1>2. AckedInv => AckedKept
  BY DEF AckedInv, AckedKept
<1> QED BY <1>1, <1>2, RosterInvariant, AckedStep, PTL DEF LocalSpec

-----------------------------------------------------------------------------
(* The map follows the file *)

\* No step takes map and file apart unless an event waits or the file is not read.
LEMMA FollowStep == RosterInv /\ FollowInv /\ [LocalNext]_localVars => FollowInv'
<1> SUFFICES ASSUME RosterInv, FollowInv, [LocalNext]_localVars PROVE FollowInv'
  OBVIOUS
<1> USE DEF FollowInv, MapIsRoster, Parses, Free, Touched, keyState, disk, roster, agents
<1>1. CASE Start \/ LoadKey \/ CreateKey \/ WriteKey \/ LoadRoster \/ Watch
  BY <1>1 DEF Start, LoadKey, CreateKey, WriteKey, LoadRoster, Watch
<1>2. CASE BootFails \/ Crash
  BY <1>2 DEF BootFails, Crash, Dies
<1>3. CASE BeginEdit
  BY <1>3 DEF BeginEdit
<1>4. ASSUME NEW S \in SUBSET Agents, EndEdit(S) PROVE FollowInv'
  BY <1>4 DEF EndEdit
<1>5. CASE EndLostEdit \/ RemoveKey
  BY <1>5 DEF EndLostEdit, RemoveKey
<1>6. CASE Reload
  BY <1>6 DEF Reload
<1>7. CASE Rename
  BY <1>7 DEF Rename, RosterInv, RegistrationInv
<1>8. CASE Answer
  BY <1>8 DEF Answer
<1>9. ASSUME NEW a \in Agents, Register(a) \/ RegisterFails(a) PROVE FollowInv'
  BY <1>9 DEF Register, RegisterFails, AddRecord
<1>10. ASSUME NEW a \in Agents, Auth(a) \/ Mint(a) \/ Enter(a)
       PROVE  FollowInv'
  BY <1>10 DEF Auth, Mint, Enter
<1>11. CASE UNCHANGED localVars
  BY <1>11 DEF localVars
<1> QED
  BY <1>1, <1>2, <1>3, <1>4, <1>5, <1>6, <1>7, <1>8, <1>9, <1>10, <1>11,
     StepCases, Zenon

\* In every reachable state map and file are together, but for what the watcher has
\* to tell and what cannot be read.
LEMMA FollowInvariant == LocalSpec => []FollowInv
<1>1. LocalInit => FollowInv
  BY DEF LocalInit, FollowInv, MapIsRoster
<1> QED BY <1>1, RosterInvariant, FollowStep, PTL DEF LocalSpec

\* Unless an event of the watcher waits, a serving pub knows exactly the agents in a
\* roster it can read, and those whose registration failed to reach it.
THEOREM FollowTheorem == LocalSpec => []MapIsRoster
<1>1. FollowInv => MapIsRoster
  BY DEF FollowInv
<1> QED BY <1>1, FollowInvariant, PTL

\* What is left of RegistrationAppends: a registration that finds the map up to date
\* and without a malformed record keeps every record of the file readable.
AppendsIfInformed ==
    [][Rename /\ ~event /\ ~unwatched /\ memory \cap Malformed = {}
         => Readable \subseteq Readable']_localVars

\* A registration appends to the roster, unless the watcher has something to tell or
\* the schema refuses a record the map holds (persist, local-agent-registry.ts:127-136).
THEOREM AppendTheorem == LocalSpec => AppendsIfInformed
<1> DEFINE Appends == Rename /\ ~event /\ ~unwatched /\ memory \cap Malformed = {}
                        => Readable \subseteq Readable'
<1>1. ASSUME RosterInv, FollowInv PROVE Appends
  <2>1. SUFFICES ASSUME Rename, ~event, ~unwatched, memory \cap Malformed = {}, Parses
                 PROVE  file \subseteq file' /\ Parses'
    BY DEF Readable
  <2>2. process = "serving"
    BY <1>1, <2>1 DEF RosterInv, RegistrationInv, Rename
  <2>3. memory = file \cup unsaved
    BY <1>1, <2>1, <2>2 DEF FollowInv, MapIsRoster
  <2>4. file' = memory /\ torn' = FALSE
    BY <2>1 DEF Rename
  <2> QED BY <2>1, <2>3, <2>4 DEF Parses
<1>2. RosterInv /\ FollowInv /\ [LocalNext]_localVars => [Appends]_localVars
  BY <1>1, Zenon
<1> HIDE DEF Appends
<1>3. LocalSpec => [][Appends]_localVars
  BY <1>2, RosterInvariant, FollowInvariant, PTL DEF LocalSpec
<1> QED BY <1>3, Zenon DEF AppendsIfInformed, Appends

-----------------------------------------------------------------------------
(* Tokens and the key *)

\* Every step keeps tokens and key in agreement.
LEMMA KeyStep == LocalTypeOK /\ KeyInv /\ [LocalNext]_localVars => KeyInv'
<1> SUFFICES ASSUME LocalTypeOK, KeyInv, [LocalNext]_localVars PROVE KeyInv'
  OBVIOUS
<1> USE DEF KeyInv, Free, keyState, disk, roster, agents
<1>1. CASE Start \/ LoadRoster \/ Watch
  BY <1>1 DEF Start, LoadRoster, Watch
<1>2. CASE LoadKey \/ CreateKey \/ WriteKey
  BY <1>2 DEF LoadKey, CreateKey, WriteKey
<1>3. CASE BootFails \/ Crash
  BY <1>3 DEF BootFails, Crash, Dies
<1>4. CASE BeginEdit \/ EndLostEdit \/ \E S \in SUBSET Agents : EndEdit(S)
  BY <1>4 DEF BeginEdit, EndLostEdit, EndEdit
<1>5. CASE RemoveKey
  BY <1>5 DEF RemoveKey
<1>6. CASE Reload \/ Rename \/ Answer
  BY <1>6 DEF Reload, Rename, Answer
<1>7. ASSUME NEW a \in Agents, Register(a) \/ RegisterFails(a) \/ Auth(a) \/ Enter(a)
      PROVE  KeyInv'
  BY <1>7 DEF Register, RegisterFails, AddRecord, Auth, Enter
<1>8. ASSUME NEW a \in Agents, Mint(a) PROVE KeyInv'
  <2>1. token' = [token EXCEPT ![a] = issuer] /\ process = "serving"
    BY <1>8 DEF Mint
  <2>2. \A b \in Agents : token'[b] \in {token[b], keyFile}
    BY <2>1 DEF LocalTypeOK
  <2> QED BY <1>8, <2>2 DEF Mint
<1>9. CASE UNCHANGED localVars
  BY <1>9 DEF localVars
<1> QED
  BY <1>1, <1>2, <1>3, <1>4, <1>5, <1>6, <1>7, <1>8, <1>9, StepCases, Zenon

\* In every reachable state tokens and key agree.
LEMMA KeyInvariant == LocalSpec => []KeyInv
<1>1. LocalInit => KeyInv
  BY DEF LocalInit, KeyInv
<1> QED BY <1>1, LocalTypeTheorem, KeyStep, PTL DEF LocalSpec

\* Tokens outlive the process that signed them, unless their key is removed.
THEOREM TokenTheorem == LocalSpec => []TokensOutliveRestarts
<1>1. KeyInv => TokensOutliveRestarts
  BY DEF KeyInv, TokensOutliveRestarts
<1> QED BY <1>1, KeyInvariant, PTL

\* A torn key file is one nobody holds a token of.
THEOREM TornKeyTheorem == LocalSpec => []TornKeyIsUnused
<1>1. KeyInv => TornKeyIsUnused
  BY DEF KeyInv, TornKeyIsUnused
<1> QED BY <1>1, KeyInvariant, PTL

-----------------------------------------------------------------------------
(* The pub, whichever it trusts *)

\* A step of the pub is one of the validator, in hub mode, or one of the local
\* authority; to the other it is a stutter.
LEMMA TrustNextSplits ==
    [TrustNext]_trustVars => [Next]_vars /\ [LocalNext]_localVars
  BY DEF TrustNext, trustVars

\* A pub of either mode does what the validator's specification allows.
THEOREM ValidatorRefined == TrustSpec => Spec
<1>1. TrustInit => Init
  BY DEF TrustInit
<1> QED  BY <1>1, TrustNextSplits, PTL DEF TrustSpec, Spec

\* A pub of either mode does what the local authority's specification allows.
THEOREM LocalRefined == TrustSpec => LocalSpec
<1>1. TrustInit => LocalInit
  BY DEF TrustInit
<1> QED  BY <1>1, TrustNextSplits, PTL DEF TrustSpec, LocalSpec

\* Hence every promise of the two components is one of the pub.
THEOREM TrustTheorem ==
    TrustSpec => /\ WithdrawnKeyForgotten /\ PublishedKeyFound
                 /\ [](TypeOK /\ AckedKept /\ MapIsRoster)
                 /\ [](TokensOutliveRestarts /\ TornKeyIsUnused)
<1>1. TrustSpec => WithdrawnKeyForgotten /\ PublishedKeyFound /\ []TypeOK
  BY ValidatorRefined, WithdrawalTheorem, SecondLookTheorem, ValidatorTypeTheorem
<1>2. TrustSpec => /\ []AckedKept /\ []MapIsRoster
                   /\ []TokensOutliveRestarts /\ []TornKeyIsUnused
  BY LocalRefined, AckedTheorem, FollowTheorem, TokenTheorem, TornKeyTheorem
<1> QED  BY <1>1, <1>2, PTL
=============================================================================
