--------------------------- MODULE GovernedCache ---------------------------
(***************************************************************************)
(* GovernedCache (cache/governed_cache.py): results of governed queries    *)
(* kept in one store (Redis, or the in-process fallback) that several      *)
(* cache objects share.  set and get each talk to the catalog and to the   *)
(* store more than once; they are split there, and the callers, the writer *)
(* of the catalog and the invalidations interleave.  An identity is a      *)
(* <<user_id, agent_id>> pair.                                             *)
(***************************************************************************)
EXTENDS DataCatalog

CONSTANTS
    Callers,          \* threads that use the cache
    Caches,           \* GovernedCache objects on the store
    FernetKey,        \* cache -> its encryption key (or that it has none)
    Identities,       \* the identities callers act for
    Queries,
    Duties,           \* caller -> the <<identity, cache, query>> it works with
    IdHash,           \* identity -> hash of "user:agent"; two may be equal
    QueryHash,        \* query -> hash of the stripped query
    Levels,           \* the sensitivities callers pass to set
    Ttl,              \* SENSITIVITY_TTL
    NoVersion,        \* current_policy_version = None
    Horizon,          \* bound: the clock stops here
    MaxCalls          \* bound: calls of set, get and invalidate_for_user

ASSUME CacheAssumption ==
    /\ Identities \subseteq UserIds \X AgentIds
    /\ Duties \in [Callers -> SUBSET (Identities \X Caches \X Queries)]
    /\ Levels \subseteq SensitivityLevel
    /\ Ttl \in [SensitivityLevel -> Nat]
    /\ Ttl[SECRET] = 0
    /\ Horizon \in Nat
    /\ MaxCalls \in Nat

VARIABLES
    clock,
    store,            \* key -> entry
    task,             \* caller -> what it is doing
    calls             \* the calls begun, counted for the bound

cacheVars == <<clock, store, task, calls>>
vars == <<catalogVars, cacheVars>>

----------------------------------------------------------------------------
(* _build_key: the policy prefix of the live version, the hash of the      *)
(* identity and the hash of the query.                                     *)

\* Mutant: the key is the same under every policy.
BuildKeyWithoutPolicy(who, query) ==
    [version |-> NoVersion, id |-> IdHash[who], query |-> QueryHash[query]]

\* Mutant: the key is the same for every query of an identity.
BuildKeyWithoutQuery(who, query) ==
    [version |-> policyVersion, id |-> IdHash[who], query |-> NoVersion]

BuildKey(who, query) ==
    [version |-> policyVersion, id |-> IdHash[who], query |-> QueryHash[query]]

Idle == [op |-> "idle"]

\* A caller between two calls still holds what the last one gave it.
Free(c) == task[c].op \in {"idle", "returned", "purged"}

Become(c, new) == task' = [task EXCEPT ![c] = new]

Begin(c, new) ==
    /\ Free(c)
    /\ calls < MaxCalls
    /\ calls' = calls + 1
    /\ Become(c, new)

Continue(c, new) == Become(c, new) /\ UNCHANGED calls

Delete(key) == store' = Restrict(store, DOMAIN store \ {key})

----------------------------------------------------------------------------
(* set                                                                     *)

\* A caller gets the result of a governed query before it caches it.  All that
\* tells the data apart is for whom, for which query and under which policy
\* they were computed.
Fetch(c, duty, level) ==
    /\ Begin(c, [op |-> "fetched", who |-> duty[1], cache |-> duty[2],
                  query |-> duty[3], level |-> level,
                  data |-> [who |-> duty[1], query |-> duty[3],
                            version |-> policyVersion]])
    /\ UNCHANGED <<clock, store>>

\* Mutant: every result is cached.
AlwaysCacheable(level) == TRUE

Cacheable(level) == Ttl[level] # 0

SetSkipped(c) ==
    /\ task[c].op = "fetched"
    /\ ~Cacheable(task[c].level)
    /\ Continue(c, Idle)
    /\ UNCHANGED <<clock, store>>

\* late is history: the policy is no longer that of the data.
SetBuildsKey(c) ==
    /\ task[c].op = "fetched"
    /\ Cacheable(task[c].level)
    /\ Continue(c, [op |-> "keyed", fetched |-> task[c],
                  key |-> BuildKey(task[c].who, task[c].query),
                  late |-> task[c].data.version # policyVersion])
    /\ UNCHANGED <<clock, store>>

\* The label is the version that is live now, not the one under which the
\* result was computed.
SetLabels(c) ==
    /\ task[c].op = "keyed"
    /\ Continue(c, [op |-> "labelled", key |-> task[c].key,
                  entry |-> [data           |-> task[c].fetched.data,
                             who            |-> task[c].fetched.who,
                             sensitivity    |-> task[c].fetched.level,
                             policy_version |-> policyVersion,
                             fernet         |-> FernetKey[task[c].fetched.cache],
                             late           |-> task[c].late]])
    /\ UNCHANGED <<clock, store>>

\* Mutant: every entry lives as long as a public one.
LifetimeOfPublic(entry) == Ttl[PUBLIC]

Lifetime(entry) == Ttl[entry.sensitivity]

\* setex replaces the value and the expiry of the key.
SetStores(c) ==
    LET entry == task[c].entry IN
    /\ task[c].op = "labelled"
    /\ store' = Put(store, task[c].key,
                    [entry |-> entry, setAt |-> clock,
                     expires |-> clock + Lifetime(entry)])
    /\ Continue(c, Idle)
    /\ UNCHANGED clock

----------------------------------------------------------------------------
(* get                                                                     *)

\* given is the current_policy_version argument: absent, or the version the
\* caller has just read.
GetBuildsKey(c, duty, given) ==
    /\ Begin(c, [op |-> "looking", who |-> duty[1], cache |-> duty[2],
                  query |-> duty[3], given |-> given, began |-> policyVersion,
                  key |-> BuildKey(duty[1], duty[3])])
    /\ UNCHANGED <<clock, store>>

Present(key) == key \in DOMAIN store /\ clock <= store[key].expires

GetReads(c) ==
    /\ task[c].op = "looking"
    /\ Present(task[c].key)
    /\ Continue(c, [op |-> "read", call |-> task[c],
                  found |-> store[task[c].key], readAt |-> clock])
    /\ UNCHANGED <<clock, store>>

\* Nothing under the key, or an expired entry, which the store drops.
GetMisses(c) ==
    /\ task[c].op = "looking"
    /\ ~Present(task[c].key)
    /\ Delete(task[c].key)
    /\ Continue(c, Idle)
    /\ UNCHANGED clock

Opens(cache, entry) == FernetKey[cache] = entry.fernet

LiveVersion(call) ==
    IF call.given = NoVersion THEN policyVersion ELSE call.given

Valid(call, entry) ==
    /\ Opens(call.cache, entry)
    /\ entry.who = call.who
    /\ entry.policy_version = LiveVersion(call)

GetReturns(c) ==
    /\ task[c].op = "read"
    /\ Valid(task[c].call, task[c].found.entry)
    /\ Continue(c, [op |-> "returned", call |-> task[c].call,
                  found |-> task[c].found, readAt |-> task[c].readAt])
    /\ UNCHANGED <<clock, store>>

\* A corrupt entry, one of another identity or one of another policy version
\* is deleted: whatever the key holds by now.
GetEvicts(c) ==
    /\ task[c].op = "read"
    /\ ~Valid(task[c].call, task[c].found.entry)
    /\ Delete(task[c].call.key)
    /\ Continue(c, Idle)
    /\ UNCHANGED clock

----------------------------------------------------------------------------
(* Invalidation and the store's own TTL                                    *)

\* The keys that match governed:*:{user_id}:* : after the version a key has
\* the hash of the identity.
KeysOfUser(user) == {key \in DOMAIN store : key.id = user}

\* left is history: the entries of the user that the call leaves behind.
InvalidateForUser(c, user) ==
    /\ store' = Restrict(store, DOMAIN store \ KeysOfUser(user))
    /\ Begin(c, [op |-> "purged", user |-> user,
                  left |-> {key \in DOMAIN store' :
                               store'[key].entry.who[1] = user}])
    /\ UNCHANGED clock

InvalidateForPolicyVersion(version) ==
    /\ store' = Restrict(store,
                         {key \in DOMAIN store : key.version # version})
    /\ UNCHANGED <<clock, task, calls>>

Tick ==
    /\ clock < Horizon
    /\ clock' = clock + 1
    /\ UNCHANGED <<store, task, calls>>

----------------------------------------------------------------------------

Init ==
    /\ CatalogInit
    /\ clock = 0
    /\ store = [key \in {} |-> {}]
    /\ task = [c \in Callers |-> Idle]
    /\ calls = 0

SetStep(c) ==
    \/ \E duty \in Duties[c], level \in Levels : Fetch(c, duty, level)
    \/ SetSkipped(c)
    \/ SetBuildsKey(c)
    \/ SetLabels(c)
    \/ SetStores(c)

GetStep(c) ==
    \/ \E duty \in Duties[c], given \in {NoVersion, policyVersion} :
          GetBuildsKey(c, duty, given)
    \/ GetReads(c)
    \/ GetMisses(c)
    \/ GetReturns(c)
    \/ GetEvicts(c)

Next ==
    \/ \E r \in Registrations :
          RegisterAsset(r[1], r[2]) /\ UNCHANGED cacheVars
    \/ \E r \in ConsentRecords :
          RecordConsent(r[1], r[2], r[3]) /\ UNCHANGED cacheVars
    \/ \E c \in Callers : SetStep(c) /\ UNCHANGED catalogVars
    \/ \E c \in Callers : GetStep(c) /\ UNCHANGED catalogVars
    \/ \E c \in Callers, user \in {who[1] : who \in Identities} :
          InvalidateForUser(c, user) /\ UNCHANGED catalogVars
    \/ \E version \in {key.version : key \in DOMAIN store} :
          InvalidateForPolicyVersion(version) /\ UNCHANGED catalogVars
    \/ Tick /\ UNCHANGED catalogVars

Spec == Init /\ [][Next]_vars

----------------------------------------------------------------------------
(* Properties                                                              *)

Hits == {task[c] : c \in {d \in Callers : task[d].op = "returned"}}

IsEntry(e) ==
    /\ e.who \in Identities
    /\ e.data.who \in Identities /\ e.data.query \in Queries
    /\ e.sensitivity \in Levels /\ Ttl[e.sensitivity] > 0

\* Type invariant: the store maps keys to entries of known identities, queries
\* and levels that may be cached, and every caller is between two steps of set
\* or get.
CacheTypeOK ==
    /\ CatalogTypeOK
    /\ clock \in 0..Horizon
    /\ \A key \in DOMAIN store :
          /\ IsEntry(store[key].entry)
          /\ store[key].setAt \in 0..clock
          /\ store[key].expires \in Nat
    /\ DOMAIN task = Callers
    /\ \A c \in Callers :
          task[c].op \in {"idle", "fetched", "keyed", "labelled", "looking",
                          "read", "returned", "purged"}

\* A hit answers the call: the data a get returns were computed for its user
\* and agent and for the query it asks, up to surrounding blanks.  The keys of
\* two identities may collide, several cache objects write, and nothing but
\* the key tells queries apart (_build_key, and the identity check of get).
HitAnswersTheCall ==
    \A hit \in Hits :
        LET data == hit.found.entry.data IN
        /\ data.who = hit.call.who
        /\ QueryHash[data.query] = QueryHash[hit.call.query]

\* A result is current: what a get returns was computed under the policy in
\* force when the get began, unless the policy had already changed when set
\* built the key for the result.  This holds although the policy may also change
\* between the key and the label of an entry, and between the key of a get and
\* its check of the label (README: "Policy-version binding").
ResultIsCurrent ==
    \A hit \in Hits :
        \/ hit.found.entry.data.version = hit.call.began
        \/ hit.found.entry.late

\* Classification bounds the life of a cached result: a hit is read within
\* the TTL of its sensitivity, whatever was under its key before, and a
\* result that must not be cached is never returned.
TtlHonoured ==
    \A hit \in Hits :
        LET ttl == Ttl[hit.found.entry.sensitivity] IN
        ttl > 0 /\ hit.readAt <= hit.found.setAt + ttl

----------------------------------------------------------------------------
(* A claim of the documentation that the code does not keep                *)

\* "Evict all cache entries for a user" (invalidate_for_user): the call
\* leaves none behind.
PurgeIsComplete ==
    \A c \in Callers : task[c].op = "purged" => task[c].left = {}

=============================================================================
