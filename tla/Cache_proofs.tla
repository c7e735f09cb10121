---------------------------- MODULE Cache_proofs ----------------------------
(***************************************************************************)
(* Proofs about the governed cache: for every set of callers, caches,      *)
(* identities, queries and keys (whichever of their hashes collide), and   *)
(* for every TTL table.                                                    *)
(*                                                                         *)
(* The invariant says of every entry what its key and its expiry record    *)
(* about it, and of every call what it has read and checked so far.  None  *)
(* of it depends on what the others do in the meantime: the catalog and    *)
(* the store may have changed, but not the entry a get holds.              *)
(***************************************************************************)
EXTENDS GovernedCache, TLAPS

\* What the key of an entry says of its data, and its identity fields too.
EntryOK(key, e) ==
    /\ IsEntry(e)
    /\ e.data.who = e.who
    /\ key.query = QueryHash[e.data.query]
    /\ e.late \/ key.version = e.data.version

\* An entry as it is stored under a key.
StoredOK(key, s) ==
    /\ EntryOK(key, s.entry)
    /\ s.setAt \in Nat
    /\ s.expires = s.setAt + Ttl[s.entry.sensitivity]

CallOK(call) ==
    /\ call.who \in Identities
    /\ call.key.query = QueryHash[call.query]
    /\ call.key.version = call.began

\* What a get has in hand once it has read the store.
ReadOK(t) ==
    /\ CallOK(t.call)
    /\ StoredOK(t.call.key, t.found)
    /\ t.readAt \in Nat
    /\ t.readAt <= t.found.expires

\* What a caller holds before it calls set.
FetchedOK(t) ==
    /\ t.who \in Identities /\ t.query \in Queries /\ t.level \in Levels
    /\ t.data.who = t.who /\ t.data.query = t.query

\* What a caller is doing.
TaskOK(t) ==
    \/ t.op \in {"idle", "purged"}
    \/ t.op = "fetched" /\ FetchedOK(t)
    \/ /\ t.op = "keyed"
       /\ FetchedOK(t.fetched)
       /\ Cacheable(t.fetched.level)
       /\ t.key.query = QueryHash[t.fetched.query]
       /\ t.late \/ t.key.version = t.fetched.data.version
    \/ /\ t.op = "labelled"
       /\ EntryOK(t.key, t.entry)
    \/ t.op = "looking" /\ CallOK(t)
    \/ t.op = "read" /\ ReadOK(t)
    \/ /\ t.op = "returned"
       /\ ReadOK(t)
       /\ t.found.entry.who = t.call.who

IInv ==
    /\ CatalogTypeOK
    /\ clock \in 0..Horizon
    /\ \A key \in DOMAIN store : /\ StoredOK(key, store[key])
                                 /\ store[key].setAt <= clock
    /\ DOMAIN task = Callers
    /\ \A c \in Callers : TaskOK(task[c])

LEMMA InitIInv == Init => IInv
<1> SUFFICES ASSUME Init PROVE IInv
  OBVIOUS
<1>1. DOMAIN assets = {} /\ DOMAIN consentState = {} /\ DOMAIN store = {}
  BY DEF Init, CatalogInit
<1>2. CatalogTypeOK
  BY <1>1 DEF Init, CatalogInit, CatalogTypeOK
<1> QED BY <1>1, <1>2, CacheAssumption DEF Init, IInv, TaskOK, Idle

\* The steps of the catalog keep its type.
LEMMA CatalogStep ==
    ASSUME CatalogTypeOK,
           \/ \E r \in Registrations : RegisterAsset(r[1], r[2])
           \/ \E r \in ConsentRecords : RecordConsent(r[1], r[2], r[3])
    PROVE  CatalogTypeOK'
<1>1. CASE \E r \in Registrations : RegisterAsset(r[1], r[2])
  <2>1. PICK r \in Registrations : RegisterAsset(r[1], r[2])
    BY <1>1
  <2>2. r[1] \in AssetIds /\ r[2] \in DataAsset
    BY CatalogAssumption
  <2> QED BY <2>1, <2>2 DEF CatalogTypeOK, RegisterAsset, Put
<1>2. CASE \E r \in ConsentRecords : RecordConsent(r[1], r[2], r[3])
  <2>1. PICK r \in ConsentRecords : RecordConsent(r[1], r[2], r[3])
    BY <1>2
  <2>2. <<r[1], r[2]>> \in UserIds \X AssetIds /\ r[3] \in BOOLEAN
    BY CatalogAssumption
  <2> QED BY <2>1, <2>2 DEF CatalogTypeOK, RecordConsent, Put
<1> QED BY <1>1, <1>2

\* The TTLs are natural numbers, and zero is the one of a result that must not
\* be cached.
LEMMA TtlType ==
    ASSUME NEW level \in Levels
    PROVE  Ttl[level] \in Nat /\ (Cacheable(level) => Ttl[level] > 0)
BY CacheAssumption DEF Cacheable

----------------------------------------------------------------------------
(* The steps of a caller                                                   *)

\* A step that leaves a well-formed task and no new entry.
LEMMA TaskStep ==
    ASSUME IInv, NEW c \in Callers, NEW new, TaskOK(new), Become(c, new),
           DOMAIN store' \subseteq DOMAIN store,
           \A key \in DOMAIN store' : store'[key] = store[key],
           UNCHANGED <<catalogVars, clock>>
    PROVE  IInv'
<1>1. DOMAIN task' = Callers /\ \A d \in Callers : TaskOK(task'[d])
  BY DEF IInv, Become
<1>2. CatalogTypeOK'
  BY DEF IInv, catalogVars, CatalogTypeOK
<1> QED BY <1>1, <1>2 DEF IInv

LEMMA SetKeeps ==
    ASSUME IInv, NEW c \in Callers, SetStep(c), UNCHANGED catalogVars
    PROVE  IInv'
<1>1. TaskOK(task[c])
  BY DEF IInv
<1>2. TaskOK(Idle)
  BY DEF TaskOK, Idle
<1>3. ASSUME NEW duty \in Duties[c], NEW level \in Levels,
             Fetch(c, duty, level)
      PROVE  IInv'
  <2> DEFINE data == [who |-> duty[1], query |-> duty[3],
                      version |-> policyVersion]
             new == [op |-> "fetched", who |-> duty[1], cache |-> duty[2],
                     query |-> duty[3], level |-> level, data |-> data]
  <2>1. duty[1] \in Identities /\ duty[3] \in Queries
    BY CacheAssumption
  <2>2. TaskOK(new)
    BY <2>1 DEF TaskOK, FetchedOK
  <2>3. Become(c, new) /\ UNCHANGED <<clock, store>>
    BY <1>3 DEF Fetch, Begin
  <2> QED BY <2>2, <2>3, TaskStep
<1>4. CASE SetSkipped(c)
  <2>1. Become(c, Idle) /\ UNCHANGED <<clock, store>>
    BY <1>4 DEF SetSkipped, Continue
  <2> QED BY <1>2, <2>1, TaskStep
<1>5. CASE SetBuildsKey(c)
  <2> DEFINE new == [op |-> "keyed", fetched |-> task[c],
                     key |-> BuildKey(task[c].who, task[c].query),
                     late |-> task[c].data.version # policyVersion]
  <2>1. task[c].op = "fetched" /\ Cacheable(task[c].level)
    BY <1>5 DEF SetBuildsKey
  <2>2. /\ new.key.query = QueryHash[task[c].query]
        /\ new.late \/ new.key.version = task[c].data.version
    BY DEF BuildKey
  <2>3. TaskOK(new)
    BY <1>1, <2>1, <2>2 DEF TaskOK
  <2>4. Become(c, new) /\ UNCHANGED <<clock, store>>
    BY <1>5 DEF SetBuildsKey, Continue
  <2> QED BY <2>3, <2>4, TaskStep
<1>6. CASE SetLabels(c)
  <2> DEFINE entry == [data           |-> task[c].fetched.data,
                       who            |-> task[c].fetched.who,
                       sensitivity    |-> task[c].fetched.level,
                       policy_version |-> policyVersion,
                       fernet         |-> FernetKey[task[c].fetched.cache],
                       late           |-> task[c].late]
             new == [op |-> "labelled", key |-> task[c].key, entry |-> entry]
  <2>1. task[c].op = "keyed"
    BY <1>6 DEF SetLabels
  <2>2. EntryOK(task[c].key, entry)
    BY <1>1, <2>1, TtlType DEF TaskOK, FetchedOK, EntryOK, IsEntry
  <2>3. Become(c, new) /\ UNCHANGED <<clock, store>>
    BY <1>6 DEF SetLabels, Continue
  <2> HIDE DEF entry
  <2>4. TaskOK(new)
    BY <2>2 DEF TaskOK
  <2> QED BY <2>3, <2>4, TaskStep
<1>7. CASE SetStores(c)
  <2> DEFINE entry == task[c].entry
             s == [entry |-> entry, setAt |-> clock,
                   expires |-> clock + Lifetime(entry)]
  <2>1. /\ task[c].op = "labelled"
        /\ store' = Put(store, task[c].key, s)
        /\ Become(c, Idle)
        /\ UNCHANGED clock
    BY <1>7 DEF SetStores, Continue
  <2>2. EntryOK(task[c].key, entry)
    BY <1>1, <2>1 DEF TaskOK
  <2>3. clock \in Nat
    BY CacheAssumption DEF IInv
  <2>4. StoredOK(task[c].key, s) /\ s.setAt <= clock
    BY <2>2, <2>3 DEF StoredOK, Lifetime
  <2> HIDE DEF s
  <2>5. \A key \in DOMAIN store' : StoredOK(key, store'[key])
                                   /\ store'[key].setAt <= clock
    BY <2>1, <2>4 DEF Put, IInv
  <2>6. DOMAIN task' = Callers /\ \A d \in Callers : TaskOK(task'[d])
    BY <1>2, <2>1 DEF IInv, Become
  <2>7. CatalogTypeOK'
    BY DEF IInv, catalogVars, CatalogTypeOK
  <2> QED BY <2>1, <2>5, <2>6, <2>7 DEF IInv
<1> QED BY <1>3, <1>4, <1>5, <1>6, <1>7 DEF SetStep

LEMMA GetKeeps ==
    ASSUME IInv, NEW c \in Callers, GetStep(c), UNCHANGED catalogVars
    PROVE  IInv'
<1>1. TaskOK(task[c])
  BY DEF IInv
<1>2. TaskOK(Idle)
  BY DEF TaskOK, Idle
<1>3. ASSUME NEW duty \in Duties[c], NEW given \in {NoVersion, policyVersion},
             GetBuildsKey(c, duty, given)
      PROVE  IInv'
  <2> DEFINE new == [op |-> "looking", who |-> duty[1], cache |-> duty[2],
                     query |-> duty[3], given |-> given,
                     began |-> policyVersion,
                     key |-> BuildKey(duty[1], duty[3])]
  <2>1. duty[1] \in Identities
    BY CacheAssumption
  <2>2. /\ new.key.query = QueryHash[duty[3]]
        /\ new.key.version = policyVersion
    BY DEF BuildKey
  <2>3. TaskOK(new)
    BY <2>1, <2>2 DEF TaskOK, CallOK
  <2>4. Become(c, new) /\ UNCHANGED <<clock, store>>
    BY <1>3 DEF GetBuildsKey, Begin
  <2> QED BY <2>3, <2>4, TaskStep
<1>4. CASE GetReads(c)
  <2> DEFINE new == [op |-> "read", call |-> task[c],
                     found |-> store[task[c].key], readAt |-> clock]
  <2>1. task[c].op = "looking" /\ Present(task[c].key)
    BY <1>4 DEF GetReads
  <2>2. CallOK(task[c])
    BY <1>1, <2>1 DEF TaskOK
  <2>3. StoredOK(task[c].key, store[task[c].key])
    BY <2>1 DEF IInv, Present
  <2>4. clock \in Nat /\ clock <= store[task[c].key].expires
    BY <2>1, CacheAssumption DEF IInv, Present
  <2>5. TaskOK(new)
    BY <2>2, <2>3, <2>4 DEF TaskOK, ReadOK
  <2>6. Become(c, new) /\ UNCHANGED <<clock, store>>
    BY <1>4 DEF GetReads, Continue
  <2> QED BY <2>5, <2>6, TaskStep
<1>5. CASE GetMisses(c)
  <2>1. Become(c, Idle) /\ UNCHANGED clock /\ Delete(task[c].key)
    BY <1>5 DEF GetMisses, Continue
  <2>2. DOMAIN store' \subseteq DOMAIN store
        /\ \A key \in DOMAIN store' : store'[key] = store[key]
    BY <2>1 DEF Delete, Restrict
  <2> QED BY <1>2, <2>1, <2>2, TaskStep
<1>6. CASE GetReturns(c)
  <2> DEFINE new == [op |-> "returned", call |-> task[c].call,
                     found |-> task[c].found, readAt |-> task[c].readAt]
  <2>1. task[c].op = "read" /\ Valid(task[c].call, task[c].found.entry)
    BY <1>6 DEF GetReturns
  <2>2. ReadOK(task[c])
    BY <1>1, <2>1 DEF TaskOK
  <2>3. ReadOK(new)
    BY <2>2 DEF ReadOK
  <2>4. task[c].found.entry.who = task[c].call.who
    BY <2>1 DEF Valid
  <2>5. TaskOK(new)
    BY <2>3, <2>4 DEF TaskOK
  <2>6. Become(c, new) /\ UNCHANGED <<clock, store>>
    BY <1>6 DEF GetReturns, Continue
  <2> QED BY <2>5, <2>6, TaskStep
<1>7. CASE GetEvicts(c)
  <2>1. /\ Become(c, Idle) /\ UNCHANGED clock
        /\ Delete(task[c].call.key)
    BY <1>7 DEF GetEvicts, Continue
  <2>2. DOMAIN store' \subseteq DOMAIN store
        /\ \A key \in DOMAIN store' : store'[key] = store[key]
    BY <2>1 DEF Delete, Restrict
  <2> QED BY <1>2, <2>1, <2>2, TaskStep
<1> QED BY <1>3, <1>4, <1>5, <1>6, <1>7 DEF GetStep

LEMMA PurgeKeeps ==
    ASSUME IInv, NEW c \in Callers, NEW user, InvalidateForUser(c, user),
           UNCHANGED catalogVars
    PROVE  IInv'
<1> DEFINE new == [op |-> "purged", user |-> user,
                   left |-> {key \in DOMAIN store' :
                                store'[key].entry.who[1] = user}]
<1>1. /\ store' = Restrict(store, DOMAIN store \ KeysOfUser(user))
      /\ Become(c, new) /\ UNCHANGED clock
  BY DEF InvalidateForUser, Begin
<1>2. TaskOK(new)
  BY DEF TaskOK
<1>3. DOMAIN store' \subseteq DOMAIN store
      /\ \A key \in DOMAIN store' : store'[key] = store[key]
  BY <1>1 DEF Restrict
<1> QED BY <1>1, <1>2, <1>3, TaskStep

LEMMA NextIInv == IInv /\ [Next]_vars => IInv'
<1> SUFFICES ASSUME IInv, [Next]_vars PROVE IInv'
  OBVIOUS
<1>1. CASE /\ \/ \E r \in Registrations : RegisterAsset(r[1], r[2])
              \/ \E r \in ConsentRecords : RecordConsent(r[1], r[2], r[3])
           /\ UNCHANGED cacheVars
  <2>1. CatalogTypeOK'
    BY <1>1, CatalogStep DEF IInv
  <2>2. UNCHANGED <<clock, store, task>>
    BY <1>1 DEF cacheVars
  <2> QED BY <2>1, <2>2 DEF IInv
<1>2. CASE \E c \in Callers : SetStep(c) /\ UNCHANGED catalogVars
  BY <1>2, SetKeeps
<1>3. CASE \E c \in Callers : GetStep(c) /\ UNCHANGED catalogVars
  BY <1>3, GetKeeps
<1>4. CASE \E c \in Callers, user \in {who[1] : who \in Identities} :
               InvalidateForUser(c, user) /\ UNCHANGED catalogVars
  BY <1>4, PurgeKeeps
<1>5. CASE \E version \in {key.version : key \in DOMAIN store} :
               InvalidateForPolicyVersion(version) /\ UNCHANGED catalogVars
  <2>1. /\ DOMAIN store' \subseteq DOMAIN store
        /\ \A key \in DOMAIN store' : store'[key] = store[key]
        /\ UNCHANGED <<clock, task>>
    BY <1>5 DEF InvalidateForPolicyVersion, Restrict
  <2>2. CatalogTypeOK'
    BY <1>5 DEF IInv, catalogVars, CatalogTypeOK
  <2> QED BY <2>1, <2>2 DEF IInv
<1>6. CASE Tick /\ UNCHANGED catalogVars
  <2>1. /\ clock' = clock + 1 /\ clock < Horizon
        /\ UNCHANGED <<store, task>>
    BY <1>6 DEF Tick
  <2>2. CatalogTypeOK'
    BY <1>6 DEF IInv, catalogVars, CatalogTypeOK
  <2>3. clock' \in 0..Horizon
    BY <2>1, CacheAssumption DEF IInv
  <2>4. \A key \in DOMAIN store : StoredOK(key, store[key])
                                  /\ store[key].setAt <= clock'
    BY <2>1, CacheAssumption DEF IInv, StoredOK
  <2> QED BY <2>1, <2>2, <2>3, <2>4 DEF IInv
<1>7. CASE UNCHANGED vars
  <2>1. UNCHANGED <<clock, store, task>> /\ UNCHANGED catalogVars
    BY <1>7 DEF vars, cacheVars
  <2>2. CatalogTypeOK'
    BY <2>1 DEF IInv, catalogVars, CatalogTypeOK
  <2> QED BY <2>1, <2>2 DEF IInv
<1> QED BY <1>1, <1>2, <1>3, <1>4, <1>5, <1>6, <1>7 DEF Next

\* The inductive invariant of the governed cache.
THEOREM CacheIInv == Spec => []IInv
BY InitIInv, NextIInv, PTL DEF Spec

----------------------------------------------------------------------------
(* The properties                                                          *)

\* The store holds entries of known identities and queries at levels that may
\* be cached, and callers are between two steps of set or get.
THEOREM CacheTyped == Spec => []CacheTypeOK
<1>1. ASSUME IInv PROVE CacheTypeOK
  <2>1. \A key \in DOMAIN store : /\ IsEntry(store[key].entry)
                                  /\ store[key].setAt \in 0..clock
                                  /\ store[key].expires \in Nat
    <3> SUFFICES ASSUME NEW key \in DOMAIN store
                 PROVE  /\ IsEntry(store[key].entry)
                        /\ store[key].setAt \in 0..clock
                        /\ store[key].expires \in Nat
      OBVIOUS
    <3>1. StoredOK(key, store[key]) /\ store[key].setAt <= clock
      BY <1>1 DEF IInv
    <3>2. clock \in Nat
      BY <1>1, CacheAssumption DEF IInv
    <3>3. Ttl[store[key].entry.sensitivity] \in Nat
      BY <3>1, TtlType DEF StoredOK, EntryOK, IsEntry
    <3> QED BY <3>1, <3>2, <3>3 DEF StoredOK, EntryOK
  <2>2. \A c \in Callers :
            task[c].op \in {"idle", "fetched", "keyed", "labelled", "looking",
                            "read", "returned", "purged"}
    BY <1>1 DEF IInv, TaskOK
  <2> QED BY <1>1, <2>1, <2>2 DEF CacheTypeOK, IInv
<1> QED BY CacheIInv, <1>1, PTL

\* A get that returns an entry holds one that it has read and checked.
LEMMA HitFacts ==
    ASSUME IInv, NEW hit \in Hits
    PROVE  /\ ReadOK(hit)
           /\ hit.found.entry.who = hit.call.who
<1>1. PICK c \in Callers : task[c].op = "returned" /\ hit = task[c]
  BY DEF Hits
<1>2. TaskOK(task[c])
  BY DEF IInv
<1> QED BY <1>1, <1>2 DEF TaskOK

\* What a get returns was computed for the same user, agent and query, whichever
\* identities share a key and whatever was stored in between (_build_key, the
\* identity check of get).
THEOREM HitsAnswerCalls == Spec => []HitAnswersTheCall
<1>1. IInv => HitAnswersTheCall
  BY HitFacts DEF HitAnswersTheCall, ReadOK, CallOK, StoredOK, EntryOK
<1> QED BY CacheIInv, <1>1, PTL

\* What a get returns was computed under the policy in force when the get
\* began, unless the policy had changed before set built the key for the result,
\* whatever the catalog does between any two of their reads of it.
THEOREM ResultsAreCurrent == Spec => []ResultIsCurrent
<1>1. IInv => ResultIsCurrent
  BY HitFacts DEF ResultIsCurrent, ReadOK, CallOK, StoredOK, EntryOK
<1> QED BY CacheIInv, <1>1, PTL

\* A hit is read within the TTL of its sensitivity, and a result that must not
\* be cached is never returned (set, SENSITIVITY_TTL).
THEOREM HitsWithinTtl == Spec => []TtlHonoured
<1>1. IInv => TtlHonoured
  BY HitFacts DEF TtlHonoured, ReadOK, StoredOK, EntryOK, IsEntry
<1> QED BY CacheIInv, <1>1, PTL

=============================================================================
