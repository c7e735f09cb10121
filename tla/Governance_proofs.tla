-------------------------- MODULE Governance_proofs --------------------------
(***************************************************************************)
(* Proofs about GovernanceServer and, behind it, Orchestrator: for every   *)
(* catalog, every set of users, agents and sessions, and every capacity of *)
(* the replay cache.                                                       *)
(*                                                                         *)
(* First the types.  Then the replay cache: it stays within its capacity,  *)
(* and it remembers every token that could run again until                 *)
(* MaxReplayCacheSize other runs have followed, so that the server         *)
(* implements TokenLifecycle and a cache that cannot fill makes tokens     *)
(* single-use.  Then what tokens grant: the policy version in a token is   *)
(* the content that grants it, and every query runs with the brand filter  *)
(* and the PII mask that this content calls for.  Last the orchestrator: a *)
(* caller who asks for tokens behind its gate is one that GovernanceServer *)
(* admits, so all of it holds there too, and no token is above its user.   *)
(***************************************************************************)
EXTENDS Orchestrator, Lemmas, FiniteSetTheorems, SequenceTheorems

USE CatalogAssumption, ResolverAssumption, ServerAssumption

----------------------------------------------------------------------------
(* The dictionary operators                                                *)

\* Appending to a sequence adds one element at its end.
LEMMA AppendFacts ==
  ASSUME NEW S, NEW s \in Seq(S), NEW e
  PROVE  LET a == Append(s, e)
         IN  /\ Len(a) = Len(s) + 1
             /\ DOMAIN a = 1..(Len(s) + 1)
             /\ DOMAIN s = 1..Len(s)
             /\ Len(s) \in Nat
             /\ a[Len(s) + 1] = e
             /\ \A i \in DOMAIN s : a[i] = s[i]
             /\ a \in Seq({a[i] : i \in DOMAIN a})
             /\ \A i \in DOMAIN a : \/ a[i] = e
                                    \/ i \in DOMAIN s /\ a[i] = s[i]
<1> DEFINE a == Append(s, e)
<1>1. s \in Seq(S \cup {e}) /\ a \in Seq(S \cup {e})
  OBVIOUS
<1>2. /\ Len(a) = Len(s) + 1
      /\ DOMAIN a = 1..(Len(s) + 1)
      /\ DOMAIN s = 1..Len(s)
      /\ Len(s) \in Nat
      /\ a[Len(s) + 1] = e
      /\ \A i \in DOMAIN s : a[i] = s[i]
  BY <1>1
<1>3. a \in [1..Len(a) -> S \cup {e}] /\ Len(a) \in Nat
  BY <1>1, LenProperties
<1>4. a \in Seq({a[i] : i \in DOMAIN a})
  <2> HIDE DEF a
  <2> DEFINE T == {a[i] : i \in DOMAIN a}
  <2>1. a \in [1..Len(a) -> T]
    BY <1>3
  <2> HIDE DEF T
  <2>2. a \in UNION {[1..n -> T] : n \in Nat}
    BY <1>3, <2>1
  <2>3. a \in Seq(T)
    BY <2>2, SeqDef
  <2> QED BY <2>3 DEF T
<1> QED BY <1>2, <1>4

\* Restricting a dictionary keeps the entries whose keys stay.
LEMMA RestrictFacts ==
  ASSUME NEW d, NEW K \in SUBSET DOMAIN d
  PROVE  /\ DOMAIN Restrict(d, K) = K
         /\ \A k \in K : Restrict(d, K)[k] = d[k]
BY DEF Restrict

\* Eviction leaves a part of the dictionary.
LEMMA EvictFacts ==
  ASSUME NEW used
  PROVE  /\ DOMAIN EvictToCapacity(used) \subseteq DOMAIN used
         /\ \A id \in DOMAIN EvictToCapacity(used) :
               EvictToCapacity(used)[id] = used[id]
BY RestrictFacts DEF EvictToCapacity

----------------------------------------------------------------------------
(* The type invariant                                                      *)

\* The second of an instant is a natural number.
LEMMA SecondsType ==
  ASSUME NEW t \in Nat
  PROVE  Seconds(t) \in Nat
BY DEF Seconds

\* A non-empty set of positions of a sequence has a last one.
LEMMA MaxOfPositions ==
  ASSUME NEW n \in Nat, NEW S \in SUBSET (1..n), S # {}
  PROVE  Max(S) \in S /\ \A y \in S : Max(S) >= y
<1> DEFINE Less == {ss \in Nat \X Nat : ss[1] < ss[2]}
           T == {n - x : x \in S}
<1>1. IsWellFoundedOn(Less, Nat)
  BY NatLessThanWellFounded DEF OpToRel
<1>2. T \subseteq Nat
  OBVIOUS
<1>3. T # {}
  <2>1. PICK x \in S : TRUE
    OBVIOUS
  <2>2. n - x \in T
    BY <2>1
  <2> QED BY <2>2
<1>4. PICK m \in T : \A y \in T : ~ (<<y, m>> \in Less)
  <2> HIDE DEF T, Less
  <2> QED BY <1>1, <1>2, <1>3, WFMin
<1>5. PICK x \in S : m = n - x
  BY <1>4
<1>6. ASSUME NEW y \in S
      PROVE  x >= y
  <2>1. n - y \in T /\ m \in Nat /\ n - y \in Nat
    BY <1>2, <1>4
  <2>2. ~ (n - y < m)
    BY <2>1, <1>4
  <2> QED BY <2>2, <1>5
<1> QED BY <1>6 DEF Max

\* Each filter of a request is one that some asset of the request gives, and a
\* filter that some asset gives is there.
LEMMA MergedFiltersFacts ==
  ASSUME NEW user, NEW ids \in Seq(AssetIds)
  PROVE  LET M == MergedFilters(user, ids)
             Of(i) == DeriveRowFilters(user, assets[ids[i]])
         IN  /\ M = [k \in DOMAIN M |-> M[k]]
             /\ \A i \in DOMAIN ids : DOMAIN Of(i) \subseteq DOMAIN M
             /\ \A k \in DOMAIN M : \E i \in DOMAIN ids :
                    k \in DOMAIN Of(i) /\ M[k] = Of(i)[k]
<1> DEFINE Of(i) == DeriveRowFilters(user, assets[ids[i]])
           setters(k) == {i \in DOMAIN ids : k \in DOMAIN Of(i)}
           Keys == {k \in FilterKeys : setters(k) # {}}
           M == MergedFilters(user, ids)
<1>1. M = [k \in Keys |-> Of(Max(setters(k)))[k]]
  BY DEF MergedFilters
<1>2. \A i \in DOMAIN ids : DOMAIN Of(i) \subseteq FilterKeys
  BY DEF DeriveRowFilters
<1>3. ASSUME NEW k \in Keys
      PROVE  Max(setters(k)) \in setters(k)
  <2>1. setters(k) \in SUBSET (1..Len(ids)) /\ Len(ids) \in Nat
    OBVIOUS
  <2> HIDE DEF setters
  <2> QED BY <2>1, MaxOfPositions
<1>4. \A i \in DOMAIN ids : DOMAIN Of(i) \subseteq DOMAIN M
  <2> SUFFICES ASSUME NEW i \in DOMAIN ids, NEW k \in DOMAIN Of(i)
               PROVE  k \in DOMAIN M
    OBVIOUS
  <2>1. k \in FilterKeys /\ i \in setters(k)
    BY <1>2
  <2> QED BY <2>1, <1>1
<1>5. ASSUME NEW k \in DOMAIN M
      PROVE  \E i \in DOMAIN ids : k \in DOMAIN Of(i) /\ M[k] = Of(i)[k]
  <2>1. k \in Keys
    BY <1>1
  <2>2. Max(setters(k)) \in setters(k)
    BY <2>1, <1>3
  <2>3. M[k] = Of(Max(setters(k)))[k]
    BY <2>1, <1>1
  <2> QED BY <2>2, <2>3
<1>6. M = [k \in DOMAIN M |-> M[k]]
  BY <1>1
<1> HIDE DEF M
<1> QED BY <1>4, <1>5, <1>6 DEF M

\* The filters of a request are a filter map, whatever the catalog holds.
LEMMA MergedFiltersType ==
  ASSUME CatalogTypeOK, NEW session \in Sessions, NEW agent \in Agents,
         NEW ids \in AssetLists, NEW right,
         Grants(session, agent, ids, right)
  PROVE  /\ IsFilterMap(MergedFilters(session.user, ids))
         /\ MergedMask(session.user, ids) \in SUBSET Columns
<1> DEFINE Of(i) == DeriveRowFilters(session.user, assets[ids[i]])
           M == MergedFilters(session.user, ids)
<1>1. session.user \in UserContext
  BY DEF SessionContext
<1>2. ids \in Seq(AssetIds)
  OBVIOUS
<1>3. \A i \in DOMAIN ids : assets[ids[i]] \in DataAsset
  BY <1>2 DEF CatalogTypeOK, Grants
<1>4. MergedMask(session.user, ids) \in SUBSET Columns
  BY <1>3 DEF MergedMask, DeriveColumnMask, DataAsset
<1>5. ASSUME NEW i \in DOMAIN ids
      PROVE  IsFilterMap(Of(i))
  <2>1. assets[ids[i]] \in DataAsset
    BY <1>3
  <2> QED BY <1>1, <2>1
          DEF IsFilterMap, DeriveRowFilters, VisibleBrands, FilterKeys, ResolvedTemplate,
              UserContext, DataAsset
<1>6. /\ M = [k \in DOMAIN M |-> M[k]]
      /\ \A k \in DOMAIN M : \E i \in DOMAIN ids :
             k \in DOMAIN Of(i) /\ M[k] = Of(i)[k]
  BY <1>2, MergedFiltersFacts
<1>7. IsFilterMap(M)
  <2> HIDE DEF M, Of
  <2> QED BY <1>5, <1>6 DEF IsFilterMap
<1> QED BY <1>4, <1>7

\* Issuing a token keeps the catalog's and the resolver's types.
LEMMA RequestTokenType ==
  ASSUME TypeOK, NEW id \in TokenIds, NEW session \in Sessions,
         NEW agent \in Agents, NEW query \in Queries, NEW ids \in AssetLists,
         NEW right \in Rights,
         RequestToken(id, session, agent, query, ids, right)
  PROVE  ResolverTypeOK'
<1> DEFINE t == [session        |-> session,
                 agent          |-> agent,
                 right          |-> right,
                 query_hash     |-> Canonical[query],
                 policy_version |-> policyVersion,
                 row_filters    |-> MergedFilters(session.user, ids),
                 masked         |-> MergedMask(session.user, ids),
                 asset_ids      |-> ids,
                 issued_at      |-> clock,
                 iat            |-> Seconds(clock),
                 exp            |-> ExpClaim(clock)]
<1>1. IsToken(t)
  <2>1. Grants(session, agent, ids, right)
    BY DEF RequestToken
  <2>2. /\ IsFilterMap(MergedFilters(session.user, ids))
        /\ MergedMask(session.user, ids) \in SUBSET Columns
    BY <2>1, MergedFiltersType DEF TypeOK
  <2>3. clock \in Nat /\ clock + ProofTtl * TicksPerSecond \in Nat
    BY DEF TypeOK, ResolverTypeOK
  <2>4. Seconds(clock) \in Nat /\ ExpClaim(clock) \in Nat
    BY <2>3, SecondsType DEF ExpClaim
  <2>5. Canonical[query] \in Queries
    OBVIOUS
  <2> QED BY <2>2, <2>3, <2>4, <2>5 DEF IsToken
<1>2. tokens' = Put(tokens, id, t)
  BY DEF RequestToken
<1> HIDE DEF t
<1>3. /\ DOMAIN tokens' = DOMAIN tokens \cup {id}
      /\ tokens'[id] = t
      /\ \A k \in DOMAIN tokens : k # id => tokens'[k] = tokens[k]
  BY <1>2 DEF Put
<1>4. /\ DOMAIN tokens' \subseteq TokenIds
      /\ \A k \in DOMAIN tokens' : IsToken(tokens'[k])
  BY <1>1, <1>3 DEF TypeOK, ResolverTypeOK, RequestToken
<1>5. tokens' \in [DOMAIN tokens' -> {tokens'[k] : k \in DOMAIN tokens'}]
  BY <1>2 DEF Put
<1>6. proofSessionIndex' \in [DOMAIN tokens' -> SessionIds]
  <2>1. session.session_id \in SessionIds
    BY DEF SessionIds
  <2>2. DOMAIN proofSessionIndex = DOMAIN tokens
    BY DEF TypeOK, ResolverTypeOK
  <2>3. proofSessionIndex' = Put(proofSessionIndex, id, session.session_id)
    BY DEF RequestToken
  <2> QED BY <1>3, <2>1, <2>2, <2>3 DEF TypeOK, ResolverTypeOK, Put
<1> QED BY <1>4, <1>5, <1>6 DEF TypeOK, ResolverTypeOK, RequestToken, IsToken

\* Recording a use keeps the replay cache's type.
LEMMA RecordProofUseType ==
  ASSUME TypeOK, NEW id \in DOMAIN tokens, RecordProofUse(id)
  PROVE  /\ DOMAIN usedTokenIds' \subseteq DOMAIN tokens
         /\ usedTokenIds' \in [DOMAIN usedTokenIds' -> [exp : Nat, pos : Nat]]
<1> DEFINE fresh == Restrict(usedTokenIds, Unexpired(usedTokenIds, clock))
           kept == EvictToCapacity(fresh)
           entry == [exp |-> tokens[id].exp, pos |-> Len(executions) + 1]
<1>1. /\ DOMAIN fresh \subseteq DOMAIN usedTokenIds
      /\ \A k \in DOMAIN fresh : fresh[k] = usedTokenIds[k]
  BY RestrictFacts DEF Unexpired
<1>2. /\ DOMAIN kept \subseteq DOMAIN fresh
      /\ \A k \in DOMAIN kept : kept[k] = fresh[k]
  BY EvictFacts
<1>3. entry \in [exp : Nat, pos : Nat]
  BY DEF TypeOK, ServerTypeOK, ResolverTypeOK, IsToken
<1>4. usedTokenIds' = Put(kept, id, entry)
  BY DEF RecordProofUse
<1> HIDE DEF fresh, kept, entry
<1>5. usedTokenIds' = [k \in DOMAIN kept \cup {id} |->
                          IF k = id THEN entry ELSE kept[k]]
  BY <1>4 DEF Put
<1> QED BY <1>1, <1>2, <1>3, <1>5 DEF TypeOK, ServerTypeOK

\* Type correctness: every variable of the catalog, the resolver and the
\* server keeps the type its class declares.
THEOREM TypeCorrect == Spec => []TypeOK
<1>1. Init => TypeOK
  BY DEF Init, CatalogInit, ResolverInit, TypeOK, CatalogTypeOK,
         ResolverTypeOK, ServerTypeOK
<1>2. TypeOK /\ [Next]_vars => TypeOK'
  <2> SUFFICES ASSUME TypeOK, [Next]_vars
               PROVE  TypeOK'
    OBVIOUS
  <2> USE DEF TypeOK
  <2>1. CASE UNCHANGED vars
    BY <2>1 DEF vars, catalogVars, resolverVars, serverVars, CatalogTypeOK,
           ResolverTypeOK, ServerTypeOK, IsToken
  <2>2. ASSUME NEW r \in Registrations, RegisterAsset(r[1], r[2]),
               UNCHANGED <<resolverVars, serverVars>>
        PROVE  TypeOK'
    <3>1. r[1] \in AssetIds /\ r[2] \in DataAsset
      OBVIOUS
    <3>2. CatalogTypeOK'
      BY <2>2, <3>1 DEF CatalogTypeOK, RegisterAsset, Put
    <3> QED BY <2>2, <3>2
            DEF resolverVars, serverVars, ResolverTypeOK, ServerTypeOK, IsToken
  <2>3. ASSUME NEW c \in ConsentRecords, RecordConsent(c[1], c[2], c[3]),
               UNCHANGED <<resolverVars, serverVars>>
        PROVE  TypeOK'
    <3>1. <<c[1], c[2]>> \in UserIds \X AssetIds /\ c[3] \in BOOLEAN
      OBVIOUS
    <3>2. CatalogTypeOK'
      BY <2>3, <3>1 DEF CatalogTypeOK, RecordConsent, Put
    <3> QED BY <2>3, <3>2
            DEF resolverVars, serverVars, ResolverTypeOK, ServerTypeOK, IsToken
  <2>4. ASSUME NEW id \in TokenIds, NEW session \in Sessions,
               NEW agent \in Agents, NEW query \in Queries,
               NEW ids \in AssetLists, NEW right \in Rights,
               RequestToken(id, session, agent, query, ids, right),
               UNCHANGED <<catalogVars, serverVars>>
        PROVE  TypeOK'
    <3>1. ResolverTypeOK'
      BY <2>4, RequestTokenType
    <3>2. CatalogTypeOK'
      BY <2>4 DEF catalogVars, CatalogTypeOK
    <3>3. DOMAIN tokens \subseteq DOMAIN tokens'
      BY <2>4 DEF RequestToken, Put
    <3>4. ServerTypeOK'
      BY <2>4, <3>3 DEF serverVars, ServerTypeOK
    <3> QED BY <3>1, <3>2, <3>4
  <2>5. ASSUME NEW id \in DOMAIN tokens, RevokeToken(id),
               UNCHANGED <<catalogVars, serverVars>>
        PROVE  TypeOK'
    BY <2>5 DEF RevokeToken, catalogVars, serverVars, CatalogTypeOK,
           ResolverTypeOK, ServerTypeOK, IsToken
  <2>6. ASSUME NEW sid \in SessionIds, RevokeSessionTokens(sid),
               UNCHANGED <<catalogVars, serverVars>>
        PROVE  TypeOK'
    BY <2>6 DEF RevokeSessionTokens, catalogVars, serverVars, CatalogTypeOK,
           ResolverTypeOK, ServerTypeOK, IsToken
  <2>7. ASSUME Tick, UNCHANGED <<catalogVars, serverVars>>
        PROVE  TypeOK'
    BY <2>7 DEF Tick, catalogVars, serverVars, CatalogTypeOK,
           ResolverTypeOK, ServerTypeOK, IsToken
  <2>8. ASSUME NEW id \in TokenIds, NEW query \in Queries, NEW agent \in Agents,
               HandleToolCall(id, query, agent.agent_id)
        PROVE  TypeOK'
    <3>1. id \in DOMAIN tokens /\ RecordProofUse(id)
      BY <2>8 DEF HandleToolCall, Verifies
    <3>2. /\ DOMAIN usedTokenIds' \subseteq DOMAIN tokens
          /\ usedTokenIds' \in
                 [DOMAIN usedTokenIds' -> [exp : Nat, pos : Nat]]
      BY <3>1, RecordProofUseType
    <3>3. CatalogTypeOK' /\ ResolverTypeOK' /\ tokens' = tokens
      BY <2>8 DEF HandleToolCall, catalogVars, resolverVars, CatalogTypeOK,
             ResolverTypeOK, IsToken
    <3> DEFINE e == [token   |-> id,
                     filters |-> tokens[id].row_filters,
                     masked  |-> tokens[id].masked,
                     at      |-> clock]
    <3>4. executions' = Append(executions, e)
      BY <2>8 DEF HandleToolCall
    <3>5. e.token \in DOMAIN tokens /\ e.at \in Nat
      BY <3>1 DEF ResolverTypeOK
    <3> HIDE DEF e
    <3>6. /\ executions' \in Seq({executions'[i] : i \in DOMAIN executions'})
          /\ \A i \in DOMAIN executions' :
                executions'[i].token \in DOMAIN tokens /\ executions'[i].at \in Nat
      <4>1. executions \in Seq({executions[i] : i \in DOMAIN executions})
        BY DEF ServerTypeOK
      <4>2. /\ executions' \in Seq({executions'[i] : i \in DOMAIN executions'})
            /\ \A i \in DOMAIN executions' : \/ executions'[i] = e
                                             \/ /\ i \in DOMAIN executions
                                                /\ executions'[i] = executions[i]
        BY <3>4, <4>1, AppendFacts
      <4> QED BY <3>5, <4>2 DEF ServerTypeOK
    <3> QED BY <3>2, <3>3, <3>6 DEF ServerTypeOK
  <2> QED BY <2>1, <2>2, <2>3, <2>4, <2>5, <2>6, <2>7, <2>8 DEF Next
<1> QED BY <1>1, <1>2, PTL DEF Spec

----------------------------------------------------------------------------
(* The replay cache: the inductive invariant                               *)

\* Each entry of the replay cache was made by a run of its token, so entries
\* of different tokens have different positions.
CacheEntries ==
    \A id \in DOMAIN usedTokenIds :
        /\ usedTokenIds[id].exp = tokens[id].exp
        /\ usedTokenIds[id].pos \in DOMAIN executions
        /\ executions[usedTokenIds[id].pos].token = id

ReplayInv == TypeOK /\ CacheEntries /\ ReplayCacheBounded /\ ReplayMemory

\* The replay cache is finite.
LEMMA CacheFinite ==
  ASSUME TypeOK
  PROVE  /\ IsFiniteSet(DOMAIN usedTokenIds)
         /\ Cardinality(DOMAIN usedTokenIds) \in Nat
<1>1. DOMAIN usedTokenIds \subseteq TokenIds
  BY DEF TypeOK, ServerTypeOK, ResolverTypeOK
<1>2. IsFiniteSet(DOMAIN usedTokenIds)
  BY <1>1, FS_Subset
<1> QED BY <1>2, FS_CardinalityType

\* Eviction makes room for one entry and, in a cache that holds no more than
\* its capacity, evicts nothing but an oldest entry.
LEMMA EvictionFacts ==
  ASSUME NEW used, IsFiniteSet(DOMAIN used),
         \A id \in DOMAIN used : used[id].pos \in Nat,
         Cardinality(DOMAIN used) <= MaxReplayCacheSize
  PROVE  LET kept == EvictToCapacity(used)
         IN  /\ DOMAIN kept \subseteq DOMAIN used
             /\ \A id \in DOMAIN kept : kept[id] = used[id]
             /\ Cardinality(DOMAIN kept) < MaxReplayCacheSize
             /\ \A id \in DOMAIN used \ DOMAIN kept :
                   /\ Cardinality(DOMAIN used) = MaxReplayCacheSize
                   /\ \A o \in DOMAIN used : used[id].pos <= used[o].pos
<1> DEFINE kept == EvictToCapacity(used)
           D == DOMAIN used
           Older(id) == {o \in D : used[o].pos < used[id].pos}
<1>1. Cardinality(D) \in Nat
  BY FS_CardinalityType
<1>2. DOMAIN kept \subseteq D /\ \A id \in DOMAIN kept : kept[id] = used[id]
  BY EvictFacts
<1>3. CASE Cardinality(D) < MaxReplayCacheSize
  BY <1>2, <1>3 DEF EvictToCapacity
<1>4. CASE ~ (Cardinality(D) < MaxReplayCacheSize)
  <2>1. Cardinality(D) = MaxReplayCacheSize
    BY <1>1, <1>4
  <2>2. Cardinality(D) - MaxReplayCacheSize + 1 = 1
    BY <1>1, <2>1
  <2>3. \A id \in D : IsFiniteSet(Older(id)) /\ Cardinality(Older(id)) \in Nat
    BY FS_Subset, FS_CardinalityType
  <2>4. Oldest(used, 1) = {id \in D : Older(id) = {}}
    <3>1. \A id \in D : Cardinality(Older(id)) < 1 <=> Older(id) = {}
      <4> SUFFICES ASSUME NEW id \in D
                   PROVE  Cardinality(Older(id)) < 1 <=> Older(id) = {}
        OBVIOUS
      <4>1. Cardinality(Older(id)) = 0 <=> Older(id) = {}
        BY <2>3, FS_EmptySet
      <4>2. Cardinality(Older(id)) \in Nat
        BY <2>3
      <4> HIDE DEF Older
      <4> QED BY <4>1, <4>2
    <3>2. Oldest(used, 1) = {id \in D : Cardinality(Older(id)) < 1}
      BY DEF Oldest
    <3> HIDE DEF Older, D
    <3> QED BY <3>1, <3>2
  <2>5. kept = Restrict(used, D \ Oldest(used, 1))
    BY <1>4, <2>2 DEF EvictToCapacity
  <2>6. DOMAIN kept = D \ Oldest(used, 1)
    BY <2>5, RestrictFacts
  <2>7. PICK first \in D : \A o \in D : used[first].pos <= used[o].pos
    <3>1. D # {}
      BY <2>1, FS_EmptySet
    <3> DEFINE f == [id \in D |-> used[id].pos]
    <3>2. \A id \in D : f[id] \in Nat
      OBVIOUS
    <3>3. \E x \in D : \A y \in D : f[x] <= f[y]
      <4> HIDE DEF f, D
      <4> QED BY <3>1, <3>2, LeastExists
    <3> QED BY <3>3
  <2>8. first \in Oldest(used, 1)
    BY <2>4, <2>7
  <2>9. Cardinality(DOMAIN kept) < MaxReplayCacheSize
    <3>1. IsFiniteSet(D \ {first}) /\ Cardinality(D \ {first}) = Cardinality(D) - 1
      BY <2>7, FS_RemoveElement
    <3>2. DOMAIN kept \subseteq D \ {first}
      BY <2>6, <2>8
    <3>3. Cardinality(DOMAIN kept) <= Cardinality(D \ {first})
      BY <3>1, <3>2, FS_Subset
    <3>4. Cardinality(DOMAIN kept) \in Nat
      BY <3>1, <3>2, FS_Subset, FS_CardinalityType
    <3> QED BY <1>1, <2>1, <3>1, <3>3, <3>4
  <2>10. ASSUME NEW id \in D \ DOMAIN kept, NEW o \in D
         PROVE  used[id].pos <= used[o].pos
    <3>1. Older(id) = {}
      BY <2>4, <2>6
    <3>2. ~ (used[o].pos < used[id].pos)
      BY <3>1
    <3> QED BY <3>2
  <2> QED BY <1>2, <2>1, <2>9, <2>10
<1> QED BY <1>3, <1>4

\* A use is recorded in a cache that forgets only expired entries and, when it
\* is full, one that MaxReplayCacheSize - 1 runs have followed.
LEMMA RecordFacts ==
  ASSUME ReplayInv, NEW id \in DOMAIN tokens, RecordProofUse(id),
         id \notin DOMAIN usedTokenIds
  PROVE  /\ DOMAIN usedTokenIds' \subseteq DOMAIN usedTokenIds \cup {id}
         /\ usedTokenIds'[id] = [exp |-> tokens[id].exp,
                                 pos |-> Len(executions) + 1]
         /\ id \in DOMAIN usedTokenIds'
         /\ \A k \in DOMAIN usedTokenIds' \ {id} :
               usedTokenIds'[k] = usedTokenIds[k]
         /\ Cardinality(DOMAIN usedTokenIds') <= MaxReplayCacheSize
         /\ \A k \in DOMAIN usedTokenIds \ DOMAIN usedTokenIds' :
               \/ usedTokenIds[k].exp * TicksPerSecond <= clock
               \/ Len(executions) + 1 - usedTokenIds[k].pos
                      >= MaxReplayCacheSize
<1> DEFINE live == Unexpired(usedTokenIds, clock)
           fresh == Restrict(usedTokenIds, live)
           kept == EvictToCapacity(fresh)
           entry == [exp |-> tokens[id].exp, pos |-> Len(executions) + 1]
<1>1. live \subseteq DOMAIN usedTokenIds
  BY DEF Unexpired
<1>2. DOMAIN fresh = live /\ \A k \in live : fresh[k] = usedTokenIds[k]
  BY <1>1, RestrictFacts
<1>3. \A k \in DOMAIN usedTokenIds :
         /\ usedTokenIds[k].exp \in Nat
         /\ usedTokenIds[k].pos \in Nat
  BY DEF ReplayInv, TypeOK, ServerTypeOK
<1>4. /\ IsFiniteSet(live)
      /\ Cardinality(live) \in Nat
      /\ Cardinality(live) <= MaxReplayCacheSize
  <2>1. IsFiniteSet(live) /\ Cardinality(live) <= Cardinality(DOMAIN usedTokenIds)
    BY <1>1, CacheFinite, FS_Subset DEF ReplayInv
  <2>2. Cardinality(live) \in Nat
    BY <2>1, FS_CardinalityType
  <2> QED BY <2>1, <2>2, CacheFinite DEF ReplayInv, ReplayCacheBounded
<1>5. /\ DOMAIN kept \subseteq live
      /\ \A k \in DOMAIN kept : kept[k] = usedTokenIds[k]
      /\ Cardinality(DOMAIN kept) < MaxReplayCacheSize
      /\ \A k \in live \ DOMAIN kept :
            /\ Cardinality(live) = MaxReplayCacheSize
            /\ \A o \in live : usedTokenIds[k].pos <= usedTokenIds[o].pos
  <2>1. \A k \in DOMAIN fresh : fresh[k].pos \in Nat
    BY <1>1, <1>2, <1>3
  <2> HIDE DEF fresh, live
  <2> QED BY <1>2, <1>4, <2>1, EvictionFacts
<1>6. usedTokenIds' = [k \in DOMAIN kept \cup {id} |->
                          IF k = id THEN entry ELSE kept[k]]
  BY DEF RecordProofUse, Put
<1>7. Cardinality(DOMAIN usedTokenIds') <= MaxReplayCacheSize
  <2>1. IsFiniteSet(DOMAIN kept) /\ Cardinality(DOMAIN kept) \in Nat
    BY <1>4, <1>5, FS_Subset, FS_CardinalityType
  <2>2. Cardinality(DOMAIN kept \cup {id}) <= Cardinality(DOMAIN kept) + 1
    <3> DEFINE K == DOMAIN kept
    <3>1. IsFiniteSet(K) /\ Cardinality(K) \in Nat
      BY <2>1
    <3> HIDE DEF K
    <3>2. Cardinality(K \cup {id}) =
              IF id \in K THEN Cardinality(K) ELSE Cardinality(K) + 1
      BY <3>1, FS_AddElement
    <3>3. Cardinality(K \cup {id}) <= Cardinality(K) + 1
      BY <3>1, <3>2
    <3> QED BY <3>3 DEF K
  <2>3. Cardinality(DOMAIN kept \cup {id}) \in Nat
    BY <2>1, FS_AddElement, FS_CardinalityType
  <2>4. DOMAIN usedTokenIds' = DOMAIN kept \cup {id}
    BY <1>6
  <2> QED BY <1>5, <2>1, <2>2, <2>3, <2>4
<1>8. ASSUME NEW k \in live \ DOMAIN kept
      PROVE  Len(executions) + 1 - usedTokenIds[k].pos >= MaxReplayCacheSize
  <2> DEFINE p == usedTokenIds[k].pos
             L == Len(executions)
             pos == [o \in live |-> usedTokenIds[o].pos]
  <2>1. L \in Nat /\ DOMAIN executions = 1..L
    BY DEF ReplayInv, TypeOK, ServerTypeOK
  <2>2. p \in 1..L
    BY <1>1, <2>1 DEF ReplayInv, CacheEntries
  <2>3. pos \in [live -> p..L]
    <3>1. \A o \in live : usedTokenIds[o].pos \in 1..L
      BY <1>1, <2>1 DEF ReplayInv, CacheEntries
    <3> QED BY <1>5, <2>2, <3>1
  <2>4. ASSUME NEW a \in live, NEW b \in live, pos[a] = pos[b]
        PROVE  a = b
    BY <1>1, <2>4 DEF ReplayInv, CacheEntries
  <2>5. pos \in Injection(live, p..L)
    BY <2>3, <2>4 DEF Injection, IsInjective
  <2>6. IsFiniteSet(p..L) /\ Cardinality(p..L) = L - p + 1
    <3>1. p \in Int /\ L \in Int /\ ~ (p > L)
      BY <2>1, <2>2
    <3> HIDE DEF p, L
    <3> QED BY <3>1, FS_Interval
  <2>7. Cardinality(live) <= Cardinality(p..L)
    <3> HIDE DEF pos, p, L, live
    <3> QED BY <2>5, <2>6, FS_Injection
  <2>8. Cardinality(live) = MaxReplayCacheSize
    BY <1>5
  <2> QED BY <2>1, <2>2, <2>6, <2>7, <2>8
<1>9. ASSUME NEW k \in DOMAIN usedTokenIds \ DOMAIN usedTokenIds'
      PROVE  \/ usedTokenIds[k].exp * TicksPerSecond <= clock
             \/ Len(executions) + 1 - usedTokenIds[k].pos >= MaxReplayCacheSize
  <2>1. CASE k \in live
    BY <1>6, <1>8, <2>1
  <2>2. CASE k \notin live
    <3>1. ~ (usedTokenIds[k].exp * TicksPerSecond > clock)
      BY <2>2 DEF Unexpired
    <3>2. usedTokenIds[k].exp * TicksPerSecond \in Nat /\ clock \in Nat
      BY <1>3 DEF ReplayInv, TypeOK, ResolverTypeOK
    <3> QED BY <3>1, <3>2
  <2> QED BY <2>1, <2>2
<1> HIDE DEF kept, live, fresh
<1> QED BY <1>1, <1>5, <1>6, <1>7, <1>9

\* A run of a token keeps the invariant.
LEMMA RunKeepsReplayInv ==
  ASSUME ReplayInv, TypeOK', NEW id, NEW query, NEW agentId,
         HandleToolCall(id, query, agentId)
  PROVE  ReplayInv'
<1> DEFINE L == Len(executions)
<1>1. /\ id \in DOMAIN tokens
      /\ id \notin DOMAIN usedTokenIds
      /\ RecordProofUse(id)
      /\ tokens' = tokens
      /\ clock' = clock
  BY DEF HandleToolCall, Verifies, resolverVars
<1>2. /\ L \in Nat
      /\ Len(executions') = L + 1
      /\ DOMAIN executions = 1..L
      /\ DOMAIN executions' = 1..(L + 1)
      /\ executions'[L + 1].token = id
      /\ \A n \in 1..L : executions'[n] = executions[n]
  <2>1. executions \in Seq({executions[i] : i \in DOMAIN executions})
    BY DEF ReplayInv, TypeOK, ServerTypeOK
  <2> DEFINE e == [token   |-> id,
                   filters |-> tokens[id].row_filters,
                   masked  |-> tokens[id].masked,
                   at      |-> clock]
  <2>2. executions' = Append(executions, e) /\ e.token = id
    BY DEF HandleToolCall
  <2> HIDE DEF e
  <2> QED BY <2>1, <2>2, AppendFacts
<1>3. /\ DOMAIN usedTokenIds' \subseteq DOMAIN usedTokenIds \cup {id}
      /\ usedTokenIds'[id] = [exp |-> tokens[id].exp, pos |-> L + 1]
      /\ id \in DOMAIN usedTokenIds'
      /\ \A k \in DOMAIN usedTokenIds' \ {id} :
            usedTokenIds'[k] = usedTokenIds[k]
      /\ Cardinality(DOMAIN usedTokenIds') <= MaxReplayCacheSize
      /\ \A k \in DOMAIN usedTokenIds \ DOMAIN usedTokenIds' :
            \/ usedTokenIds[k].exp * TicksPerSecond <= clock
            \/ L + 1 - usedTokenIds[k].pos >= MaxReplayCacheSize
  BY <1>1, RecordFacts
<1>4. CacheEntries'
  <2> SUFFICES ASSUME NEW k \in DOMAIN usedTokenIds'
               PROVE  /\ usedTokenIds'[k].exp = tokens'[k].exp
                      /\ usedTokenIds'[k].pos \in DOMAIN executions'
                      /\ executions'[usedTokenIds'[k].pos].token = k
    BY DEF CacheEntries
  <2>1. CASE k = id
    BY <1>1, <1>2, <1>3, <2>1
  <2>2. CASE k # id
    BY <1>1, <1>2, <1>3, <2>2 DEF ReplayInv, CacheEntries
  <2> QED BY <2>1, <2>2
<1>5. ReplayMemory'
  <2> SUFFICES ASSUME NEW n \in DOMAIN executions',
                      clock < tokens[executions'[n].token].exp * TicksPerSecond
               PROVE  \/ /\ executions'[n].token \in DOMAIN usedTokenIds'
                         /\ usedTokenIds'[executions'[n].token].pos >= n
                      \/ L + 1 - n >= MaxReplayCacheSize
    BY <1>1, <1>2 DEF ReplayMemory
  <2>1. CASE n = L + 1
    BY <1>2, <1>3, <2>1
  <2>2. CASE n \in 1..L
    <3> DEFINE k == executions[n].token
    <3>1. executions'[n].token = k
      BY <1>2, <2>2
    <3>2. \/ k \in DOMAIN usedTokenIds /\ usedTokenIds[k].pos >= n
          \/ L - n >= MaxReplayCacheSize
      BY <1>2, <2>2, <3>1 DEF ReplayInv, ReplayMemory
    <3>3. CASE L - n >= MaxReplayCacheSize
      BY <1>2, <2>2, <3>3
    <3>4. CASE k \in DOMAIN usedTokenIds /\ usedTokenIds[k].pos >= n
      <4>1. k # id
        BY <1>1, <3>4
      <4>2. usedTokenIds[k].pos \in 1..L /\ usedTokenIds[k].exp = tokens[k].exp
        BY <1>2, <3>4 DEF ReplayInv, CacheEntries
      <4>3. CASE k \in DOMAIN usedTokenIds'
        BY <1>3, <3>1, <3>4, <4>1, <4>3
      <4>4. CASE k \notin DOMAIN usedTokenIds'
        <5>1. ~ (usedTokenIds[k].exp * TicksPerSecond <= clock)
          <6>1. usedTokenIds[k].exp * TicksPerSecond \in Nat /\ clock \in Nat
            <7>1. usedTokenIds[k].exp \in Nat /\ clock \in Nat
              BY <3>4 DEF ReplayInv, TypeOK, ServerTypeOK, ResolverTypeOK
            <7> QED BY <7>1
          <6> QED BY <3>1, <4>2, <6>1
        <5>2. L + 1 - usedTokenIds[k].pos >= MaxReplayCacheSize
          BY <1>3, <3>4, <4>4, <5>1
        <5> QED BY <1>2, <2>2, <3>4, <4>2, <5>2
      <4> QED BY <4>3, <4>4
    <3> QED BY <3>2, <3>3, <3>4
  <2> QED BY <1>2, <2>1, <2>2
<1> QED BY <1>3, <1>4, <1>5 DEF ReplayInv, ReplayCacheBounded

\* A step that leaves the replay cache and the history alone, changes no
\* issued token and does not turn the clock back keeps the invariant.
LEMMA OtherStepsKeepReplayInv ==
  ASSUME ReplayInv, TypeOK', UNCHANGED serverVars,
         \A id \in DOMAIN tokens : tokens'[id] = tokens[id],
         clock' >= clock
  PROVE  ReplayInv'
<1>1. CacheEntries'
  BY DEF ReplayInv, CacheEntries, serverVars, TypeOK, ServerTypeOK
<1>2. ReplayMemory'
  <2> SUFFICES ASSUME NEW n \in DOMAIN executions,
                      clock' < tokens'[executions[n].token].exp * TicksPerSecond
               PROVE  \/ /\ executions[n].token \in DOMAIN usedTokenIds
                         /\ usedTokenIds[executions[n].token].pos >= n
                      \/ Len(executions) - n >= MaxReplayCacheSize
    BY DEF ReplayMemory, serverVars
  <2>1. executions[n].token \in DOMAIN tokens
    BY DEF ReplayInv, TypeOK, ServerTypeOK
  <2>2. tokens[executions[n].token].exp \in Nat /\ clock \in Nat /\ clock' \in Nat
    BY <2>1 DEF ReplayInv, TypeOK, ResolverTypeOK, IsToken
  <2>3. clock < tokens[executions[n].token].exp * TicksPerSecond
    BY <2>1, <2>2
  <2> QED BY <2>3 DEF ReplayInv, ReplayMemory
<1> QED BY <1>1, <1>2 DEF ReplayInv, ReplayCacheBounded, serverVars

\* What every step but a run leaves alone.
LEMMA StepCases ==
  ASSUME TypeOK, [Next]_vars
  PROVE  \/ \E id \in TokenIds, query \in Queries, agent \in Agents :
               HandleToolCall(id, query, agent.agent_id)
         \/ /\ UNCHANGED serverVars
            /\ \A id \in DOMAIN tokens : tokens'[id] = tokens[id]
            /\ DOMAIN tokens \subseteq DOMAIN tokens'
            /\ clock' >= clock
<1>1. clock \in Nat
  BY DEF TypeOK, ResolverTypeOK
<1> DEFINE Others == /\ UNCHANGED serverVars
                     /\ \A id \in DOMAIN tokens : tokens'[id] = tokens[id]
                     /\ DOMAIN tokens \subseteq DOMAIN tokens'
                     /\ clock' >= clock
<1>2. ASSUME NEW id, NEW session, NEW agent, NEW query, NEW ids, NEW right,
             RequestToken(id, session, agent, query, ids, right),
             UNCHANGED serverVars
      PROVE  Others
  BY <1>1, <1>2 DEF RequestToken, Put
<1>3. ASSUME Tick, UNCHANGED serverVars
      PROVE  Others
  BY <1>1, <1>3 DEF Tick
<1>4. ASSUME UNCHANGED resolverVars, UNCHANGED serverVars
      PROVE  Others
  BY <1>1, <1>4 DEF resolverVars
<1>5. ASSUME NEW id, RevokeToken(id), UNCHANGED serverVars
      PROVE  Others
  BY <1>1, <1>5 DEF RevokeToken
<1>6. ASSUME NEW sid, RevokeSessionTokens(sid), UNCHANGED serverVars
      PROVE  Others
  BY <1>1, <1>6 DEF RevokeSessionTokens
<1>7. CASE UNCHANGED vars
  BY <1>4, <1>7 DEF vars
<1>8. CASE Next
  <2>1. ASSUME NEW r \in Registrations, UNCHANGED <<resolverVars, serverVars>>
        PROVE  Others
    BY <1>4, <2>1
  <2>2. ASSUME NEW id \in TokenIds, NEW session \in Sessions,
               NEW agent \in Agents, NEW query \in Queries,
               NEW ids \in AssetLists, NEW right \in Rights,
               RequestToken(id, session, agent, query, ids, right),
               UNCHANGED <<catalogVars, serverVars>>
        PROVE  Others
    BY <1>2, <2>2
  <2>3. ASSUME NEW id \in DOMAIN tokens, RevokeToken(id),
               UNCHANGED <<catalogVars, serverVars>>
        PROVE  Others
    BY <1>5, <2>3
  <2>4. ASSUME NEW sid \in SessionIds, RevokeSessionTokens(sid),
               UNCHANGED <<catalogVars, serverVars>>
        PROVE  Others
    BY <1>6, <2>4
  <2>5. ASSUME Tick, UNCHANGED <<catalogVars, serverVars>>
        PROVE  Others
    BY <1>3, <2>5
  <2>6. ASSUME NEW c \in ConsentRecords, UNCHANGED <<resolverVars, serverVars>>
        PROVE  Others
    BY <1>4, <2>6
  <2>7. \/ \E id \in TokenIds, query \in Queries, agent \in Agents :
              HandleToolCall(id, query, agent.agent_id)
        \/ Others
    <3> HIDE DEF Others
    <3> QED BY <1>8, <2>1, <2>2, <2>3, <2>4, <2>5, <2>6 DEF Next
  <2> QED BY <2>7
<1> QED BY <1>7, <1>8

\* The replay invariant holds in every state.
THEOREM ReplayInvariant == Spec => []ReplayInv
<1>1. Init => ReplayInv
  <2> SUFFICES ASSUME Init PROVE ReplayInv
    OBVIOUS
  <2>1. TypeOK
    BY DEF Init, CatalogInit, ResolverInit, TypeOK, CatalogTypeOK,
           ResolverTypeOK, ServerTypeOK
  <2>2. DOMAIN usedTokenIds = {} /\ DOMAIN executions = {}
    BY DEF Init
  <2>3. Cardinality(DOMAIN usedTokenIds) <= MaxReplayCacheSize
    BY <2>2, FS_EmptySet
  <2> QED BY <2>1, <2>2, <2>3
          DEF ReplayInv, CacheEntries, ReplayCacheBounded, ReplayMemory
<1>2. ReplayInv /\ TypeOK' /\ [Next]_vars => ReplayInv'
  BY RunKeepsReplayInv, OtherStepsKeepReplayInv, StepCases DEF ReplayInv
<1> QED BY <1>1, <1>2, TypeCorrect, PTL DEF Spec

\* The replay cache never outgrows max_replay_cache_size.
THEOREM CacheStaysBounded == Spec => []ReplayCacheBounded
BY ReplayInvariant, PTL DEF ReplayInv

\* The replay cache remembers every token that could run again until
\* max_replay_cache_size other runs have followed.
THEOREM CacheRemembers == Spec => []ReplayMemory
BY ReplayInvariant, PTL DEF ReplayInv

----------------------------------------------------------------------------
(* The server implements TokenLifecycle                                    *)

Closed == DOMAIN tokens \ LiveTokens
Served == [n \in DOMAIN executions |-> executions[n].token]

\* The history of runs maps to the sequence of the tokens that ran.
LEMMA ServedType ==
  ASSUME TypeOK
  PROVE  /\ Len(executions) \in Nat
         /\ DOMAIN executions = 1..Len(executions)
         /\ Served \in Seq(TokenIds)
         /\ Len(Served) = Len(executions)
         /\ DOMAIN Served = DOMAIN executions
<1>1. Len(executions) \in Nat /\ DOMAIN executions = 1..Len(executions)
  BY DEF TypeOK, ServerTypeOK
<1>2. Served \in [1..Len(executions) -> TokenIds]
  BY <1>1 DEF Served, TypeOK, ServerTypeOK, ResolverTypeOK
<1>3. Served \in Seq(TokenIds)
  <2> HIDE DEF Served
  <2>1. Served \in UNION {[1..n -> TokenIds] : n \in Nat}
    BY <1>1, <1>2
  <2> QED BY <2>1, SeqDef
<1>4. Len(Served) \in Nat /\ DOMAIN Served = 1..Len(Served)
  BY <1>3, LenProperties
<1>5. DOMAIN Served = 1..Len(executions)
  BY <1>2
<1>6. Len(Served) = Len(executions)
  <2> DEFINE a == Len(Served)
             b == Len(executions)
  <2>1. a \in Nat /\ b \in Nat /\ \A i : i \in 1..a <=> i \in 1..b
    BY <1>1, <1>4, <1>5
  <2> HIDE DEF a, b
  <2>2. (a \in 1..a <=> a \in 1..b) /\ (b \in 1..a <=> b \in 1..b)
    BY <2>1
  <2>3. a = b
    BY <2>1, <2>2
  <2> QED BY <2>3 DEF a, b
<1> QED BY <1>1, <1>3, <1>5, <1>6

\* A run appends its token to the sequence of tokens that ran.
LEMMA ServedAppend ==
  ASSUME TypeOK, NEW id, NEW query, NEW agentId,
         HandleToolCall(id, query, agentId)
  PROVE  Served' = Append(Served, id)
<1> DEFINE e == [token   |-> id,
                 filters |-> tokens[id].row_filters,
                 masked  |-> tokens[id].masked,
                 at      |-> clock]
           L == Len(executions)
<1>1. executions' = Append(executions, e) /\ e.token = id
  BY DEF HandleToolCall
<1> HIDE DEF e
<1>2. /\ L \in Nat
      /\ DOMAIN executions = 1..L
      /\ Served \in Seq(TokenIds)
      /\ Len(Served) = L
      /\ DOMAIN Served = 1..L
  BY ServedType
<1>3. /\ DOMAIN executions' = 1..(L + 1)
      /\ executions'[L + 1] = e
      /\ \A n \in 1..L : executions'[n] = executions[n]
  <2>1. executions \in Seq({executions[i] : i \in DOMAIN executions})
    BY DEF TypeOK, ServerTypeOK
  <2> QED BY <1>1, <1>2, <2>1, AppendFacts
<1>4. Served' = [n \in 1..(L + 1) |-> executions'[n].token]
  BY <1>3 DEF Served
<1>5. /\ Len(Append(Served, id)) = L + 1
      /\ Append(Served, id)[L + 1] = id
      /\ \A n \in 1..L : Append(Served, id)[n] = Served[n]
      /\ Append(Served, id) \in Seq(TokenIds)
  <2>1. id \in TokenIds
    BY DEF HandleToolCall, Verifies, TypeOK, ResolverTypeOK
  <2> HIDE DEF Served
  <2> QED BY <1>2, <2>1, AppendFacts
<1>6. Append(Served, id) \in [1..(L + 1) -> TokenIds]
  <2> HIDE DEF Served
  <2> QED BY <1>5, LenProperties
<1>7. ASSUME NEW n \in 1..(L + 1)
      PROVE  Served'[n] = Append(Served, id)[n]
  <2>1. CASE n = L + 1
    BY <1>1, <1>3, <1>4, <1>5, <2>1
  <2>2. CASE n \in 1..L
    <3>1. Served'[n] = executions[n].token
      BY <1>2, <1>3, <1>4, <2>2
    <3>2. Served[n] = executions[n].token
      BY <1>2, <2>2 DEF Served
    <3> QED BY <1>5, <2>2, <3>1, <3>2
  <2> QED BY <1>2, <2>1, <2>2
<1>8. Append(Served, id) = [n \in 1..(L + 1) |-> Append(Served, id)[n]]
  BY <1>6
<1>9. Served' = [n \in 1..(L + 1) |-> Served'[n]]
  BY <1>4
<1> HIDE DEF L, Served
<1> QED BY <1>7, <1>8, <1>9

\* A run serves a live token that has not served within the window.
LEMMA RunServes ==
  ASSUME ReplayInv, NEW id \in TokenIds, NEW query, NEW agentId,
         HandleToolCall(id, query, agentId)
  PROVE  Lifecycle!Serve(id)
<1>1. Verifies(id, query, agentId) /\ id \notin DOMAIN usedTokenIds
  BY DEF HandleToolCall
<1>2. id \in LiveTokens
  BY <1>1 DEF Verifies, LiveTokens, Decodes
<1>3. TypeOK
  BY DEF ReplayInv
<1>4. ASSUME NEW n \in DOMAIN Served, Served[n] = id
      PROVE  Len(Served) - n >= MaxReplayCacheSize
  <2>1. n \in DOMAIN executions /\ executions[n].token = id
    BY <1>4 DEF Served
  <2>2. clock < tokens[id].exp * TicksPerSecond
    BY <1>1 DEF Verifies, Decodes
  <2>3. Len(executions) - n >= MaxReplayCacheSize
    BY <1>1, <2>1, <2>2 DEF ReplayInv, ReplayMemory
  <2> QED BY <1>3, <2>3, ServedType
<1>5. Served' = Append(Served, id)
  BY <1>3, ServedAppend
<1>6. LiveTokens' = LiveTokens /\ Closed' = Closed
  BY DEF HandleToolCall, resolverVars, LiveTokens, Closed, Revoked
<1> QED BY <1>2, <1>4, <1>5, <1>6 DEF Lifecycle!Serve, Served, Closed

\* A step in which live tokens at most end and no token is issued closes some.
LEMMA EndingCloses ==
  ASSUME UNCHANGED serverVars, DOMAIN tokens' = DOMAIN tokens,
         LiveTokens' \subseteq LiveTokens
  PROVE  \E S \in SUBSET LiveTokens : Lifecycle!Close(S)
<1> DEFINE S == LiveTokens \ LiveTokens'
<1>1. LiveTokens' = LiveTokens \ S
  OBVIOUS
<1>2. Closed' = Closed \cup S
  BY DEF Closed, LiveTokens
<1>3. Served' = Served
  BY DEF Served, serverVars
<1>4. Lifecycle!Close(S)
  BY <1>1, <1>2, <1>3 DEF Lifecycle!Close, Served, Closed
<1> QED BY <1>4

\* Issuing a token issues it, live or closed.
LEMMA RequestIssues ==
  ASSUME TypeOK, NEW id \in TokenIds, NEW session, NEW agent, NEW query,
         NEW ids, NEW right,
         RequestToken(id, session, agent, query, ids, right),
         UNCHANGED serverVars
  PROVE  Lifecycle!Issue(id)
<1>1. id \notin DOMAIN tokens
  BY DEF RequestToken
<1>2. /\ DOMAIN tokens' = DOMAIN tokens \cup {id}
      /\ \A k \in DOMAIN tokens : tokens'[k] = tokens[k]
  BY <1>1 DEF RequestToken, Put
<1>3. LiveTokens' \ {id} = LiveTokens
  BY <1>1, <1>2 DEF LiveTokens, Revoked, RequestToken
<1>4. id \in TokenIds \ (LiveTokens \cup Closed)
  BY <1>1 DEF LiveTokens, Closed
<1>5. Served' = Served
  BY DEF Served, serverVars
<1>6. LiveTokens' \subseteq DOMAIN tokens' /\ LiveTokens \subseteq DOMAIN tokens
  BY DEF LiveTokens
<1>7. \/ LiveTokens' = LiveTokens \cup {id} /\ Closed' = Closed
      \/ Closed' = Closed \cup {id} /\ LiveTokens' = LiveTokens
  <2>1. CASE id \in LiveTokens'
    BY <1>1, <1>2, <1>3, <1>6, <2>1 DEF Closed
  <2>2. CASE id \notin LiveTokens'
    BY <1>1, <1>2, <1>3, <1>6, <2>2 DEF Closed
  <2> QED BY <2>1, <2>2
<1> QED BY <1>4, <1>5, <1>7 DEF Lifecycle!Issue, Served, Closed

\* Every step of the server is a step of the lifecycle or leaves it alone.
LEMMA StepRefines ==
  ASSUME ReplayInv, [Next]_vars
  PROVE  [Lifecycle!LifecycleNext]_(Lifecycle!lifecycleVars)
<1> DEFINE Abstract == [Lifecycle!LifecycleNext]_(Lifecycle!lifecycleVars)
<1>0. TypeOK
  BY DEF ReplayInv
<1>1. ASSUME UNCHANGED resolverVars, UNCHANGED serverVars
      PROVE  Abstract
  <2>1. LiveTokens' = LiveTokens /\ Closed' = Closed /\ Served' = Served
    BY <1>1 DEF resolverVars, serverVars, LiveTokens, Revoked, Closed, Served
  <2> QED BY <2>1 DEF Lifecycle!lifecycleVars, Closed, Served
<1>2. CASE UNCHANGED vars
  BY <1>1, <1>2 DEF vars
<1>3. ASSUME NEW id \in TokenIds, NEW session \in Sessions,
             NEW agent \in Agents, NEW query \in Queries,
             NEW ids \in AssetLists, NEW right \in Rights,
             RequestToken(id, session, agent, query, ids, right),
             UNCHANGED <<catalogVars, serverVars>>
      PROVE  Abstract
  BY <1>0, <1>3, RequestIssues DEF Lifecycle!LifecycleNext
<1>4. ASSUME NEW id \in DOMAIN tokens, RevokeToken(id),
             UNCHANGED <<catalogVars, serverVars>>
      PROVE  Abstract
  <2>1. LiveTokens' \subseteq LiveTokens /\ DOMAIN tokens' = DOMAIN tokens
    BY <1>4 DEF RevokeToken, LiveTokens, Revoked
  <2> QED BY <1>4, <2>1, EndingCloses DEF Lifecycle!LifecycleNext
<1>5. ASSUME NEW sid \in SessionIds, RevokeSessionTokens(sid),
             UNCHANGED <<catalogVars, serverVars>>
      PROVE  Abstract
  <2>1. LiveTokens' \subseteq LiveTokens /\ DOMAIN tokens' = DOMAIN tokens
    BY <1>5 DEF RevokeSessionTokens, LiveTokens, Revoked
  <2> QED BY <1>5, <2>1, EndingCloses DEF Lifecycle!LifecycleNext
<1>6. ASSUME Tick, UNCHANGED <<catalogVars, serverVars>>
      PROVE  Abstract
  <2>1. LiveTokens' \subseteq LiveTokens
    <3> SUFFICES ASSUME NEW id \in LiveTokens'
                 PROVE  id \in LiveTokens
      OBVIOUS
    <3>1. id \in DOMAIN tokens /\ ~Revoked(id)
      BY <1>6 DEF Tick, LiveTokens, Revoked
    <3>2. clock + 1 < tokens[id].exp * TicksPerSecond
      BY <1>6 DEF Tick, LiveTokens
    <3>3. clock \in Nat /\ tokens[id].exp * TicksPerSecond \in Nat
      BY <1>0, <3>1 DEF TypeOK, ResolverTypeOK, IsToken
    <3> QED BY <3>1, <3>2, <3>3 DEF LiveTokens
  <2>2. DOMAIN tokens' = DOMAIN tokens
    BY <1>6 DEF Tick
  <2> QED BY <1>6, <2>1, <2>2, EndingCloses DEF Lifecycle!LifecycleNext
<1>7. ASSUME NEW id \in TokenIds, NEW query \in Queries, NEW agent \in Agents,
             HandleToolCall(id, query, agent.agent_id)
      PROVE  Abstract
  BY <1>7, RunServes DEF Lifecycle!LifecycleNext
<1>8. CASE Next
  <2> HIDE DEF Abstract
  <2>1. ASSUME UNCHANGED <<resolverVars, serverVars>>
        PROVE  Abstract
    BY <1>1, <2>1
  <2>2. Abstract
    BY <1>3, <1>4, <1>5, <1>6, <1>7, <1>8, <2>1 DEF Next
  <2> QED BY <2>2 DEF Abstract
<1> QED BY <1>2, <1>8

\* The server and the resolver implement the token lifecycle.
THEOREM ServerImplementsLifecycle == Spec => ImplementsLifecycle
<1>1. Init => Lifecycle!LifecycleInit
  <2> SUFFICES ASSUME Init
               PROVE  Lifecycle!LifecycleInit
    OBVIOUS
  <2>1. LiveTokens = {} /\ Closed = {}
    BY DEF Init, ResolverInit, LiveTokens, Closed
  <2>2. Served = <<>>
    BY DEF Init, Served
  <2> QED BY <2>1, <2>2 DEF Lifecycle!LifecycleInit, Served, Closed
<1>2. ReplayInv /\ [Next]_vars =>
          [Lifecycle!LifecycleNext]_(Lifecycle!lifecycleVars)
  BY StepRefines
<1> QED BY <1>1, <1>2, ReplayInvariant, PTL
        DEF Spec, ImplementsLifecycle, Lifecycle!LifecycleSpec

\* The replay window, which the server has from the lifecycle it implements:
\* between two uses of one token lie at least max_replay_cache_size uses of
\* other tokens (_record_proof_use).
THEOREM WindowSeparatesUses == Spec => []Lifecycle!ReplayWindow
<1> DEFINE Separated ==
        \A i, j \in DOMAIN Served :
            i < j /\ Served[i] = Served[j] => j - i > MaxReplayCacheSize
<1>1. Separated <=> Lifecycle!ReplayWindow
  BY DEF Served, Lifecycle!ReplayWindow
<1>2. Init => Separated
  BY DEF Init, Served
<1>3. ReplayInv /\ Separated /\ [Next]_vars => Separated'
  <2> SUFFICES ASSUME ReplayInv, Separated, [Next]_vars
               PROVE  Separated'
    OBVIOUS
  <2>1. ASSUME Served' = Served
        PROVE  Separated'
    BY <2>1
  <2>2. ASSUME NEW id \in TokenIds, Lifecycle!Serve(id)
        PROVE  Separated'
    <3> DEFINE L == Len(Served)
    <3>1. Served' = Append(Served, id)
      BY <2>2 DEF Lifecycle!Serve, Served
    <3>2. \A n \in DOMAIN Served :
              Served[n] = id => L - n >= MaxReplayCacheSize
      BY <2>2 DEF Lifecycle!Serve, Served
    <3>3. Served \in Seq(TokenIds)
      BY ServedType DEF ReplayInv
    <3>4. /\ L \in Nat /\ DOMAIN Served = 1..L
          /\ DOMAIN Served' = 1..(L + 1)
          /\ Served'[L + 1] = id
          /\ \A n \in 1..L : Served'[n] = Served[n]
      BY <3>1, <3>3
    <3>5. ASSUME NEW i \in 1..(L + 1), NEW j \in 1..(L + 1), i < j,
                 Served'[i] = Served'[j]
          PROVE  j - i > MaxReplayCacheSize
      <4>1. CASE j \in 1..L
        BY <3>4, <3>5, <4>1
      <4>2. CASE j = L + 1
        BY <3>2, <3>4, <3>5, <4>2
      <4> QED BY <3>4, <4>1, <4>2
    <3> QED BY <3>4, <3>5
  <2>3. [Lifecycle!LifecycleNext]_(Lifecycle!lifecycleVars)
    BY StepRefines
  <2>4. ASSUME UNCHANGED Lifecycle!lifecycleVars
        PROVE  Served' = Served
    BY <2>4 DEF Lifecycle!lifecycleVars, Served
  <2>5. ASSUME NEW id, Lifecycle!Issue(id)
        PROVE  Served' = Served
    BY <2>5 DEF Lifecycle!Issue, Served
  <2>6. ASSUME NEW S, Lifecycle!Close(S)
        PROVE  Served' = Served
    BY <2>6 DEF Lifecycle!Close, Served
  <2> QED BY <2>1, <2>2, <2>3, <2>4, <2>5, <2>6 DEF Lifecycle!LifecycleNext
<1> QED BY <1>1, <1>2, <1>3, ReplayInvariant, PTL DEF Spec

----------------------------------------------------------------------------
(* Single use                                                              *)

\* No token runs twice while the replay cache can hold every token there is.
LEMMA RunKeepsSingleUse ==
  ASSUME ReplayInv, SingleUse, Cardinality(TokenIds) <= MaxReplayCacheSize,
         NEW id \in TokenIds, NEW query, NEW agentId,
         HandleToolCall(id, query, agentId)
  PROVE  SingleUse'
<1> DEFINE L == Len(executions)
<1>1. TypeOK
  BY DEF ReplayInv
<1>2. /\ L \in Nat
      /\ DOMAIN executions = 1..L
      /\ Served \in Seq(TokenIds)
      /\ DOMAIN Served = 1..L
  BY <1>1, ServedType
<1>3. Served \in Injection(1..L, TokenIds)
  <2>1. Served \in [1..L -> TokenIds]
    BY <1>2, LenProperties
  <2>2. \A m, n \in 1..L : Served[m] = Served[n] => m = n
    BY <1>2 DEF Served, SingleUse
  <2> HIDE DEF Served
  <2> QED BY <2>1, <2>2 DEF Injection, IsInjective
<1>4. L <= MaxReplayCacheSize
  <2>1. Cardinality(1..L) <= Cardinality(TokenIds)
    <3> HIDE DEF L, Served
    <3> QED BY <1>3, FS_Injection
  <2>2. Cardinality(1..L) = L
    <3>1. 1 \in Int /\ L \in Int /\ IF 1 > L THEN L = 0 ELSE L - 1 + 1 = L
      BY <1>2
    <3> HIDE DEF L
    <3> QED BY <3>1, FS_Interval
  <2>3. Cardinality(TokenIds) \in Nat
    BY FS_CardinalityType
  <2> QED BY <1>2, <2>1, <2>2, <2>3
<1>5. ASSUME NEW n \in 1..L, executions[n].token = id
      PROVE  FALSE
  <2>1. clock < tokens[id].exp * TicksPerSecond /\ id \notin DOMAIN usedTokenIds
    BY DEF HandleToolCall, Verifies, Decodes
  <2>2. L - n >= MaxReplayCacheSize
    BY <1>2, <1>5, <2>1 DEF ReplayInv, ReplayMemory
  <2> QED BY <1>2, <1>4, <2>2
<1>6. /\ DOMAIN executions' = 1..(L + 1)
      /\ executions'[L + 1].token = id
      /\ \A n \in 1..L : executions'[n] = executions[n]
  <2> DEFINE e == [token   |-> id,
                   filters |-> tokens[id].row_filters,
                   masked  |-> tokens[id].masked,
                   at      |-> clock]
  <2>1. executions' = Append(executions, e) /\ e.token = id
    BY DEF HandleToolCall
  <2>2. executions \in Seq({executions[i] : i \in DOMAIN executions})
    BY <1>1 DEF TypeOK, ServerTypeOK
  <2> HIDE DEF e
  <2> QED BY <1>2, <2>1, <2>2, AppendFacts
<1>7. ASSUME NEW m \in 1..(L + 1), NEW n \in 1..(L + 1),
             executions'[m].token = executions'[n].token
      PROVE  m = n
  <2>1. CASE m \in 1..L /\ n \in 1..L
    BY <1>2, <1>6, <1>7, <2>1 DEF SingleUse
  <2>2. CASE m = L + 1 /\ n \in 1..L
    BY <1>5, <1>6, <1>7, <2>2
  <2>3. CASE n = L + 1 /\ m \in 1..L
    BY <1>5, <1>6, <1>7, <2>3
  <2> QED BY <1>2, <2>1, <2>2, <2>3
<1> QED BY <1>6, <1>7 DEF SingleUse

\* Tokens are single-use, as core/models.py says of them, as long as the
\* replay cache can hold every token that is ever issued.
THEOREM SingleUseWithRoom ==
  ASSUME Cardinality(TokenIds) <= MaxReplayCacheSize
  PROVE  Spec => []SingleUse
<1>1. Init => SingleUse
  BY DEF Init, SingleUse
<1>2. ReplayInv /\ SingleUse /\ [Next]_vars => SingleUse'
  <2>1. ASSUME ReplayInv, SingleUse, UNCHANGED serverVars
        PROVE  SingleUse'
    BY <2>1 DEF SingleUse, serverVars
  <2> QED BY <2>1, RunKeepsSingleUse, StepCases DEF ReplayInv
<1> QED BY <1>1, <1>2, ReplayInvariant, PTL DEF Spec

----------------------------------------------------------------------------
(* What tokens grant: the inductive invariant, token by token              *)

Justified(t) ==
    \A i \in DOMAIN t.asset_ids :
        /\ t.asset_ids[i] \in DOMAIN t.policy_version.assets
        /\ Access(t.policy_version, t.session.user, t.agent,
                  t.asset_ids[i], t.right) = "granted"
        /\ ~TemplateRaises(AssetOf(t, i))

BrandFiltered(t) ==
    (\E i \in DOMAIN t.asset_ids : AssetOf(t, i).brand_tags # {}) =>
        /\ "brand_filter" \in DOMAIN t.row_filters
        /\ t.row_filters["brand_filter"] # {}
        /\ t.row_filters["brand_filter"] \subseteq t.session.user.brand_scope

Masked(t) ==
    t.session.user.clearance_level < RESTRICTED =>
        \A i \in DOMAIN t.asset_ids : AssetOf(t, i).pii_columns \subseteq t.masked

GrantInv ==
    /\ TypeOK
    /\ policyVersion = ComputeVersion(assets, consentState)
    /\ \A id \in DOMAIN tokens :
          Justified(tokens[id]) /\ BrandFiltered(tokens[id]) /\ Masked(tokens[id])
    /\ \A n \in DOMAIN executions :
          LET e == executions[n] IN
          /\ e.filters = tokens[e.token].row_filters
          /\ e.masked = tokens[e.token].masked

\* A granted brand-tagged asset has a tag in the user's brand scope.
LEMMA GrantedSharesBrand ==
  ASSUME NEW user, NEW agent, NEW aid, NEW asset, NEW right, NEW consents,
         ResolveAccess(user, agent, aid, asset, right, consents) = "granted",
         asset.brand_tags # {}
  PROVE  asset.brand_tags \cap user.brand_scope # {}
BY DEF ResolveAccess, Denied, MissesBrand

\* The filters of a granted request include a brand filter within the user's
\* scope as soon as one of its assets is brand-tagged.
LEMMA MergedBrandFilter ==
  ASSUME NEW session \in Sessions, NEW agent \in Agents, NEW ids \in AssetLists,
         NEW right, Grants(session, agent, ids, right),
         NEW i \in DOMAIN ids, assets[ids[i]].brand_tags # {}
  PROVE  LET M == MergedFilters(session.user, ids)
         IN  /\ "brand_filter" \in DOMAIN M
             /\ M["brand_filter"] # {}
             /\ M["brand_filter"] \subseteq session.user.brand_scope
<1> DEFINE Of(j) == DeriveRowFilters(session.user, assets[ids[j]])
           M == MergedFilters(session.user, ids)
<1>1. /\ \A j \in DOMAIN ids : DOMAIN Of(j) \subseteq DOMAIN M
      /\ \A k \in DOMAIN M : \E j \in DOMAIN ids :
             k \in DOMAIN Of(j) /\ M[k] = Of(j)[k]
  <2>1. ids \in Seq(AssetIds)
    OBVIOUS
  <2> QED BY <2>1, MergedFiltersFacts
<1>2. assets[ids[i]].brand_tags \cap session.user.brand_scope # {}
  BY GrantedSharesBrand DEF Grants, Access
<1>3. "brand_filter" \in DOMAIN Of(i)
  BY <1>2 DEF DeriveRowFilters, VisibleBrands, FilterKeys
<1>4. PICK j \in DOMAIN ids : /\ "brand_filter" \in DOMAIN Of(j)
                              /\ M["brand_filter"] = Of(j)["brand_filter"]
  <2> HIDE DEF M, Of
  <2> QED BY <1>1, <1>3
<1>5. /\ Of(j)["brand_filter"] =
             assets[ids[j]].brand_tags \cap session.user.brand_scope
      /\ Of(j)["brand_filter"] # {}
  BY <1>4 DEF DeriveRowFilters, VisibleBrands
<1> HIDE DEF Of
<1> QED BY <1>1, <1>3, <1>4, <1>5

\* A token that is issued is justified by its version, filtered and masked.
LEMMA IssuedTokenGrants ==
  ASSUME GrantInv, NEW id \in TokenIds, NEW session \in Sessions,
         NEW agent \in Agents, NEW query \in Queries, NEW ids \in AssetLists,
         NEW right \in Rights,
         RequestToken(id, session, agent, query, ids, right)
  PROVE  /\ DOMAIN tokens' = DOMAIN tokens \cup {id}
         /\ id \notin DOMAIN tokens
         /\ \A k \in DOMAIN tokens : tokens'[k] = tokens[k]
         /\ Justified(tokens'[id])
         /\ BrandFiltered(tokens'[id])
         /\ Masked(tokens'[id])
<1> DEFINE t == tokens'[id]
           content == [assets |-> assets, consent |-> consentState]
<1>1. /\ t.session = session
      /\ t.agent = agent
      /\ t.right = right
      /\ t.policy_version = policyVersion
      /\ t.row_filters = MergedFilters(session.user, ids)
      /\ t.masked = MergedMask(session.user, ids)
      /\ t.asset_ids = ids
  BY DEF RequestToken, Put
<1>2. policyVersion = content
  BY DEF GrantInv, ComputeVersion
<1>3. \A i \in DOMAIN ids :
         /\ AssetOf(t, i) = assets[ids[i]]
         /\ ids[i] \in DOMAIN assets
         /\ Access(content, session.user, agent, ids[i], right) = "granted"
         /\ ~TemplateRaises(assets[ids[i]])
  BY <1>1, <1>2 DEF RequestToken, Grants, AssetOf
<1>4. /\ DOMAIN tokens' = DOMAIN tokens \cup {id}
      /\ id \notin DOMAIN tokens
      /\ \A k \in DOMAIN tokens : tokens'[k] = tokens[k]
  BY DEF RequestToken, Put
<1>5. Grants(session, agent, ids, right)
  BY DEF RequestToken
<1> HIDE DEF t
<1>6. Justified(t)
  BY <1>1, <1>2, <1>3 DEF Justified
<1>7. BrandFiltered(t)
  BY <1>1, <1>3, <1>5, MergedBrandFilter DEF BrandFiltered
<1>8. Masked(t)
  BY <1>1, <1>3 DEF Masked, MergedMask, DeriveColumnMask
<1> QED BY <1>4, <1>6, <1>7, <1>8 DEF t

\* A step that issues no token and runs nothing keeps what tokens grant.
LEMMA OtherStepsKeepGrants ==
  ASSUME GrantInv, TypeOK', UNCHANGED <<tokens, executions>>,
         policyVersion' = ComputeVersion(assets', consentState')
  PROVE  GrantInv'
BY DEF GrantInv, Justified, BrandFiltered, Masked, AssetOf, TypeOK, ServerTypeOK

\* Every token is justified by its policy version, filtered by brand and
\* masked, and every query runs with the filters and the mask of its token.
THEOREM GrantInvariant == Spec => []GrantInv
<1>1. Init => GrantInv
  <2> SUFFICES ASSUME Init
               PROVE  GrantInv
    OBVIOUS
  <2>1. TypeOK
    BY DEF Init, CatalogInit, ResolverInit, TypeOK, CatalogTypeOK,
           ResolverTypeOK, ServerTypeOK
  <2>2. DOMAIN tokens = {} /\ DOMAIN executions = {}
    BY DEF Init, ResolverInit
  <2> QED BY <2>1, <2>2 DEF GrantInv, Init, CatalogInit
<1>2. GrantInv /\ TypeOK' /\ [Next]_vars => GrantInv'
  <2> SUFFICES ASSUME GrantInv, TypeOK', [Next]_vars
               PROVE  GrantInv'
    OBVIOUS
  <2>1. policyVersion = ComputeVersion(assets, consentState)
    BY DEF GrantInv
  <2>2. ASSUME NEW r \in Registrations, RegisterAsset(r[1], r[2]),
               UNCHANGED <<resolverVars, serverVars>>
        PROVE  GrantInv'
    BY <2>2, OtherStepsKeepGrants DEF RegisterAsset, resolverVars, serverVars
  <2>3. ASSUME NEW c \in ConsentRecords, RecordConsent(c[1], c[2], c[3]),
               UNCHANGED <<resolverVars, serverVars>>
        PROVE  GrantInv'
    BY <2>3, OtherStepsKeepGrants DEF RecordConsent, resolverVars, serverVars
  <2>4. ASSUME NEW id \in TokenIds, NEW session \in Sessions,
               NEW agent \in Agents, NEW query \in Queries,
               NEW ids \in AssetLists, NEW right \in Rights,
               RequestToken(id, session, agent, query, ids, right),
               UNCHANGED <<catalogVars, serverVars>>
        PROVE  GrantInv'
    <3>1. /\ DOMAIN tokens' = DOMAIN tokens \cup {id}
          /\ id \notin DOMAIN tokens
          /\ \A k \in DOMAIN tokens : tokens'[k] = tokens[k]
          /\ Justified(tokens'[id])
          /\ BrandFiltered(tokens'[id])
          /\ Masked(tokens'[id])
      BY <2>4, IssuedTokenGrants
    <3>2. \A k \in DOMAIN tokens' : /\ Justified(tokens'[k])
                                    /\ BrandFiltered(tokens'[k])
                                    /\ Masked(tokens'[k])
      <4> SUFFICES ASSUME NEW k \in DOMAIN tokens'
                   PROVE  /\ Justified(tokens'[k])
                          /\ BrandFiltered(tokens'[k])
                          /\ Masked(tokens'[k])
        OBVIOUS
      <4>1. CASE k = id
        BY <3>1, <4>1
      <4>2. CASE k # id
        <5>1. k \in DOMAIN tokens /\ tokens'[k] = tokens[k]
          BY <3>1, <4>2
        <5> QED BY <5>1 DEF GrantInv
      <4> QED BY <4>1, <4>2
    <3>3. \A n \in DOMAIN executions : executions[n].token \in DOMAIN tokens
      BY DEF GrantInv, TypeOK, ServerTypeOK
    <3> QED BY <2>1, <2>4, <3>1, <3>2, <3>3
            DEF GrantInv, catalogVars, serverVars
  <2>5. ASSUME NEW id \in DOMAIN tokens, RevokeToken(id),
               UNCHANGED <<catalogVars, serverVars>>
        PROVE  GrantInv'
    BY <2>1, <2>5, OtherStepsKeepGrants DEF RevokeToken, catalogVars, serverVars
  <2>6. ASSUME NEW sid \in SessionIds, RevokeSessionTokens(sid),
               UNCHANGED <<catalogVars, serverVars>>
        PROVE  GrantInv'
    BY <2>1, <2>6, OtherStepsKeepGrants
       DEF RevokeSessionTokens, catalogVars, serverVars
  <2>7. ASSUME Tick, UNCHANGED <<catalogVars, serverVars>>
        PROVE  GrantInv'
    BY <2>1, <2>7, OtherStepsKeepGrants DEF Tick, catalogVars, serverVars
  <2>8. ASSUME NEW id \in TokenIds, NEW query \in Queries, NEW agent \in Agents,
               HandleToolCall(id, query, agent.agent_id)
        PROVE  GrantInv'
    <3> DEFINE e == [token   |-> id,
                     filters |-> tokens[id].row_filters,
                     masked  |-> tokens[id].masked,
                     at      |-> clock]
    <3>1. executions' = Append(executions, e)
      BY <2>8 DEF HandleToolCall
    <3>2. executions \in Seq({executions[i] : i \in DOMAIN executions})
      BY DEF GrantInv, TypeOK, ServerTypeOK
    <3>3. \A n \in DOMAIN executions' :
             \/ executions'[n] = e
             \/ n \in DOMAIN executions /\ executions'[n] = executions[n]
      <4> HIDE DEF e
      <4> QED BY <3>1, <3>2, AppendFacts
    <3>4. UNCHANGED <<tokens, assets, consentState, policyVersion>>
      BY <2>8 DEF HandleToolCall, catalogVars, resolverVars
    <3>5. ASSUME NEW n \in DOMAIN executions'
          PROVE  LET x == executions'[n] IN
                 /\ x.filters = tokens[x.token].row_filters
                 /\ x.masked = tokens[x.token].masked
      BY <3>3 DEF GrantInv
    <3>6. \A k \in DOMAIN tokens' : /\ Justified(tokens'[k])
                                    /\ BrandFiltered(tokens'[k])
                                    /\ Masked(tokens'[k])
      BY <3>4 DEF GrantInv
    <3> QED BY <2>1, <3>4, <3>5, <3>6 DEF GrantInv
  <2>9. CASE UNCHANGED vars
    BY <2>1, <2>9, OtherStepsKeepGrants
       DEF vars, catalogVars, resolverVars, serverVars
  <2> QED BY <2>2, <2>3, <2>4, <2>5, <2>6, <2>7, <2>8, <2>9 DEF Next
<1> QED BY <1>1, <1>2, TypeCorrect, PTL DEF Spec

\* The policy version in a token names a catalog content that grants it.
THEOREM VersionsJustifyGrants == Spec => []VersionJustifiesGrant
<1>1. GrantInv => VersionJustifiesGrant
  BY DEF GrantInv, VersionJustifiesGrant, Justified, AssetOf
<1> QED BY <1>1, GrantInvariant, PTL

\* A query authorised for a brand-tagged asset runs with a brand filter that
\* lies within the user's brand scope.
THEOREM BrandsStayIsolated == Spec => []BrandIsolation
<1>1. GrantInv => BrandIsolation
  BY DEF GrantInv, TypeOK, ServerTypeOK, BrandIsolation, BrandFiltered
<1> QED BY <1>1, GrantInvariant, PTL

\* The PII columns of every asset of a token are hidden from a user below
\* RESTRICTED.
THEOREM PiiStaysMasked == Spec => []PiiMasked
<1>1. GrantInv => PiiMasked
  BY DEF GrantInv, TypeOK, ServerTypeOK, PiiMasked, Masked
<1> QED BY <1>1, GrantInvariant, PTL

----------------------------------------------------------------------------
(* Lifetimes                                                               *)

\* Truncating an instant to whole seconds loses less than one second.
LEMMA TruncationBounds ==
  ASSUME NEW t \in Nat
  PROVE  /\ Seconds(t) \in Nat
         /\ Seconds(t) * TicksPerSecond <= t
         /\ t < Seconds(t) * TicksPerSecond + TicksPerSecond
<1>1. TicksPerSecond \in Nat \ {0}
  OBVIOUS
<1> QED BY <1>1 DEF Seconds

\* The claims of each token are its issue and its expiry in whole seconds.
ClaimsInv ==
    /\ TypeOK
    /\ \A id \in DOMAIN tokens :
          /\ tokens[id].issued_at <= clock
          /\ tokens[id].iat = Seconds(tokens[id].issued_at)
          /\ tokens[id].exp = ExpClaim(tokens[id].issued_at)

LEMMA ClaimsInvariant == Spec => []ClaimsInv
<1>1. Init => ClaimsInv
  BY DEF Init, CatalogInit, ResolverInit, TypeOK, CatalogTypeOK,
         ResolverTypeOK, ServerTypeOK, ClaimsInv
<1>2. ClaimsInv /\ TypeOK' /\ [Next]_vars => ClaimsInv'
  <2> SUFFICES ASSUME ClaimsInv, TypeOK', [Next]_vars
               PROVE  ClaimsInv'
    OBVIOUS
  <2>1. clock \in Nat /\ \A k \in DOMAIN tokens : tokens[k].issued_at \in Nat
    BY DEF ClaimsInv, TypeOK, ResolverTypeOK, IsToken
  <2>2. ASSUME UNCHANGED tokens, clock' \in {clock, clock + 1}
        PROVE  ClaimsInv'
    BY <2>1, <2>2 DEF ClaimsInv, Seconds, ExpClaim
  <2>3. ASSUME NEW id, NEW session, NEW agent, NEW query, NEW ids, NEW right,
               RequestToken(id, session, agent, query, ids, right)
        PROVE  ClaimsInv'
    <3>1. clock' = clock /\ DOMAIN tokens' = DOMAIN tokens \cup {id}
      BY <2>3 DEF RequestToken, Put
    <3>2. /\ tokens'[id].issued_at = clock
          /\ tokens'[id].iat = Seconds(clock)
          /\ tokens'[id].exp = ExpClaim(clock)
      BY <2>3 DEF RequestToken, Put
    <3>3. \A k \in DOMAIN tokens : tokens'[k] = tokens[k]
      BY <2>3 DEF RequestToken, Put
    <3>4. ASSUME NEW k \in DOMAIN tokens'
          PROVE  /\ tokens'[k].issued_at <= clock'
                 /\ tokens'[k].iat = Seconds(tokens'[k].issued_at)
                 /\ tokens'[k].exp = ExpClaim(tokens'[k].issued_at)
      <4>1. CASE k = id
        BY <2>1, <3>1, <3>2, <4>1
      <4>2. CASE k # id
        BY <3>1, <3>3, <4>2 DEF ClaimsInv
      <4> QED BY <4>1, <4>2
    <3> QED BY <3>4 DEF ClaimsInv, Seconds, ExpClaim
  <2>4. \/ UNCHANGED tokens /\ clock' \in {clock, clock + 1}
        \/ \E id \in TokenIds, session \in Sessions, agent \in Agents,
              query \in Queries, ids \in AssetLists, right \in Rights :
                 RequestToken(id, session, agent, query, ids, right)
    BY DEF Next, vars, resolverVars, RevokeToken, RevokeSessionTokens, Tick,
           HandleToolCall
  <2> QED BY <2>2, <2>3, <2>4
<1> QED BY <1>1, <1>2, TypeCorrect, PTL DEF Spec

\* A token decodes only within proof_ttl_seconds of its issue, and for all but
\* at most the last second of them.
THEOREM LifetimesHold == Spec => []LifetimeWindow
<1>1. ASSUME ClaimsInv, NEW id \in DOMAIN tokens
      PROVE  LET t == tokens[id] IN
             /\ Decodes(t, clock) =>
                    clock < t.issued_at + ProofTtl * TicksPerSecond
             /\ clock <= t.issued_at + (ProofTtl - 1) * TicksPerSecond =>
                    Decodes(t, clock)
  <2> DEFINE n == tokens[id].issued_at
             span == ProofTtl * TicksPerSecond
             e == tokens[id].exp * TicksPerSecond
             i == tokens[id].iat * TicksPerSecond
  <2>1. n \in Nat /\ clock \in Nat /\ n <= clock
    BY <1>1 DEF ClaimsInv, TypeOK, ResolverTypeOK, IsToken
  <2>2. span \in Nat /\ (ProofTtl - 1) * TicksPerSecond = span - TicksPerSecond
    OBVIOUS
  <2>3. n + span \in Nat
    BY <2>1, <2>2
  <2>4. e \in Int /\ i \in Int
    <3>1. tokens[id].exp \in Nat /\ tokens[id].iat \in Nat
      BY <1>1 DEF ClaimsInv, TypeOK, ResolverTypeOK, IsToken
    <3> QED BY <3>1
  <2>5. e <= n + span /\ n + span < e + TicksPerSecond
    <3>1. tokens[id].exp = Seconds(n + span)
      BY <1>1 DEF ClaimsInv, ExpClaim
    <3> HIDE DEF n, span
    <3> QED BY <2>3, <3>1, TruncationBounds
  <2>6. i <= n
    <3>1. tokens[id].iat = Seconds(n)
      BY <1>1 DEF ClaimsInv
    <3> HIDE DEF n
    <3> QED BY <2>1, <3>1, TruncationBounds
  <2>7. Decodes(tokens[id], clock) <=> i <= clock /\ clock < e
    BY DEF Decodes
  <2> HIDE DEF n, span, e, i
  <2>8. Decodes(tokens[id], clock) => clock < n + span
    BY <2>1, <2>3, <2>4, <2>5, <2>7
  <2>9. clock <= n + (span - TicksPerSecond) => Decodes(tokens[id], clock)
    BY <2>1, <2>2, <2>3, <2>4, <2>5, <2>6, <2>7
  <2> QED BY <2>2, <2>8, <2>9 DEF n, span
<1>2. ClaimsInv => LifetimeWindow
  BY <1>1 DEF LifetimeWindow
<1> QED BY <1>2, ClaimsInvariant, PTL

----------------------------------------------------------------------------
(* The orchestrator's gate: its inductive invariant                        *)

USE OrchestratorAssumption

\* One round of the gate's loop, after which the list it had is f[n - 1].
KeepStep(f, n, ids, S) ==
    IF n = 0 THEN <<>>
    ELSE IF ids[n] \in S THEN Append(f[n - 1], ids[n])
    ELSE f[n - 1]

\* The first n rounds are described by a function.
LEMMA KeepDefined ==
  ASSUME NEW ids, Len(ids) \in Nat, NEW S
  PROVE  \E f : f = [n \in 0..Len(ids) |-> KeepStep(f, n, ids, S)]
<1> DEFINE Described(m) == \E f : f = [n \in 0..m |-> KeepStep(f, n, ids, S)]
           Bad == {m \in 0..Len(ids) : ~Described(m)}
<1>1. ASSUME Bad # {}
      PROVE  FALSE
  <2>1. PICK m \in Bad : \A k \in Bad : m <= k
    <3> DEFINE number == [k \in Bad |-> k]
    <3>1. \A k \in Bad : number[k] \in Nat
      OBVIOUS
    <3>2. \E m \in Bad : \A k \in Bad : number[m] <= number[k]
      <4> HIDE DEF Bad, number
      <4> QED BY <1>1, <3>1, LeastExists
    <3> HIDE DEF Bad
    <3> QED BY <3>2
  <2>2. m \in 0..Len(ids) /\ ~Described(m)
    OBVIOUS
  <2>3. m # 0
    <3>1. Described(0)
      <4> DEFINE f == [n \in 0..0 |-> <<>>]
      <4>1. f = [n \in 0..0 |-> KeepStep(f, n, ids, S)]
        BY DEF KeepStep
      <4> QED BY <4>1
    <3> HIDE DEF Described
    <3> QED BY <2>2, <3>1
  <2>4. Described(m - 1)
    <3> HIDE DEF Described
    <3>1. m - 1 \in 0..Len(ids) /\ ~(m <= m - 1)
      BY <2>2, <2>3
    <3> QED BY <2>1, <3>1
  <2>5. PICK g : g = [n \in 0..(m - 1) |-> KeepStep(g, n, ids, S)]
    BY <2>4
  <2> DEFINE f == [n \in 0..m |-> IF n = m THEN KeepStep(g, m, ids, S)
                                  ELSE g[n]]
  <2>6. ASSUME NEW n \in 0..m
        PROVE  f[n] = KeepStep(f, n, ids, S)
    <3>1. n # 0 => n - 1 \in 0..(m - 1) /\ f[n - 1] = g[n - 1]
      BY <2>2
    <3>2. KeepStep(f, n, ids, S) = KeepStep(g, n, ids, S)
      <4> HIDE DEF f
      <4> QED BY <3>1 DEF KeepStep
    <3>3. n # m => n \in 0..(m - 1) /\ f[n] = g[n]
      BY <2>2
    <3>4. n # m => f[n] = KeepStep(g, n, ids, S)
      BY <2>5, <3>3
    <3>5. n = m => f[n] = KeepStep(g, n, ids, S)
      OBVIOUS
    <3> HIDE DEF f
    <3> QED BY <3>2, <3>4, <3>5
  <2>7. f = [n \in 0..m |-> KeepStep(f, n, ids, S)]
    <3>1. f = [n \in 0..m |-> f[n]]
      OBVIOUS
    <3> HIDE DEF f
    <3> QED BY <2>6, <3>1
  <2>8. Described(m)
    BY <2>7
  <2> QED BY <2>2, <2>8
<1>2. Len(ids) \in 0..Len(ids) /\ Len(ids) \notin Bad
  BY <1>1
<1> QED BY <1>2

\* What the gate's loop keeps is a list of elements of S.
LEMMA KeepFacts ==
  ASSUME NEW A, NEW ids \in Seq(A), NEW S
  PROVE  Keep(ids, S) \in Seq(S)
<1> DEFINE Rounds(f) == f = [n \in 0..Len(ids) |-> KeepStep(f, n, ids, S)]
           kept == CHOOSE f : Rounds(f)
           Bad == {n \in 0..Len(ids) : kept[n] \notin Seq(S)}
<1>0. Len(ids) \in Nat
  OBVIOUS
<1>1. Keep(ids, S) = kept[Len(ids)]
  BY DEF Keep, KeepStep
<1>2. Rounds(kept)
  <2>1. \E f : Rounds(f)
    <3> HIDE DEF kept, Bad
    <3> QED BY ONLY <1>0, KeepDefined, Zenon
  <2> HIDE DEF Rounds
  <2> QED BY <2>1
<1>3. \A n \in 0..Len(ids) : kept[n] = KeepStep(kept, n, ids, S)
  <2> HIDE DEF kept
  <2> QED BY <1>2
<1> HIDE DEF kept, Rounds
<1>4. ASSUME Bad # {}
      PROVE  FALSE
  <2>1. PICK m \in Bad : \A k \in Bad : m <= k
    <3> DEFINE number == [k \in Bad |-> k]
    <3>1. \A k \in Bad : number[k] \in Nat
      BY <1>0
    <3>2. \E m \in Bad : \A k \in Bad : number[m] <= number[k]
      <4> HIDE DEF Bad, number
      <4> QED BY <1>4, <3>1, LeastExists
    <3> HIDE DEF Bad
    <3> QED BY <3>2
  <2>2. m \in 0..Len(ids) /\ kept[m] \notin Seq(S)
    OBVIOUS
  <2>3. m # 0
    <3>1. kept[0] = <<>>
      BY <1>0, <1>3 DEF KeepStep
    <3>2. <<>> \in Seq(S)
      OBVIOUS
    <3> QED BY <2>2, <3>1, <3>2
  <2>4. m - 1 \in 0..Len(ids) /\ ~(m <= m - 1)
    BY <1>0, <2>2, <2>3
  <2>5. kept[m - 1] \in Seq(S)
    BY <2>1, <2>4
  <2>6. kept[m] = IF ids[m] \in S THEN Append(kept[m - 1], ids[m])
                  ELSE kept[m - 1]
    BY <1>3, <2>2, <2>3 DEF KeepStep
  <2> QED BY <2>2, <2>5, <2>6
<1> QED BY <1>0, <1>1, <1>4

\* The version is a faithful record of the catalog.
VersionIsContent ==
    policyVersion = [assets |-> assets, consent |-> consentState]

\* Access to every asset of the decision is granted by the catalog content
\* the gate has seen, to the session and the agent it evaluated.
DecisionIsGranted ==
    decision # NoDecision =>
        \A i \in DOMAIN decision.allowed :
            /\ decision.allowed[i] \in DOMAIN seen.version.assets
            /\ Access(seen.version, seen.session.user, seen.agent,
                      decision.allowed[i], seen.right) = "granted"

\* The catalog's version is that of its content, and so was the one the gate
\* has seen.
GateInv ==
    /\ DOMAIN assets \subseteq AssetIds
    /\ VersionIsContent
    /\ DecisionIsGranted
    /\ OrchestratorTypeOK

\* What the gate allows is a list of assets that may be asked for.
LEMMA AllowedType ==
  ASSUME DOMAIN assets \subseteq AssetIds, NEW user, NEW agent,
         NEW ids \in AssetLists, NEW right
  PROVE  Allowed(user, agent, ids, right) \in AssetLists
<1> DEFINE S == {aid \in DOMAIN assets :
                    AccessNow(user, agent, aid, right) = "granted"}
<1>1. S \in SUBSET AssetIds
  OBVIOUS
<1> HIDE DEF S
<1>2. Keep(ids, S) \in AssetLists
  BY <1>1
<1> QED BY <1>2 DEF Allowed, S

\* Every asset the gate allows is one the catalog grants.
LEMMA AllowedIsGranted ==
  ASSUME NEW user, NEW agent, NEW ids \in AssetLists, NEW right,
         NEW i \in DOMAIN Allowed(user, agent, ids, right)
  PROVE  LET aid == Allowed(user, agent, ids, right)[i] IN
         /\ aid \in DOMAIN assets
         /\ AccessNow(user, agent, aid, right) = "granted"
<1> DEFINE S == {aid \in DOMAIN assets :
                    AccessNow(user, agent, aid, right) = "granted"}
           kept == Allowed(user, agent, ids, right)
<1>1. kept \in Seq(S)
  <2>1. ids \in Seq(AssetIds)
    BY DEF ResolverAssumption
  <2> HIDE DEF S
  <2>2. Keep(ids, S) \in Seq(S)
    BY <2>1, KeepFacts
  <2> QED BY <2>2 DEF Allowed, S
<1>2. kept[i] \in S
  <2> HIDE DEF S
  <2> QED BY <1>1
<1> QED BY <1>2

\* Registering an agent keeps the invariant.
LEMMA RegisterAgentKeepsGateInv ==
  ASSUME GateInv, NEW agent \in Agents, RegisterAgent(agent)
  PROVE  GateInv'
<1>1. UNCHANGED <<assets, consentState, policyVersion, decision, seen>>
  BY DEF RegisterAgent, vars, catalogVars, resolverVars
<1>2. /\ registeredAgents' \in [DOMAIN registeredAgents' -> Agents]
      /\ \A agentId \in DOMAIN registeredAgents' :
            registeredAgents'[agentId].agent_id = agentId
  BY DEF RegisterAgent, Put, GateInv, OrchestratorTypeOK
<1>3. VersionIsContent' /\ DecisionIsGranted'
  BY <1>1 DEF GateInv, VersionIsContent, DecisionIsGranted
<1> QED BY <1>1, <1>2, <1>3 DEF GateInv, OrchestratorTypeOK

\* An eligible decision is for a registered agent and known assets.
LEMMA GateKeepsGateInv ==
  ASSUME GateInv, NEW agentId, NEW session \in Sessions,
         NEW ids \in AssetLists, NEW right \in Rights,
         Gate(agentId, session, ids, right)
  PROVE  GateInv'
<1> DEFINE agent == registeredAgents[agentId]
           allowed == Allowed(session.user, agent, ids, right)
<1>1. agentId \in DOMAIN registeredAgents
  BY DEF Gate, Status
<1>2. agent \in Agents /\ agent.agent_id = agentId
  BY <1>1 DEF GateInv, OrchestratorTypeOK
<1>3. allowed \in AssetLists
  BY AllowedType DEF GateInv
<1>4. /\ decision' = [agent_id |-> agentId, allowed |-> allowed]
      /\ seen' = [session |-> session, agent |-> agent, right |-> right,
                  version |-> policyVersion]
      /\ UNCHANGED <<assets, consentState, policyVersion, registeredAgents>>
  BY DEF Gate, vars, catalogVars
<1>5. /\ decision'.agent_id = agentId
      /\ decision'.allowed = allowed
      /\ seen'.session = session
      /\ seen'.agent = agent
      /\ seen'.right = right
      /\ seen'.version = policyVersion
  <2> HIDE DEF agent, allowed
  <2> QED BY <1>4
<1>6. policyVersion = [assets |-> assets, consent |-> consentState]
  BY DEF GateInv, VersionIsContent
<1>7. \A i \in DOMAIN allowed :
          /\ allowed[i] \in DOMAIN policyVersion.assets
          /\ Access(policyVersion, session.user, agent, allowed[i], right)
                = "granted"
  <2> SUFFICES ASSUME NEW i \in DOMAIN allowed
               PROVE  /\ allowed[i] \in DOMAIN policyVersion.assets
                      /\ Access(policyVersion, session.user, agent, allowed[i],
                                right) = "granted"
    OBVIOUS
  <2>1. allowed[i] \in DOMAIN assets
        /\ AccessNow(session.user, agent, allowed[i], right) = "granted"
    BY AllowedIsGranted
  <2> HIDE DEF allowed, agent
  <2> QED BY <1>6, <2>1 DEF AccessNow
<1> HIDE DEF agent, allowed
<1>8. VersionIsContent' /\ DecisionIsGranted'
  BY <1>4, <1>5, <1>6, <1>7 DEF VersionIsContent, DecisionIsGranted
<1> QED BY <1>2, <1>3, <1>4, <1>5, <1>8 DEF GateInv, OrchestratorTypeOK

\* A step that leaves the orchestrator alone, a request for a token among
\* them, keeps the invariant, as long as the catalog's ids are known and its version is that
\* of its content: a decision keeps the version it was taken in.
LEMMA OtherStepsKeepGateInv ==
  ASSUME GateInv, UNCHANGED <<registeredAgents, decision, seen>>,
         DOMAIN assets' \subseteq AssetIds, VersionIsContent'
  PROVE  GateInv'
<1>1. DecisionIsGranted'
  BY DEF GateInv, DecisionIsGranted
<1> QED BY <1>1 DEF GateInv, OrchestratorTypeOK

\* A step that leaves the catalog alone leaves its version right.
LEMMA VersionStays ==
  ASSUME GateInv, UNCHANGED catalogVars
  PROVE  VersionIsContent'
BY DEF GateInv, VersionIsContent, catalogVars

\* The orchestrator's variables keep their types, and the assets of a decision
\* are those that the content the gate has seen grants.
THEOREM GateInvariant == OrchestratedSpec => []GateInv
<1>1. OrchestratedInit => GateInv
  BY DEF OrchestratedInit, Init, CatalogInit, ResolverInit, GateInv,
         OrchestratorTypeOK, VersionIsContent,
         ComputeVersion, DecisionIsGranted
<1>2. GateInv /\ [OrchestratedNext]_allVars => GateInv'
  <2> SUFFICES ASSUME GateInv, [OrchestratedNext]_allVars
               PROVE  GateInv'
    OBVIOUS
  <2>0. DOMAIN assets \subseteq AssetIds
    BY DEF GateInv
  <2>1. ASSUME NEW agent \in Agents, RegisterAgent(agent)
        PROVE  GateInv'
    BY <2>1, RegisterAgentKeepsGateInv
  <2>2. ASSUME NEW agent \in Agents, NEW session \in Sessions,
               NEW ids \in AssetLists, NEW right \in Rights,
               Gate(agent.agent_id, session, ids, right)
        PROVE  GateInv'
    BY <2>2, GateKeepsGateInv
  <2>3. ASSUME NEW id \in TokenIds, NEW session \in Sessions,
               NEW agent \in Agents, NEW query \in Queries,
               NEW right \in Rights, Dispatch(id, session, agent, query, right)
        PROVE  GateInv'
    BY <2>0, <2>3, VersionStays, OtherStepsKeepGateInv
       DEF Dispatch, catalogVars, orchestratorVars
  <2>4. ASSUME NEW r \in Registrations, RegisterAsset(r[1], r[2]),
               UNCHANGED <<resolverVars, serverVars, orchestratorVars>>
        PROVE  GateInv'
    <3>1. DOMAIN assets' = DOMAIN assets \cup {r[1]}
      BY <2>4 DEF RegisterAsset, Put
    <3>2. VersionIsContent'
      BY <2>4 DEF RegisterAsset, ComputeVersion, VersionIsContent
    <3> QED BY <2>0, <2>4, <3>1, <3>2, OtherStepsKeepGateInv
            DEF resolverVars, orchestratorVars
  <2>5. ASSUME NEW c \in ConsentRecords, RecordConsent(c[1], c[2], c[3]),
               UNCHANGED <<resolverVars, serverVars, orchestratorVars>>
        PROVE  GateInv'
    <3>1. VersionIsContent'
      BY <2>5 DEF RecordConsent, ComputeVersion, VersionIsContent
    <3> QED BY <2>0, <2>5, <3>1, OtherStepsKeepGateInv
            DEF RecordConsent, resolverVars, orchestratorVars
  <2>6. ASSUME NEW id \in DOMAIN tokens, RevokeToken(id),
               UNCHANGED <<catalogVars, serverVars, orchestratorVars>>
        PROVE  GateInv'
    BY <2>0, <2>6, VersionStays, OtherStepsKeepGateInv
       DEF RevokeToken, catalogVars, orchestratorVars
  <2>7. ASSUME NEW sid \in SessionIds, RevokeSessionTokens(sid),
               UNCHANGED <<catalogVars, serverVars, orchestratorVars>>
        PROVE  GateInv'
    BY <2>0, <2>7, VersionStays, OtherStepsKeepGateInv
       DEF RevokeSessionTokens, catalogVars, orchestratorVars
  <2>8. ASSUME Tick, UNCHANGED <<catalogVars, serverVars, orchestratorVars>>
        PROVE  GateInv'
    BY <2>0, <2>8, VersionStays, OtherStepsKeepGateInv DEF Tick, catalogVars, orchestratorVars
  <2>9. ASSUME NEW id \in TokenIds, NEW query \in Queries, NEW agent \in Agents,
               HandleToolCall(id, query, agent.agent_id),
               UNCHANGED orchestratorVars
        PROVE  GateInv'
    BY <2>0, <2>9, VersionStays, OtherStepsKeepGateInv
       DEF HandleToolCall, catalogVars, resolverVars, orchestratorVars
  <2>10. CASE UNCHANGED allVars
    BY <2>0, <2>10, VersionStays, OtherStepsKeepGateInv
       DEF allVars, vars, catalogVars, resolverVars, orchestratorVars
  <2> QED BY <2>1, <2>2, <2>3, <2>4, <2>5, <2>6, <2>7, <2>8, <2>9, <2>10
          DEF OrchestratedNext
<1> QED BY <1>1, <1>2, PTL DEF OrchestratedSpec

\* The gate and the resolver agree: as long as the version is the one the gate
\* has seen, request_token grants the whole list of the decision to the session
\* and the agent context that the gate evaluated, unless a row filter template
\* raises.
THEOREM GateAgrees == OrchestratedSpec => []GateAgreesWithResolver
<1>1. GateInv => GateAgreesWithResolver
  <2> SUFFICES ASSUME GateInv, decision # NoDecision,
                      seen.version = policyVersion,
                      NEW i \in DOMAIN decision.allowed
               PROVE  /\ decision.allowed[i] \in DOMAIN assets
                      /\ Access([assets |-> assets, consent |-> consentState],
                                seen.session.user, seen.agent,
                                decision.allowed[i], seen.right)
                            = "granted"
    BY DEF GateAgreesWithResolver, Grants
  <2>1. seen.version = [assets |-> assets, consent |-> consentState]
    BY DEF GateInv, VersionIsContent
  <2> QED BY <2>1 DEF GateInv, DecisionIsGranted
<1> QED BY <1>1, GateInvariant, PTL

----------------------------------------------------------------------------
(* The gate in front of the server                                         *)

\* Every step behind the gate is a step, or a stutter, of the server alone.
LEMMA OrchestratedStep ==
  ASSUME GateInv, [OrchestratedNext]_allVars
  PROVE  [Next]_vars
<1>1. ASSUME NEW agent \in Agents, RegisterAgent(agent)
      PROVE  UNCHANGED vars
  BY <1>1 DEF RegisterAgent
<1>2. ASSUME NEW agent \in Agents, NEW session \in Sessions,
             NEW ids \in AssetLists, NEW right \in Rights,
             Gate(agent.agent_id, session, ids, right)
      PROVE  UNCHANGED vars
  BY <1>2 DEF Gate
<1>3. ASSUME NEW id \in TokenIds, NEW session \in Sessions,
             NEW agent \in Agents, NEW query \in Queries, NEW right \in Rights,
             Dispatch(id, session, agent, query, right)
      PROVE  Next
  <2>1. decision.allowed \in AssetLists
    BY <1>3 DEF Dispatch, GateInv, OrchestratorTypeOK
  <2>2. /\ RequestToken(id, session, agent, query, decision.allowed, right)
        /\ UNCHANGED <<catalogVars, serverVars>>
    BY <1>3 DEF Dispatch
  <2> QED BY <2>1, <2>2 DEF Next
<1>4. ASSUME NEW id \in TokenIds, NEW query \in Queries, NEW agent \in Agents,
             HandleToolCall(id, query, agent.agent_id)
      PROVE  Next
  BY <1>4 DEF Next
<1>5. CASE UNCHANGED allVars
  BY <1>5 DEF allVars
<1>6. \/ UNCHANGED allVars
      \/ UNCHANGED vars
      \/ Next
  <2>1. CASE OrchestratedNext
    BY <1>1, <1>2, <1>3, <1>4, <2>1 DEF OrchestratedNext, Next
  <2> QED BY <2>1
<1> QED BY <1>5, <1>6

\* The orchestrated system implements the server's specification: whatever
\* holds of every caller of request_token holds of the callers behind the gate.
THEOREM OrchestratedImplementsServer == OrchestratedSpec => Spec
<1>1. OrchestratedInit => Init
  BY DEF OrchestratedInit
<1> QED BY <1>1, OrchestratedStep, GateInvariant, PTL DEF OrchestratedSpec, Spec

\* So behind the gate the types are kept, every token is granted by the policy
\* it names, and brand filters and PII masks are applied to every query.
THEOREM OrchestratedGrants ==
  OrchestratedSpec => []TypeOK /\ []VersionJustifiesGrant
                        /\ []BrandIsolation /\ []PiiMasked
BY OrchestratedImplementsServer, TypeCorrect, VersionsJustifyGrants,
   BrandsStayIsolated, PiiStaysMasked, PTL

=============================================================================
