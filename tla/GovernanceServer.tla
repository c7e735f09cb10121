-------------------------- MODULE GovernanceServer --------------------------
(***************************************************************************)
(* MCPGovernanceServer (mcp_server/governance_server.py) in front of the   *)
(* policy resolver: a call that carries a token is verified, checked       *)
(* against the replay cache, recorded in it and run with the filters and   *)
(* the mask of the token.  The class is called in process, one call at a   *)
(* time.  A call without a token is rejected, or run as it is in dev mode; *)
(* either way it leaves the state below alone.                             *)
(***************************************************************************)
EXTENDS PolicyResolver

CONSTANTS
    MaxReplayCacheSize,    \* max_replay_cache_size
    MaxExecutions          \* bound: length of the history below

ASSUME ServerAssumption ==
    /\ MaxReplayCacheSize \in Nat \ {0}
    /\ MaxExecutions \in Nat
    /\ IsFiniteSet(TokenIds)

VARIABLES
    usedTokenIds,   \* token_id -> [exp, pos]: a dictionary keeps the order of
                    \* insertion, here the number pos of the inserting call
    executions      \* history: the queries run against the data source

serverVars == <<usedTokenIds, executions>>
vars == <<catalogVars, resolverVars, serverVars>>

ServerTypeOK ==
    /\ DOMAIN usedTokenIds \subseteq DOMAIN tokens
    /\ usedTokenIds \in [DOMAIN usedTokenIds -> [exp : Nat, pos : Nat]]
    /\ executions \in Seq({executions[i] : i \in DOMAIN executions})
    /\ \A i \in DOMAIN executions :
          /\ executions[i].token \in DOMAIN tokens
          /\ executions[i].at \in Nat

\* Type invariant: every variable of the catalog, the resolver and the server
\* holds what the classes declare for it.
TypeOK == CatalogTypeOK /\ ResolverTypeOK /\ ServerTypeOK

----------------------------------------------------------------------------
(* _record_proof_use                                                       *)

Unexpired(used, now) ==
    {id \in DOMAIN used : used[id].exp * TicksPerSecond > now}

\* The n entries inserted first.
Oldest(used, n) ==
    {id \in DOMAIN used :
        Cardinality({o \in DOMAIN used : used[o].pos < used[id].pos}) < n}

\* The n entries inserted last.
Newest(used, n) ==
    {id \in DOMAIN used :
        Cardinality({o \in DOMAIN used : used[o].pos > used[id].pos}) < n}

\* Mutant: the cache evicts from its young end.
EvictNewest(used) ==
    IF Cardinality(DOMAIN used) < MaxReplayCacheSize THEN used
    ELSE Restrict(used, DOMAIN used \
             Newest(used, Cardinality(DOMAIN used) - MaxReplayCacheSize + 1))

\* Mutant: eviction leaves the cache full, and the insertion overfills it.
EvictOneShort(used) ==
    IF Cardinality(DOMAIN used) < MaxReplayCacheSize THEN used
    ELSE Restrict(used, DOMAIN used \
             Oldest(used, Cardinality(DOMAIN used) - MaxReplayCacheSize))

EvictToCapacity(used) ==
    IF Cardinality(DOMAIN used) < MaxReplayCacheSize THEN used
    ELSE Restrict(used, DOMAIN used \
             Oldest(used, Cardinality(DOMAIN used) - MaxReplayCacheSize + 1))

RecordProofUse(id) ==
    LET fresh == Restrict(usedTokenIds, Unexpired(usedTokenIds, clock))
    IN  usedTokenIds' = Put(EvictToCapacity(fresh), id,
                            [exp |-> tokens[id].exp,
                             pos |-> Len(executions) + 1])

----------------------------------------------------------------------------
(* handle_tool_call                                                        *)

\* _execute_governed past its early returns: a token that fails to verify or
\* is in the replay cache is refused and nothing changes.
HandleToolCall(id, query, agentId) ==
    /\ Len(executions) < MaxExecutions
    /\ Verifies(id, query, agentId)
    /\ id \notin DOMAIN usedTokenIds
    /\ RecordProofUse(id)
    /\ executions' = Append(executions,
           [token   |-> id,
            filters |-> tokens[id].row_filters,
            masked  |-> tokens[id].masked,
            at      |-> clock])
    /\ UNCHANGED <<catalogVars, resolverVars>>

Init ==
    /\ CatalogInit
    /\ ResolverInit
    /\ usedTokenIds = [id \in {} |-> {}]
    /\ executions = <<>>

Next ==
    \/ \E r \in Registrations :
          RegisterAsset(r[1], r[2]) /\ UNCHANGED <<resolverVars, serverVars>>
    \/ \E c \in ConsentRecords :
          RecordConsent(c[1], c[2], c[3])
          /\ UNCHANGED <<resolverVars, serverVars>>
    \/ \E id \in TokenIds, session \in Sessions, agent \in Agents,
          query \in Queries, ids \in AssetLists, right \in Rights :
             RequestToken(id, session, agent, query, ids, right)
             /\ UNCHANGED <<catalogVars, serverVars>>
    \/ \E id \in DOMAIN tokens :
          RevokeToken(id) /\ UNCHANGED <<catalogVars, serverVars>>
    \/ \E sid \in SessionIds :
          RevokeSessionTokens(sid) /\ UNCHANGED <<catalogVars, serverVars>>
    \/ Tick /\ UNCHANGED <<catalogVars, serverVars>>
    \/ \E id \in TokenIds, query \in Queries, agent \in Agents :
          HandleToolCall(id, query, agent.agent_id)

Spec == Init /\ [][Next]_vars

----------------------------------------------------------------------------
(* Properties                                                              *)

\* The policy version in a token names the catalog content that grants it:
\* under that content every asset of the token is registered, accessible to
\* the token's user and agent, and has a row filter that can be derived
\* (request_token reads the version after its access checks, and every
\* catalog write recomputes it).
VersionJustifiesGrant ==
    \A id \in DOMAIN tokens :
        LET t == tokens[id] IN
        \A i \in DOMAIN t.asset_ids :
            /\ t.asset_ids[i] \in DOMAIN t.policy_version.assets
            /\ Access(t.policy_version, t.session.user, t.agent,
                      t.asset_ids[i], t.right) = "granted"
            /\ ~TemplateRaises(t.policy_version.assets[t.asset_ids[i]])

\* The definition of the i-th asset of a token when it was issued.
AssetOf(t, i) == t.policy_version.assets[t.asset_ids[i]]

\* Brand isolation: a query that was authorised for a brand-tagged asset runs
\* with a brand filter, and the filter names only brands in the user's scope,
\* whatever other assets the token is for (derive_row_filters, merged by
\* request_token, applied by the server).
BrandIsolation ==
    \A n \in DOMAIN executions :
        LET e == executions[n]
            t == tokens[e.token]
        IN  (\E i \in DOMAIN t.asset_ids : AssetOf(t, i).brand_tags # {}) =>
                /\ "brand_filter" \in DOMAIN e.filters
                /\ e.filters["brand_filter"] # {}
                /\ e.filters["brand_filter"] \subseteq
                       t.session.user.brand_scope

\* PII masking: the result of a query hides the PII columns of every asset of
\* its token from a user below RESTRICTED (derive_column_mask, collected by
\* request_token, removed by the server).
PiiMasked ==
    \A n \in DOMAIN executions :
        LET e == executions[n]
            t == tokens[e.token]
        IN  t.session.user.clearance_level < RESTRICTED =>
                \A i \in DOMAIN t.asset_ids :
                    AssetOf(t, i).pii_columns \subseteq e.masked

\* Lifetime: a token decodes only within proof_ttl_seconds of its issue, and
\* the seconds lost by truncating exp never cost it more than one second.
LifetimeWindow ==
    \A id \in DOMAIN tokens :
        LET t == tokens[id] IN
        /\ Decodes(t, clock) => clock < t.issued_at + ProofTtl * TicksPerSecond
        /\ clock <= t.issued_at + (ProofTtl - 1) * TicksPerSecond =>
               Decodes(t, clock)

\* Capacity: the replay cache never holds more than max_replay_cache_size
\* tokens, however many run and expire.
ReplayCacheBounded ==
    Cardinality(DOMAIN usedTokenIds) <= MaxReplayCacheSize

\* Memory: a token that ran and has not expired is in the replay cache, unless
\* max_replay_cache_size runs of other tokens have followed (eviction takes
\* the oldest entry, and an entry outlives its token's expiry).
ReplayMemory ==
    \A n \in DOMAIN executions :
        LET id == executions[n].token IN
        clock < tokens[id].exp * TicksPerSecond =>
            \/ id \in DOMAIN usedTokenIds /\ usedTokenIds[id].pos >= n
            \/ Len(executions) - n >= MaxReplayCacheSize

----------------------------------------------------------------------------
(* Refinement                                                              *)

LiveTokens ==
    {id \in DOMAIN tokens :
        ~Revoked(id) /\ clock < tokens[id].exp * TicksPerSecond}

Lifecycle == INSTANCE TokenLifecycle WITH
    Window <- MaxReplayCacheSize,
    live   <- LiveTokens,
    closed <- DOMAIN tokens \ LiveTokens,
    served <- [n \in DOMAIN executions |-> executions[n].token]

\* The server and the resolver implement the token lifecycle: a token that
\* expired, was revoked, or belongs to a revoked session never runs (again),
\* and one that ran is refused until max_replay_cache_size other runs have
\* followed.
ImplementsLifecycle == Lifecycle!LifecycleSpec

----------------------------------------------------------------------------
(* Claims of the documentation                                             *)

\* "Single-use" (core/models.py): no token runs twice.  It holds while the
\* replay cache has room for every token, and only then.
SingleUse ==
    \A m, n \in DOMAIN executions :
        executions[m].token = executions[n].token => m = n

\* Every asset of a token contributes its row filter template to the query:
\* the code keeps the last one.
RowTemplatesKept ==
    \A n \in DOMAIN executions :
        LET t == tokens[executions[n].token] IN
        \A i \in DOMAIN t.asset_ids :
            AssetOf(t, i).row_filter_template # NoTemplate =>
                /\ "row_template_filter" \in DOMAIN executions[n].filters
                /\ executions[n].filters["row_template_filter"].template =
                       AssetOf(t, i).row_filter_template

=============================================================================
