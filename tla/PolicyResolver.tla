--------------------------- MODULE PolicyResolver ---------------------------
(***************************************************************************)
(* PolicyResolver (policy_resolver/resolver.py) on top of the catalog: it  *)
(* issues signed access tokens, verifies them and revokes them.  Time is a *)
(* count of ticks, TicksPerSecond of them to the second: the JWT carries   *)
(* whole seconds, the clock is read at full resolution.                    *)
(***************************************************************************)
EXTENDS DataCatalog, FiniteSetsExt, Sequences

CONSTANTS
    Sessions,         \* the SessionContexts callers hold
    Agents,           \* the AgentContexts callers name
    Queries,          \* query texts
    Canonical,        \* query text -> the text canonicalize_query makes of it
    AssetLists,       \* the asset_ids arguments of request_token
    TokenIds,         \* uuid4 values
    ProofTtl,         \* proof_ttl_seconds
    TicksPerSecond,
    Horizon           \* bound: the clock stops here

SessionIds     == {s.session_id : s \in Sessions}
SessionContext == [session_id : SessionIds, user : UserContext]

ASSUME ResolverAssumption ==
    /\ Sessions \subseteq SessionContext
    /\ Agents \subseteq AgentContext
    /\ Canonical \in [Queries -> Queries]
    /\ \A q \in Queries : Canonical[Canonical[q]] = Canonical[q]
    /\ AssetLists \subseteq Seq(AssetIds)
    /\ ProofTtl \in Nat
    /\ TicksPerSecond \in Nat \ {0}
    /\ Horizon \in Nat

VARIABLES
    clock,
    tokens,           \* token_id -> what was issued, on the issued ids
    revokedProofs,
    revokedSessions,
    proofSessionIndex

resolverVars == <<clock, tokens, revokedProofs, revokedSessions,
                  proofSessionIndex>>

\* A signed token: the claims of the JWT and the issued_at of the object.
IsToken(t) ==
    /\ t = [session |-> t.session, agent |-> t.agent, right |-> t.right,
            query_hash |-> t.query_hash, policy_version |-> t.policy_version,
            row_filters |-> t.row_filters, masked |-> t.masked,
            asset_ids |-> t.asset_ids, issued_at |-> t.issued_at,
            iat |-> t.iat, exp |-> t.exp]
    /\ t.session \in Sessions
    /\ t.agent \in Agents
    /\ t.query_hash \in Queries
    /\ IsFilterMap(t.row_filters)
    /\ t.masked \in SUBSET Columns
    /\ t.asset_ids \in AssetLists
    /\ t.issued_at \in Nat
    /\ t.iat \in Nat
    /\ t.exp \in Nat

ResolverTypeOK ==
    /\ clock \in Nat
    /\ DOMAIN tokens \subseteq TokenIds
    /\ tokens \in [DOMAIN tokens -> {tokens[id] : id \in DOMAIN tokens}]
    /\ \A id \in DOMAIN tokens : IsToken(tokens[id])
    /\ revokedProofs \subseteq TokenIds
    /\ revokedSessions \subseteq SessionIds
    /\ proofSessionIndex \in [DOMAIN tokens -> SessionIds]

ResolverInit ==
    /\ clock = 0
    /\ tokens = [id \in {} |-> {}]
    /\ revokedProofs = {}
    /\ revokedSessions = {}
    /\ proofSessionIndex = [id \in {} |-> {}]

----------------------------------------------------------------------------
(* request_token                                                           *)

\* The loop over asset_ids ends without an exception.
Grants(session, agent, ids, right) ==
    \A i \in DOMAIN ids :
        /\ ids[i] \in DOMAIN assets
        /\ Access([assets |-> assets, consent |-> consentState],
                  session.user, agent, ids[i], right) = "granted"
        /\ ~TemplateRaises(assets[ids[i]])

\* all_filters.update(filters), asset by asset: the last one to set a key wins.
MergedFilters(user, ids) ==
    LET Of(i)     == DeriveRowFilters(user, assets[ids[i]])
        setters(k) == {i \in DOMAIN ids : k \in DOMAIN Of(i)}
    IN  [k \in {k \in FilterKeys : setters(k) # {}} |-> Of(Max(setters(k)))[k]]

\* Mutant: the mask of the last asset replaces those before it.
LastMaskOnly(user, ids) ==
    IF ids = <<>> THEN {} ELSE DeriveColumnMask(user, assets[ids[Len(ids)]])

MergedMask(user, ids) ==
    UNION {DeriveColumnMask(user, assets[ids[i]]) : i \in DOMAIN ids}

\* int(timestamp()): whole seconds.
Seconds(ticks) == ticks \div TicksPerSecond

\* Mutant: the expiry is rounded up to the next second.
ExpClaimRoundsUp(now) ==
    (now + ProofTtl * TicksPerSecond + TicksPerSecond - 1) \div TicksPerSecond

\* The exp claim of a token issued at now.
ExpClaim(now) == Seconds(now + ProofTtl * TicksPerSecond)

\* A request that some check refuses raises and changes nothing.  Revoked
\* sessions and the agent's own clearance are not looked at.
RequestToken(id, session, agent, query, ids, right) ==
    /\ id \notin DOMAIN tokens
    /\ Grants(session, agent, ids, right)
    /\ tokens' = Put(tokens, id,
           [session        |-> session,
            agent          |-> agent,
            right          |-> right,
            query_hash     |-> Canonical[query],
            policy_version |-> policyVersion,
            row_filters    |-> MergedFilters(session.user, ids),
            masked         |-> MergedMask(session.user, ids),
            asset_ids      |-> ids,
            issued_at      |-> clock,
            iat            |-> Seconds(clock),
            exp            |-> ExpClaim(clock)])
    /\ proofSessionIndex' = Put(proofSessionIndex, id, session.session_id)
    /\ UNCHANGED <<clock, revokedProofs, revokedSessions>>

----------------------------------------------------------------------------
(* verify_token                                                            *)

\* jwt.decode on a token this resolver signed: "exp" must lie in the future
\* and "iat" must not.
Decodes(t, now) ==
    /\ t.iat * TicksPerSecond <= now
    /\ now < t.exp * TicksPerSecond

Revoked(id) ==
    \/ id \in revokedProofs
    \/ tokens[id].session.session_id \in revokedSessions

\* Mutant: the revocation lists are not read.
VerifiesRevoked(id, query, claimingAgentId) ==
    /\ id \in DOMAIN tokens
    /\ Decodes(tokens[id], clock)
    /\ tokens[id].agent.agent_id = claimingAgentId
    /\ tokens[id].query_hash = Canonical[query]

\* verify_token returns instead of raising.  The policy version in the token
\* is not compared with the catalog's.
Verifies(id, query, claimingAgentId) ==
    /\ id \in DOMAIN tokens
    /\ Decodes(tokens[id], clock)
    /\ ~Revoked(id)
    /\ tokens[id].agent.agent_id = claimingAgentId
    /\ tokens[id].query_hash = Canonical[query]

----------------------------------------------------------------------------
(* revoke_token and revoke_session_tokens                                  *)

\* Mutant: the session is put among the revoked tokens.
RevokeTokenOfSession(id) ==
    /\ revokedProofs' = revokedProofs \cup {proofSessionIndex[id]}
    /\ UNCHANGED <<clock, tokens, revokedSessions, proofSessionIndex>>

RevokeToken(id) ==
    /\ revokedProofs' = revokedProofs \cup {id}
    /\ UNCHANGED <<clock, tokens, revokedSessions, proofSessionIndex>>

RevokeSessionTokens(sid) ==
    /\ revokedSessions' = revokedSessions \cup {sid}
    /\ UNCHANGED <<clock, tokens, revokedProofs, proofSessionIndex>>

Tick ==
    /\ clock < Horizon
    /\ clock' = clock + 1
    /\ UNCHANGED <<tokens, revokedProofs, revokedSessions, proofSessionIndex>>

=============================================================================
