----------------------------- MODULE AuthGateway -----------------------------
(***************************************************************************)
(* EntraAuthGateway (auth/entra_integration.py) and EntraClaimMapper       *)
(* (auth/claim_mapper.py) behind the token validator: the claims of an     *)
(* accepted token become the user of a session, in full for a user's own   *)
(* token and with nothing but the identity for one obtained on behalf of   *)
(* the user.  The sessions are those that the policy resolver is given.    *)
(***************************************************************************)
EXTENDS TokenValidator, AccessPolicy, FiniteSetsExt

CONSTANTS
    BrandGroupMap,    \* brand_group_map: group -> brands
    ClearanceRoleMap, \* clearance_role_map: role -> level or NoLevel
    NoLevel,          \* a value of the map that is no SensitivityLevel
    Groups, Roles,
    NoUser,           \* oid and sub are empty, or not there
    NoOverride,       \* override_brand_scope = None
    Overrides,        \* the values given for it
    Agents, TheAssets,
    MaxSessions       \* bound: sessions after which no call begins

\* The claims that the code reads: oid is the oid or else the sub claim.
\* overage is "_claim_names" with "groups" in it.
Shape == [oid : UserIds \cup {NoUser}, app : BOOLEAN, groups : SUBSET Groups,
          overage : BOOLEAN, roles : SUBSET Roles, tid : {Tenant, "other"},
          aud : {Audience, "other"}]

ASSUME GatewayAssumption ==
    /\ Shapes \subseteq Shape
    /\ BrandGroupMap \in [DOMAIN BrandGroupMap -> SUBSET Brands]
    /\ ClearanceRoleMap \in
           [DOMAIN ClearanceRoleMap -> SensitivityLevel \cup {NoLevel}]
    /\ Overrides \subseteq SUBSET Brands
    /\ NoOverride \notin Overrides
    /\ NoUser \notin UserIds
    /\ Agents \subseteq AgentContext
    /\ TheAssets \subseteq DataAsset
    /\ MaxSessions \in Nat

VARIABLES
    sessions,         \* the sessions established, with the claims they come from
    waiting           \* what the gateway does with the claims it waits for

gatewayVars == <<sessions, waiting>>
vars == <<validatorVars, gatewayVars>>

----------------------------------------------------------------------------
(* EntraClaimMapper                                                        *)

ResolveBrandScope(claims) ==
    IF claims.overage THEN {}
    ELSE UNION {BrandGroupMap[g] : g \in claims.groups \cap DOMAIN BrandGroupMap}

\* Mutant: a value that is no level is taken for one.
AnyValueIsALevel(claims) ==
    Max({INTERNAL} \cup
        {ClearanceRoleMap[r] : r \in claims.roles \cap DOMAIN ClearanceRoleMap})

\* Levels below INTERNAL and values that are none are ignored.
ResolveClearanceLevel(claims) ==
    Max({INTERNAL} \cup
        ({ClearanceRoleMap[r] : r \in claims.roles \cap DOMAIN ClearanceRoleMap}
            \ {NoLevel}))

\* An app-only token has no oid or says so in idtyp.
AppOnly(claims) == claims.app

\* A ValueError of to_user_context, or of UserContext, otherwise.
NamesUser(claims) == claims.oid # NoUser

ToUserContext(claims, override) ==
    [user_id         |-> claims.oid,
     brand_scope     |-> IF override = NoOverride
                         THEN ResolveBrandScope(claims) ELSE override,
     clearance_level |-> ResolveClearanceLevel(claims)]

\* Mutant: delegated claims are mapped like the user's own.
OboMappedInFull(claims) == ToUserContext(claims, NoOverride)

\* The user of an on-behalf-of session, after apply_obo_constraints.
OboContext(claims) ==
    [user_id |-> claims.oid, brand_scope |-> {}, clearance_level |-> INTERNAL]

----------------------------------------------------------------------------
(* authenticate_request and authenticate_obo_request                       *)

Nobody == [kind |-> "nobody"]

\* The gateway hands the header to the validator.
Authenticate(token, override) ==
    /\ Begin(token) \/ ValidateTest(token)
    /\ waiting' = [kind |-> "full", override |-> override]
    /\ UNCHANGED sessions

AuthenticateObo(token) ==
    /\ Begin(token) \/ ValidateTest(token)
    /\ waiting' = [kind |-> "obo", override |-> NoOverride]
    /\ UNCHANGED sessions

\* get_claims: the caller is given the claims and no session.
GetClaims(token) ==
    /\ Begin(token) \/ ValidateTest(token)
    /\ waiting' = Nobody
    /\ UNCHANGED sessions

Establish(user) ==
    /\ sessions' = sessions \cup
           {[user |-> user, via |-> waiting, claims |-> call.token.shape]}
    /\ call' = Idle
    /\ waiting' = Nobody
    /\ UNCHANGED <<worldVars, client>>

EstablishFull ==
    /\ call.pc = "accepted"
    /\ waiting.kind = "full"
    /\ ~AppOnly(call.token.shape) /\ NamesUser(call.token.shape)
    /\ Establish(ToUserContext(call.token.shape, waiting.override))

\* Nothing looks whether the token is a delegated one, or a user's at all.
EstablishObo ==
    /\ call.pc = "accepted"
    /\ waiting.kind = "obo"
    /\ NamesUser(call.token.shape)
    /\ Establish(OboContext(call.token.shape))

\* The call raises, or gives claims and no session.
Return ==
    /\ \/ call.pc \in Outcomes \ {"accepted"}
       \/ call.pc = "accepted" /\ waiting.kind = "nobody"
       \/ call.pc = "accepted" /\ ~NamesUser(call.token.shape)
       \/ /\ call.pc = "accepted"
          /\ waiting.kind = "full"
          /\ AppOnly(call.token.shape)
    /\ call' = Idle
    /\ waiting' = Nobody
    /\ UNCHANGED <<worldVars, client, sessions>>

----------------------------------------------------------------------------

Init ==
    /\ ValidatorInit
    /\ sessions = {}
    /\ waiting = Nobody

CallStep ==
    /\ Cardinality(sessions) < MaxSessions
    /\ \E token \in issued :
          \/ \E override \in Overrides \cup {NoOverride} :
                Authenticate(token, override)
          \/ AuthenticateObo(token)
          \/ GetClaims(token)

Progress ==
    \/ ValidationStep /\ UNCHANGED gatewayVars
    \/ EstablishFull \/ EstablishObo \/ Return

Next ==
    \/ ProviderStep /\ UNCHANGED gatewayVars
    \/ CallStep
    \/ Progress

\* A call, once begun, is carried on by the interpreter, and a fetch ends: it
\* succeeds, fails or runs into its timeout.  Nothing is assumed of the
\* provider, the clock or the callers.
Spec == Init /\ [][Next]_vars /\ WF_vars(Progress)

----------------------------------------------------------------------------
(* Properties                                                              *)

\* Type invariant: sessions have the users that the policy resolver expects,
\* and a client's copy of the keys is not older than the client.
AuthTypeOK ==
    /\ \A s \in sessions : s.user \in UserContext /\ s.claims \in Shapes
    /\ client # NoClient =>
          /\ client.cachedAt \in 0..clock
          /\ client.fetchedAt \in client.cachedAt..clock
          /\ client.keys # NoKeys => client.keys \subseteq KeyIds
    /\ call # Idle =>
          /\ call.pc \in {"metadata", "lookup", "keys"} \cup Outcomes
          /\ call.pc \in {"lookup", "keys"} => client # NoClient

\* Rotation is transparent: a token whose key is published is not refused for
\* want of the key unless two fetches of the key set fail within the one call,
\* whatever copy of the keys the validator had when it began
\* (_validate_production, "force refresh once").
RotationTransparent ==
    call.pc = "no_key" =>
        (call.token.key \in published => call.lostSets >= 2)

\* A withdrawn key dies: when a token is accepted in production, its key was
\* published by the provider at some time in the last _JWKS_CACHE_TTL, though
\* both the client object and its copy of the keys are kept that long.
KeyFreshness ==
    call.pc = "accepted" /\ production =>
        \/ call.token.key \in published
        \/ /\ call.token.key \in DOMAIN withdrawn
           /\ call.decided - withdrawn[call.token.key] <= JWKS_CACHE_TTL

\* Sessions are earned: the token is for our audience and, in production, of
\* our tenant, on whatever path its key was found; a brand in the scope comes
\* from a group of the user or from the caller's override, never from a token
\* whose groups were left out; a clearance above INTERNAL comes from a role;
\* and no full session is for an application.
SessionsEarned ==
    \A s \in sessions :
        LET claims == s.claims IN
        /\ claims.aud = Audience
        /\ production => claims.tid = Tenant
        /\ s.via.kind = "full" => ~AppOnly(claims)
        /\ s.user.brand_scope # {} =>
              s.via.override # NoOverride \/ ~claims.overage
        /\ \A b \in s.user.brand_scope :
              \/ s.via.override # NoOverride /\ b \in s.via.override
              \/ \E g \in claims.groups \cap DOMAIN BrandGroupMap :
                    b \in BrandGroupMap[g]
        /\ s.user.clearance_level > INTERNAL =>
              \E r \in claims.roles \cap DOMAIN ClearanceRoleMap :
                  ClearanceRoleMap[r] = s.user.clearance_level

\* Delegation never widens: whatever asset an on-behalf-of session may use
\* with an agent, each full session that a token of that user gives may use
\* with that agent, and no PII column is shown to the former that is hidden
\* from the latter (apply_obo_constraints, through resolve_access and
\* derive_column_mask).
DelegationNeverWidens ==
    \A s \in {s \in sessions : s.via.kind = "obo"},
       claims \in {c \in Shapes : ~AppOnly(c) /\ NamesUser(c)},
       override \in Overrides \cup {NoOverride} :
        claims.oid = s.user.user_id =>
            LET full == ToUserContext(claims, override) IN
            \A agent \in Agents, asset \in TheAssets, right \in Rights :
                \/ Denied(s.user, agent, asset, right)
                \/ /\ ~Denied(full, agent, asset, right)
                   /\ DeriveColumnMask(full, asset)
                          \subseteq DeriveColumnMask(s.user, asset)

\* Every validation ends, though the provider rotates its keys and every fetch
\* may fail: the refresh is forced once.
ValidationEnds == (call # Idle) ~> (call = Idle)

----------------------------------------------------------------------------
(* A claim of the documentation that the code does not keep                *)

\* "Clock-skew tolerance in seconds for nbf/exp validation" (EntraConfig): a
\* token for this service is not refused for a clock that is off by no more.
SkewTolerated ==
    call.pc = "invalid" =>
        \/ call.token.shape.aud # Audience
        \/ production /\ call.token.shape.tid # Tenant
        \/ call.decided >= call.token.exp + ClockSkew
        \/ call.token.iat > call.decided + ClockSkew

=============================================================================
