--------------------------- MODULE TokenValidator ---------------------------
(***************************************************************************)
(* EntraTokenValidator (auth/token_validator.py): it validates the tokens  *)
(* of an identity provider with signing keys that it fetches and caches,   *)
(* while the provider rotates them and fetches fail.  The provider, the    *)
(* network and PyJWKClient are external: a client object holds a copy of   *)
(* the published key set, fetches it when there is none, when it is older  *)
(* than its lifespan, or once more when a key is not in it; a fetch that   *)
(* fails leaves it without a copy and is a PyJWKClientError, as is a key   *)
(* that is still not there.                                                *)
(***************************************************************************)
EXTENDS Integers, FiniteSets

CONSTANTS
    KeyIds,           \* the signing keys of the provider
    FirstKey,
    TestKey,          \* the key pair of for_testing
    NoClient,         \* _jwks_client = None
    NoKeys,           \* a client without a copy of the key set
    Tenant, Audience, \* tenant_id and audience of the configuration
    Shapes,           \* what tokens are issued with but time and key
    JWKS_CACHE_TTL,   \* _JWKS_CACHE_TTL, in ticks
    ClockSkew,        \* clock_skew_seconds, in ticks
    TokenTtl,         \* ttl_seconds of the tokens, in ticks
    Horizon,          \* bound: the clock stops here
    TokensPerKey      \* bound: tokens issued under a key

Client == [cachedAt : Nat, keys : {NoKeys} \cup SUBSET KeyIds, fetchedAt : Nat]

ASSUME ValidatorAssumption ==
    /\ NoClient \notin Client
    /\ \A keys \in SUBSET KeyIds : NoKeys # keys
    /\ FirstKey \in KeyIds
    /\ TestKey \notin KeyIds
    /\ JWKS_CACHE_TTL \in Nat /\ ClockSkew \in Nat /\ TokenTtl \in Nat
    /\ Horizon \in Nat /\ TokensPerKey \in Nat

VARIABLES
    production,       \* validate_tenant
    clock,
    published,        \* the keys at the provider's jwks_uri
    withdrawn,        \* key -> when it was taken from there
    issued,           \* the tokens issued: [shape, key, iat, exp]
    client,           \* _jwks_client with _jwks_cached_at
    call              \* the validation under way

worldVars == <<production, clock, published, withdrawn, issued>>
validatorVars == <<worldVars, client, call>>

Idle == [pc |-> "idle"]

----------------------------------------------------------------------------
(* The provider (external) and the test token factory                      *)

Tick ==
    /\ clock < Horizon
    /\ clock' = clock + 1
    /\ UNCHANGED <<production, published, withdrawn, issued, client, call>>

\* A new key is published beside the others.
PublishKey(k) ==
    /\ k \notin published \cup DOMAIN withdrawn
    /\ published' = published \cup {k}
    /\ UNCHANGED <<production, clock, withdrawn, issued, client, call>>

WithdrawKey(k) ==
    /\ k \in published
    /\ published # {k}
    /\ published' = published \ {k}
    /\ withdrawn' = [j \in DOMAIN withdrawn \cup {k} |->
                        IF j = k THEN clock ELSE withdrawn[j]]
    /\ UNCHANGED <<production, clock, issued, client, call>>

\* make_user_token, make_app_token and make_obo_token give a token the claims
\* of its shape and a life of ttl_seconds from now, as the provider does, whose
\* clock may be ahead.
IssueToken(shape, key, ahead) ==
    /\ Cardinality({t \in issued : t.key = key}) < TokensPerKey
    /\ key \in IF production THEN published ELSE {TestKey}
    /\ issued' = issued \cup
           {[shape |-> shape, key |-> key,
             iat |-> clock + ahead, exp |-> clock + ahead + TokenTtl]}
    /\ UNCHANGED <<production, clock, published, withdrawn, client, call>>

ProviderStep ==
    \/ Tick
    \/ \E k \in KeyIds : PublishKey(k) \/ WithdrawKey(k)
    \/ \E shape \in Shapes, key \in KeyIds \cup {TestKey},
          ahead \in 0..ClockSkew : IssueToken(shape, key, ahead)

----------------------------------------------------------------------------
(* What a call does once it has the signing key                            *)

\* Mutant: the audience is not given to the decoder.
DecodesAnyAudience(token) == clock < token.exp /\ token.iat <= clock

\* jwt.decode.  Its leeway is a parameter of its own and 0 by default: the
\* "leeway" among the options is not one that PyJWT reads.  The issuer must be
\* there and is not compared.
Decodes(token) ==
    /\ token.shape.aud = Audience
    /\ clock < token.exp
    /\ token.iat <= clock

\* validate returns the claims.
Accepts(token) ==
    /\ Decodes(token)
    /\ production => token.shape.tid = Tenant

\* A signature by another key does not verify.
Verdict(token, key) ==
    IF token.key = key /\ Accepts(token) THEN "accepted" ELSE "invalid"

Finish(outcome) ==
    /\ call' = [call EXCEPT !.pc = outcome, !.decided = clock]
    /\ UNCHANGED worldVars

----------------------------------------------------------------------------
(* _validate_production                                                    *)

\* Mutant: the lifetime of the cache is counted twice.
OlderThanTwice(since) == clock - since > 2 * JWKS_CACHE_TTL

\* The client, and a copy of the key set, are used for _JWKS_CACHE_TTL.
Older(since) == clock - since > JWKS_CACHE_TTL

Stale == client = NoClient \/ Older(client.cachedAt)

\* A call as it begins; the number of key set fetches that failed is history,
\* too.
Called(token, pc) ==
    [pc       |-> pc,
     token    |-> token,
     asked    |-> FALSE,    \* the client has fetched for this key already
     forced   |-> FALSE,    \* _refresh_jwks was forced by a missing key
     decided  |-> 0,        \* history: when the token was decoded
     lostSets |-> 0]

Begin(token) ==
    /\ call = Idle
    /\ production
    /\ call' = Called(token, IF Stale THEN "metadata" ELSE "lookup")
    /\ UNCHANGED <<worldVars, client>>

\* _refresh_jwks: a new client without a copy, or the old one is kept.
FetchMetadata ==
    /\ call.pc = "metadata"
    /\ client' = [cachedAt |-> clock, keys |-> NoKeys, fetchedAt |-> clock]
    /\ call' = [call EXCEPT !.pc = "lookup", !.asked = FALSE]
    /\ UNCHANGED worldVars

MetadataFails ==
    /\ call.pc = "metadata"
    /\ call' = [call EXCEPT !.pc = "no_metadata"]
    /\ UNCHANGED <<worldVars, client>>

Usable == client.keys # NoKeys /\ ~Older(client.fetchedAt)

\* get_signing_key_from_jwt with the copy at hand.
LookUp ==
    /\ call.pc = "lookup"
    /\ Usable
    /\ call.token.key \in client.keys
    /\ Finish(Verdict(call.token, call.token.key))
    /\ UNCHANGED client

\* The key is not in the copy: the fetch that follows is the last one.
LookUpMisses ==
    /\ call.pc = "lookup"
    /\ ~(Usable /\ call.token.key \in client.keys)
    /\ call' = [call EXCEPT !.pc = "keys", !.asked = Usable]
    /\ UNCHANGED <<worldVars, client>>

\* Mutant: the refresh is never marked as done.
RefreshAlways(c) == [c EXCEPT !.pc = "metadata"]

\* Mutant: the first error is final.
NoRefresh(c) == [c EXCEPT !.pc = "no_key"]

\* A PyJWKClientError: the refresh is forced once.
Retry(c) ==
    IF c.forced THEN [c EXCEPT !.pc = "no_key"]
    ELSE [c EXCEPT !.pc = "metadata", !.forced = TRUE]

FetchKeys ==
    /\ call.pc = "keys"
    /\ client' = [client EXCEPT !.keys = published, !.fetchedAt = clock]
    /\ IF call.token.key \in published
       THEN Finish(Verdict(call.token, call.token.key))
       ELSE /\ call' = IF call.asked THEN Retry(call)
                       ELSE [call EXCEPT !.asked = TRUE]
            /\ UNCHANGED worldVars

KeysFail ==
    /\ call.pc = "keys"
    /\ client' = [client EXCEPT !.keys = NoKeys]
    /\ call' = Retry([call EXCEPT !.lostSets = @ + 1])
    /\ UNCHANGED worldVars

----------------------------------------------------------------------------
(* _validate_test                                                          *)

ValidateTest(token) ==
    /\ call = Idle
    /\ ~production
    /\ call' = Called(token, Verdict(token, TestKey))
    /\ UNCHANGED <<worldVars, client>>

----------------------------------------------------------------------------

ValidatorInit ==
    /\ production \in BOOLEAN
    /\ clock = 0
    /\ published = {FirstKey}
    /\ withdrawn = [k \in {} |-> 0]
    /\ issued = {}
    /\ client = NoClient
    /\ call = Idle

\* What goes on without the caller or the provider: every fetch has a timeout.
ValidationStep ==
    \/ FetchMetadata \/ MetadataFails
    \/ LookUp \/ LookUpMisses
    \/ FetchKeys \/ KeysFail

Outcomes == {"accepted", "invalid", "no_metadata", "no_key"}

=============================================================================
