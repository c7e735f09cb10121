----------------------------- MODULE Auth_proofs -----------------------------
(***************************************************************************)
(* Proofs about authentication: for every set of keys, groups, roles,      *)
(* overrides and assets, whatever the provider publishes and withdraws and *)
(* however many fetches fail.                                              *)
(*                                                                         *)
(* The invariant compares the validator's copy of the keys, which may be   *)
(* old, with the history of the provider: a key of the copy is published,  *)
(* or was withdrawn no earlier than the copy was fetched.                  *)
(***************************************************************************)
EXTENDS AuthGateway, Lemmas

Token == [shape : Shapes, key : KeyIds \cup {TestKey}, iat : Int, exp : Int]

Working == {"metadata", "lookup", "keys"}

Call == [pc : Working \cup Outcomes, token : Token, asked : BOOLEAN,
         forced : BOOLEAN, decided : Nat, lostSets : Nat]

\* A token of the provider is signed with a key that is or was published.
WorldInv ==
    /\ production \in BOOLEAN
    /\ clock \in Nat
    /\ published \subseteq KeyIds
    /\ DOMAIN withdrawn \subseteq KeyIds \ published
    /\ \A k \in DOMAIN withdrawn : withdrawn[k] \in 0..clock
    /\ issued \subseteq Token
    /\ \A t \in issued : t.key \in published \cup DOMAIN withdrawn \cup {TestKey}

\* The key is published, or was withdrawn at that time or later.
LastedUntil(key, time) ==
    \/ key \in published
    \/ key \in DOMAIN withdrawn /\ time <= withdrawn[key]

ClientInv ==
    client = NoClient \/
        /\ client \in Client
        /\ client.cachedAt <= client.fetchedAt /\ client.fetchedAt <= clock
        /\ client.keys # NoKeys =>
              \A k \in client.keys : LastedUntil(k, client.fetchedAt)

\* A missing key forces the refresh, and only a published one can come to be
\* missing by a failed fetch.
CallInv ==
    call = Idle \/
        /\ call \in Call
        /\ call.token \in issued
        /\ call.decided <= clock
        /\ call.pc \in {"lookup", "keys"} => client # NoClient
        /\ call.pc \in Working \cup {"no_metadata", "no_key"} => production
        /\ call.forced /\ call.token.key \in published => call.lostSets >= 1
        /\ call.pc = "no_key" /\ call.token.key \in published =>
              call.lostSets >= 2
        /\ call.pc = "accepted" /\ production =>
              /\ call.token.shape.tid = Tenant
              /\ LastedUntil(call.token.key, call.decided - JWKS_CACHE_TTL)
        /\ call.pc = "accepted" => call.token.shape.aud = Audience

SessionOK(s) ==
    /\ s.claims \in Shapes
    /\ s.claims.aud = Audience
    /\ production => s.claims.tid = Tenant
    /\ NamesUser(s.claims)
    /\ \/ /\ s.via.kind = "full"
          /\ s.via.override \in Overrides \cup {NoOverride}
          /\ ~AppOnly(s.claims)
          /\ s.user = ToUserContext(s.claims, s.via.override)
       \/ s.via.kind = "obo" /\ s.user = OboContext(s.claims)

GatewayInv ==
    /\ \/ waiting = Nobody
       \/ waiting \in [kind : {"full", "obo"},
                       override : Overrides \cup {NoOverride}]
    /\ \A s \in sessions : SessionOK(s)

IInv == WorldInv /\ ClientInv /\ CallInv /\ GatewayInv

LEMMA InitIInv == Init => IInv
<1> SUFFICES ASSUME Init PROVE IInv
  OBVIOUS
<1>1. DOMAIN withdrawn = {}
  BY DEF Init, ValidatorInit
<1> QED BY <1>1, ValidatorAssumption
        DEF Init, ValidatorInit, IInv, WorldInv, ClientInv, CallInv, GatewayInv

----------------------------------------------------------------------------
(* The provider                                                            *)

\* What the other parts of the invariant need of a step of the provider.
LEMMA WorldMoves ==
    ASSUME WorldInv, ClientInv, CallInv, GatewayInv,
           UNCHANGED <<production, client, call, gatewayVars>>,
           clock' \in Nat, clock <= clock',
           issued \subseteq issued',
           \A key, time : LastedUntil(key, time) /\ time \in Int /\ time <= clock
                              => LastedUntil(key, time)',
           \A t \in issued : t.key \in published' => t.key \in published
    PROVE  ClientInv' /\ CallInv' /\ GatewayInv'
<1>1. ClientInv'
  <2> SUFFICES ASSUME client # NoClient
               PROVE  /\ client \in Client
                      /\ client.cachedAt <= client.fetchedAt
                      /\ client.fetchedAt <= clock'
                      /\ client.keys # NoKeys =>
                            \A k \in client.keys :
                                LastedUntil(k, client.fetchedAt)'
    BY DEF ClientInv, LastedUntil
  <2>1. client \in Client /\ client.fetchedAt \in Nat
    BY DEF ClientInv, Client
  <2>2. client.cachedAt <= client.fetchedAt /\ client.fetchedAt <= clock
    BY DEF ClientInv
  <2>3. client.fetchedAt <= clock'
    BY <2>1, <2>2 DEF WorldInv
  <2> QED BY <2>1, <2>2, <2>3 DEF ClientInv
<1>2. CallInv'
  <2> SUFFICES ASSUME call # Idle
               PROVE  CallInv'
    BY DEF CallInv, Idle
  <2>1. /\ call \in Call /\ call.token \in issued /\ call.decided <= clock
        /\ call.decided \in Nat
    BY DEF CallInv, Call
  <2>2. call.decided <= clock'
    BY <2>1 DEF WorldInv
  <2>3. call.token.key \in published' => call.token.key \in published
    BY <2>1
  <2>4. ASSUME call.pc = "accepted", production
        PROVE  LastedUntil(call.token.key, call.decided - JWKS_CACHE_TTL)'
    <3>1. LastedUntil(call.token.key, call.decided - JWKS_CACHE_TTL)
      BY <2>4 DEF CallInv
    <3>2. /\ call.decided - JWKS_CACHE_TTL \in Int
          /\ call.decided - JWKS_CACHE_TTL <= clock
      BY <2>1, ValidatorAssumption DEF WorldInv
    <3> QED BY <3>1, <3>2 DEF LastedUntil
  <2> QED BY <2>1, <2>2, <2>3, <2>4 DEF CallInv
<1>3. GatewayInv'
  BY DEF GatewayInv, gatewayVars, SessionOK
<1> QED BY <1>1, <1>2, <1>3

LEMMA ProviderKeeps ==
    ASSUME IInv, ProviderStep, UNCHANGED gatewayVars
    PROVE  IInv'
<1>1. CASE Tick
  <2>1. /\ clock' = clock + 1
        /\ UNCHANGED <<production, published, withdrawn, issued, client, call>>
    BY <1>1 DEF Tick
  <2>2. WorldInv' /\ clock' \in Nat /\ clock <= clock'
    BY <2>1 DEF IInv, WorldInv
  <2>3. \A key, time : LastedUntil(key, time) /\ time \in Int /\ time <= clock
                           => LastedUntil(key, time)'
    BY <2>1 DEF LastedUntil
  <2> QED BY <2>1, <2>2, <2>3, WorldMoves DEF IInv
<1>2. CASE \E k \in KeyIds : PublishKey(k)
  <2>1. PICK k \in KeyIds : PublishKey(k)
    BY <1>2
  <2>2. /\ k \notin published \cup DOMAIN withdrawn
        /\ published' = published \cup {k}
        /\ UNCHANGED <<production, clock, withdrawn, issued, client, call>>
    BY <2>1 DEF PublishKey
  <2>3. WorldInv'
    BY <2>2 DEF IInv, WorldInv
  <2>4. \A t \in issued : t.key \in published' => t.key \in published
    BY <2>2, ValidatorAssumption DEF IInv, WorldInv
  <2>5. \A key, time : LastedUntil(key, time) /\ time \in Int /\ time <= clock
                           => LastedUntil(key, time)'
    BY <2>2 DEF LastedUntil
  <2>6. clock' \in Nat /\ clock <= clock'
    BY <2>2 DEF IInv, WorldInv
  <2> QED BY <2>2, <2>3, <2>4, <2>5, <2>6, WorldMoves DEF IInv
<1>3. CASE \E k \in KeyIds : WithdrawKey(k)
  <2>1. PICK k \in KeyIds : WithdrawKey(k)
    BY <1>3
  <2>2. /\ k \in published /\ published' = published \ {k}
        /\ withdrawn' = [j \in DOMAIN withdrawn \cup {k} |->
                            IF j = k THEN clock ELSE withdrawn[j]]
        /\ UNCHANGED <<production, clock, issued, client, call>>
    BY <2>1 DEF WithdrawKey
  <2>3. /\ DOMAIN withdrawn' = DOMAIN withdrawn \cup {k}
        /\ withdrawn'[k] = clock /\ k \notin DOMAIN withdrawn
        /\ \A j \in DOMAIN withdrawn : withdrawn'[j] = withdrawn[j]
    BY <2>2 DEF IInv, WorldInv
  <2>4. clock \in Nat /\ clock' = clock
    BY <2>2 DEF IInv, WorldInv
  <2>5. \A j \in DOMAIN withdrawn' : withdrawn'[j] \in 0..clock
    BY <2>3, <2>4 DEF IInv, WorldInv
  <2>6. WorldInv'
    BY <2>2, <2>3, <2>4, <2>5 DEF IInv, WorldInv
  <2>7. \A key, time : LastedUntil(key, time) /\ time \in Int /\ time <= clock
                           => LastedUntil(key, time)'
    <3> SUFFICES ASSUME NEW key, NEW time, LastedUntil(key, time),
                        time <= clock
                 PROVE  LastedUntil(key, time)'
      OBVIOUS
    <3>1. CASE key = k
      BY <3>1, <2>3 DEF LastedUntil
    <3>2. CASE key # k
      <4>1. CASE key \in published
        BY <4>1, <3>2, <2>2 DEF LastedUntil
      <4>2. CASE key \in DOMAIN withdrawn /\ time <= withdrawn[key]
        BY <4>2, <2>3 DEF LastedUntil
      <4> QED BY <4>1, <4>2 DEF LastedUntil
    <3> QED BY <3>1, <3>2
  <2>8. \A t \in issued : t.key \in published' => t.key \in published
    BY <2>2
  <2>9. clock' \in Nat /\ clock <= clock'
    BY <2>4
  <2> QED BY <2>2, <2>6, <2>7, <2>8, <2>9, WorldMoves DEF IInv
<1>4. CASE \E shape \in Shapes, key \in KeyIds \cup {TestKey},
              ahead \in 0..ClockSkew : IssueToken(shape, key, ahead)
  <2>1. PICK shape \in Shapes, key \in KeyIds \cup {TestKey},
             ahead \in 0..ClockSkew : IssueToken(shape, key, ahead)
    BY <1>4
  <2> DEFINE t == [shape |-> shape, key |-> key, iat |-> clock + ahead,
                   exp |-> clock + ahead + TokenTtl]
  <2>2. /\ key \in published \cup {TestKey}
        /\ issued' = issued \cup {t}
        /\ UNCHANGED <<production, clock, published, withdrawn, client, call>>
    BY <2>1 DEF IssueToken
  <2>3. t \in Token
    <3>1. clock + ahead \in Int /\ clock + ahead + TokenTtl \in Int
      BY ValidatorAssumption DEF IInv, WorldInv
    <3> QED BY <3>1 DEF Token
  <2>4. t.key = key
    OBVIOUS
  <2> HIDE DEF t
  <2>5. WorldInv'
    BY <2>2, <2>3, <2>4 DEF IInv, WorldInv
  <2>6. \A j, time : LastedUntil(j, time) => LastedUntil(j, time)'
    BY <2>2 DEF LastedUntil
  <2>7. clock' \in Nat /\ clock <= clock'
    BY <2>2 DEF IInv, WorldInv
  <2> QED BY <2>2, <2>5, <2>6, <2>7, WorldMoves DEF IInv
<1> QED BY <1>1, <1>2, <1>3, <1>4 DEF ProviderStep

----------------------------------------------------------------------------
(* The validator                                                           *)

\* A call accepts only what is signed with the key it looked up.
LEMMA VerdictFacts ==
    ASSUME NEW token, NEW key
    PROVE  /\ Verdict(token, key) \in {"accepted", "invalid"}
           /\ Verdict(token, key) = "accepted" =>
                 /\ token.key = key
                 /\ token.shape.aud = Audience
                 /\ production => token.shape.tid = Tenant
BY DEF Verdict, Accepts, Decodes

\* A step of the validator that leaves the call as it should be.
LEMMA CallMoves ==
    ASSUME IInv, UNCHANGED worldVars, ClientInv', GatewayInv',
           call' \in Call, call'.token \in issued,
           call'.decided <= clock,
           call'.pc \in {"lookup", "keys"} => client' # NoClient,
           call'.pc \in Working \cup {"no_metadata", "no_key"} => production,
           call'.forced /\ call'.token.key \in published =>
               call'.lostSets >= 1,
           call'.pc = "no_key" /\ call'.token.key \in published =>
               call'.lostSets >= 2,
           call'.pc = "accepted" /\ production =>
               /\ call'.token.shape.tid = Tenant
               /\ LastedUntil(call'.token.key, call'.decided - JWKS_CACHE_TTL),
           call'.pc = "accepted" => call'.token.shape.aud = Audience
    PROVE  IInv'
<1>1. WorldInv'
  BY DEF IInv, WorldInv, worldVars
<1>2. CallInv'
  BY DEF CallInv, worldVars, LastedUntil
<1> QED BY <1>1, <1>2 DEF IInv

LEMMA ClientStays ==
    ASSUME ClientInv, UNCHANGED <<worldVars, client>>
    PROVE  ClientInv'
BY DEF ClientInv, worldVars, LastedUntil

LEMMA GatewayStays ==
    ASSUME GatewayInv, UNCHANGED <<worldVars, gatewayVars>>
    PROVE  GatewayInv'
BY DEF GatewayInv, worldVars, gatewayVars, SessionOK

LEMMA UnderWay ==
    ASSUME IInv, call.pc \in Working \cup Outcomes
    PROVE  /\ call \in Call
           /\ call.token \in issued /\ call.token \in Token
           /\ call.decided <= clock /\ clock \in Nat
           /\ call.pc \in {"lookup", "keys"} =>
                 /\ client \in Client
                 /\ client # NoClient
                 /\ client.cachedAt <= client.fetchedAt
                 /\ client.fetchedAt <= clock
                 /\ client.keys # NoKeys =>
                       \A k \in client.keys : LastedUntil(k, client.fetchedAt)
           /\ call.pc \in Working \cup {"no_metadata", "no_key"} => production
           /\ call.forced /\ call.token.key \in published =>
                 call.lostSets >= 1
           /\ call.pc = "accepted" /\ production =>
                 /\ call.token.shape.tid = Tenant
                 /\ LastedUntil(call.token.key, call.decided - JWKS_CACHE_TTL)
           /\ call.pc = "accepted" => call.token.shape.aud = Audience
<1>1. call # Idle
  BY DEF Idle, Working, Outcomes
<1> QED BY <1>1 DEF IInv, CallInv, ClientInv, WorldInv

LEMMA CallBegins ==
    ASSUME IInv, NEW token \in issued, Begin(token) \/ ValidateTest(token),
           GatewayInv'
    PROVE  IInv'
<1>1. token \in Token /\ clock \in Nat
  BY DEF IInv, WorldInv
<1>2. ASSUME NEW pc \in Working \cup Outcomes
      PROVE  /\ Called(token, pc) \in Call
             /\ Called(token, pc).pc = pc /\ Called(token, pc).token = token
             /\ Called(token, pc).decided = 0 /\ ~Called(token, pc).forced
  BY <1>1 DEF Called, Call
<1>3. UNCHANGED <<worldVars, client>>
  BY DEF Begin, ValidateTest
<1>4. ClientInv'
  BY <1>3, ClientStays DEF IInv
<1>5. CASE Begin(token)
  <2>1. PICK pc \in {"metadata", "lookup"} :
           /\ call' = Called(token, pc)
           /\ pc = "lookup" => client # NoClient
    BY <1>5 DEF Begin, Stale
  <2>2. call' \in Call /\ call'.pc = pc /\ call'.token = token
        /\ call'.decided = 0 /\ ~call'.forced
    BY <2>1, <1>2 DEF Working
  <2>3. production
    BY <1>5 DEF Begin
  <2> QED BY <2>1, <2>2, <2>3, <1>1, <1>3, <1>4, CallMoves
<1>6. CASE ValidateTest(token)
  <2>1. call' = Called(token, Verdict(token, TestKey)) /\ ~production
    BY <1>6 DEF ValidateTest
  <2>2. /\ Verdict(token, TestKey) \in {"accepted", "invalid"}
        /\ Verdict(token, TestKey) = "accepted" => token.shape.aud = Audience
    BY VerdictFacts
  <2>3. call' \in Call /\ call'.pc \in {"accepted", "invalid"}
        /\ call'.token = token /\ call'.decided = 0 /\ ~call'.forced
    BY <2>1, <2>2, <1>2 DEF Outcomes
  <2>4. call'.pc = "accepted" => call'.token.shape.aud = Audience
    BY <2>1, <2>2, <2>3, <1>2 DEF Outcomes
  <2> QED BY <2>1, <2>3, <2>4, <1>1, <1>3, <1>4, CallMoves DEF Working
<1> QED BY <1>5, <1>6

\* Each half of a copy of the keys, and of the call that uses it, is what the
\* invariant says of it.
LEMMA VerdictKeeps ==
    ASSUME IInv, call.pc \in Working, UNCHANGED gatewayVars, ClientInv',
           Finish(Verdict(call.token, call.token.key)),
           LastedUntil(call.token.key, clock - JWKS_CACHE_TTL)
    PROVE  IInv'
<1> DEFINE verdict == Verdict(call.token, call.token.key)
<1>1. verdict \in {"accepted", "invalid"}
      /\ (verdict = "accepted" => call.token.shape.aud = Audience)
      /\ (verdict = "accepted" /\ production => call.token.shape.tid = Tenant)
  BY VerdictFacts
<1>2. /\ call \in Call /\ call.token \in issued /\ clock \in Nat
      /\ call.forced /\ call.token.key \in published => call.lostSets >= 1
  BY UnderWay
<1>3. call' = [call EXCEPT !.pc = verdict, !.decided = clock]
      /\ UNCHANGED worldVars
  BY DEF Finish
<1> HIDE DEF verdict
<1>4. /\ call' \in Call /\ call'.pc = verdict /\ call'.token = call.token
      /\ call'.decided = clock /\ call'.forced = call.forced
      /\ call'.lostSets = call.lostSets
  BY <1>1, <1>2, <1>3 DEF Call, Outcomes
<1>5. GatewayInv'
  BY <1>3, GatewayStays DEF IInv
<1> QED BY <1>1, <1>2, <1>3, <1>4, <1>5, CallMoves DEF Working

\* A call that goes on with the same token and the same history.
LEMMA CallGoesOn ==
    ASSUME IInv, call.pc \in Working, UNCHANGED <<worldVars, gatewayVars>>,
           ClientInv', call' \in Call, call'.token = call.token,
           call'.decided = call.decided,
           call'.pc \in Working \cup {"no_metadata", "no_key"},
           call'.pc \in {"lookup", "keys"} => client' # NoClient,
           call.token.key \in published =>
               /\ call'.forced => call'.lostSets >= 1
               /\ call'.pc = "no_key" => call'.lostSets >= 2
    PROVE  IInv'
<1>1. GatewayInv'
  BY GatewayStays DEF IInv
<1>2. /\ call \in Call /\ call.token \in issued
      /\ call.decided <= clock /\ production
  BY UnderWay
<1> QED BY <1>1, <1>2, CallMoves DEF Working

\* What Retry makes of a call.
LEMMA RetryFacts ==
    ASSUME NEW c \in Call
    PROVE  /\ Retry(c) \in Call
           /\ Retry(c).token = c.token /\ Retry(c).decided = c.decided
           /\ Retry(c).lostSets = c.lostSets
           /\ Retry(c).forced
           /\ Retry(c).pc = IF c.forced THEN "no_key" ELSE "metadata"
<1>1. CASE c.forced
  BY <1>1 DEF Retry, Call, Outcomes
<1>2. CASE ~c.forced
  BY <1>2 DEF Retry, Call, Working
<1> QED BY <1>1, <1>2


LEMMA ValidationKeeps ==
    ASSUME IInv, ValidationStep, UNCHANGED gatewayVars
    PROVE  IInv'
<1>1. CASE FetchMetadata
  <2>1. /\ call.pc = "metadata"
        /\ client' = [cachedAt |-> clock, keys |-> NoKeys, fetchedAt |-> clock]
        /\ call' = [call EXCEPT !.pc = "lookup", !.asked = FALSE]
        /\ UNCHANGED worldVars
    BY <1>1 DEF FetchMetadata
  <2>2. /\ call \in Call /\ clock \in Nat
        /\ call.forced /\ call.token.key \in published => call.lostSets >= 1
    BY <2>1, UnderWay DEF Working
  <2>3. /\ client' \in Client /\ client'.keys = NoKeys
        /\ client'.cachedAt = clock /\ client'.fetchedAt = clock
    BY <2>1, <2>2 DEF Client
  <2>4. ClientInv' /\ client' # NoClient
    BY <2>1, <2>2, <2>3, ValidatorAssumption DEF ClientInv, worldVars
  <2>5. /\ call' \in Call /\ call'.pc = "lookup"
        /\ call'.token = call.token /\ call'.decided = call.decided
        /\ call'.forced = call.forced /\ call'.lostSets = call.lostSets
    BY <2>1, <2>2 DEF Call, Working
  <2> QED BY <2>1, <2>2, <2>4, <2>5, CallGoesOn DEF Working
<1>2. CASE MetadataFails
  <2>1. /\ call.pc = "metadata"
        /\ call' = [call EXCEPT !.pc = "no_metadata"]
        /\ UNCHANGED <<worldVars, client>>
    BY <1>2 DEF MetadataFails
  <2>2. /\ call \in Call
        /\ call.forced /\ call.token.key \in published => call.lostSets >= 1
    BY <2>1, UnderWay DEF Working
  <2>3. ClientInv'
    BY <2>1, ClientStays DEF IInv
  <2>4. /\ call' \in Call /\ call'.pc = "no_metadata"
        /\ call'.token = call.token /\ call'.decided = call.decided
        /\ call'.forced = call.forced /\ call'.lostSets = call.lostSets
    BY <2>1, <2>2 DEF Call, Outcomes
  <2> QED BY <2>1, <2>2, <2>3, <2>4, CallGoesOn DEF Working
<1>3. CASE LookUp
  <2>1. /\ call.pc = "lookup" /\ Usable /\ call.token.key \in client.keys
        /\ Finish(Verdict(call.token, call.token.key))
        /\ UNCHANGED client
    BY <1>3 DEF LookUp
  <2>2. ClientInv'
    BY <2>1, ClientStays DEF IInv, Finish
  <2>3. /\ client \in Client /\ clock \in Nat
        /\ LastedUntil(call.token.key, client.fetchedAt)
    BY <2>1, UnderWay DEF Working, Usable
  <2>4. clock - client.fetchedAt <= JWKS_CACHE_TTL
    BY <2>1, <2>3, ValidatorAssumption DEF Usable, Older, Client
  <2>5. clock - JWKS_CACHE_TTL <= client.fetchedAt
    BY <2>3, <2>4, ValidatorAssumption DEF Client
  <2>6. ASSUME call.token.key \in DOMAIN withdrawn
        PROVE  withdrawn[call.token.key] \in Int
    BY <2>6 DEF IInv, WorldInv
  <2>7. LastedUntil(call.token.key, clock - JWKS_CACHE_TTL)
    BY <2>3, <2>5, <2>6, ValidatorAssumption DEF LastedUntil, Client
  <2> QED BY <2>1, <2>2, <2>7, VerdictKeeps DEF Working
<1>4. CASE LookUpMisses
  <2>1. /\ call.pc = "lookup"
        /\ call' = [call EXCEPT !.pc = "keys", !.asked = Usable]
        /\ UNCHANGED <<worldVars, client>>
    BY <1>4 DEF LookUpMisses
  <2>2. /\ call \in Call /\ client # NoClient
        /\ call.forced /\ call.token.key \in published => call.lostSets >= 1
    BY <2>1, UnderWay DEF Working
  <2>3. ClientInv'
    BY <2>1, ClientStays DEF IInv
  <2>4. Usable \in BOOLEAN
    BY DEF Usable
  <2>5. /\ call' \in Call /\ call'.pc = "keys"
        /\ call'.token = call.token /\ call'.decided = call.decided
        /\ call'.forced = call.forced /\ call'.lostSets = call.lostSets
    BY <2>1, <2>2, <2>4 DEF Call, Working
  <2> QED BY <2>1, <2>2, <2>3, <2>5, CallGoesOn DEF Working
<1>5. CASE FetchKeys
  <2>1. /\ call.pc = "keys"
        /\ client' = [client EXCEPT !.keys = published, !.fetchedAt = clock]
        /\ UNCHANGED worldVars
    BY <1>5 DEF FetchKeys, Finish
  <2>2. /\ call \in Call /\ client \in Client /\ clock \in Nat
        /\ client.cachedAt <= client.fetchedAt /\ client.fetchedAt <= clock
        /\ call.forced /\ call.token.key \in published => call.lostSets >= 1
    BY <2>1, UnderWay DEF Working
  <2>3. published \in {NoKeys} \cup SUBSET KeyIds
    BY DEF IInv, WorldInv
  <2>4. /\ client' \in Client /\ client'.keys = published
        /\ client'.fetchedAt = clock /\ client'.cachedAt = client.cachedAt
    BY <2>1, <2>2, <2>3 DEF Client
  <2>5. ClientInv' /\ client' # NoClient
    <3>1. client' # NoClient
      BY <2>4, ValidatorAssumption
    <3>2. client'.cachedAt <= client'.fetchedAt /\ client'.fetchedAt <= clock'
      BY <2>1, <2>2, <2>4 DEF worldVars, Client
    <3>3. \A k \in client'.keys : k \in published'
      BY <2>1, <2>4 DEF worldVars
    <3> QED BY <2>4, <3>1, <3>2, <3>3 DEF ClientInv, LastedUntil
  <2>6. CASE call.token.key \in published
    <3>1. Finish(Verdict(call.token, call.token.key))
      BY <2>6, <1>5 DEF FetchKeys
    <3>2. LastedUntil(call.token.key, clock - JWKS_CACHE_TTL)
      BY <2>6 DEF LastedUntil
    <3> QED BY <2>1, <2>5, <3>1, <3>2, VerdictKeeps DEF Working
  <2>7. CASE call.token.key \notin published /\ call.asked
    <3>1. call' = Retry(call)
      BY <2>7, <1>5 DEF FetchKeys
    <3>2. /\ call' \in Call /\ call'.token = call.token
          /\ call'.decided = call.decided /\ call'.pc \in {"no_key", "metadata"}
      BY <3>1, <2>2, RetryFacts
    <3> QED BY <2>1, <2>5, <2>7, <3>2, CallGoesOn DEF Working
  <2>8. CASE call.token.key \notin published /\ ~call.asked
    <3>1. call' = [call EXCEPT !.asked = TRUE]
      BY <2>8, <1>5 DEF FetchKeys
    <3>2. /\ call' \in Call /\ call'.token = call.token
          /\ call'.decided = call.decided /\ call'.pc = "keys"
      BY <2>1, <3>1, <2>2 DEF Call
    <3> QED BY <2>1, <2>5, <2>8, <3>2, CallGoesOn DEF Working
  <2> QED BY <2>6, <2>7, <2>8
<1>6. CASE KeysFail
  <2> DEFINE lost == [call EXCEPT !.lostSets = @ + 1]
  <2>1. /\ call.pc = "keys"
        /\ client' = [client EXCEPT !.keys = NoKeys]
        /\ call' = Retry(lost)
        /\ UNCHANGED worldVars
    BY <1>6 DEF KeysFail
  <2>2. /\ call \in Call /\ client \in Client /\ clock \in Nat
        /\ client.cachedAt <= client.fetchedAt /\ client.fetchedAt <= clock
        /\ call.forced /\ call.token.key \in published => call.lostSets >= 1
    BY <2>1, UnderWay DEF Working
  <2>3. /\ client' \in Client /\ client'.keys = NoKeys
        /\ client'.fetchedAt = client.fetchedAt
        /\ client'.cachedAt = client.cachedAt
    BY <2>1, <2>2 DEF Client
  <2>4. ClientInv' /\ client' # NoClient
    BY <2>1, <2>2, <2>3, ValidatorAssumption DEF ClientInv, worldVars
  <2>5. /\ lost \in Call /\ lost.token = call.token
        /\ lost.decided = call.decided /\ lost.forced = call.forced
        /\ lost.lostSets = call.lostSets + 1 /\ call.lostSets \in Nat
    BY <2>2 DEF Call
  <2> HIDE DEF lost
  <2>6. /\ call' \in Call /\ call'.token = call.token
        /\ call'.decided = call.decided /\ call'.lostSets = lost.lostSets
        /\ call'.pc = IF call.forced THEN "no_key" ELSE "metadata"
    BY <2>1, <2>5, RetryFacts
  <2>7. call'.lostSets >= 1
        /\ (call.forced /\ call.token.key \in published => call'.lostSets >= 2)
    BY <2>2, <2>5, <2>6
  <2> QED BY <2>1, <2>4, <2>6, <2>7, CallGoesOn DEF Working
<1> QED BY <1>1, <1>2, <1>3, <1>4, <1>5, <1>6 DEF ValidationStep

----------------------------------------------------------------------------
(* The gateway                                                             *)

LEMMA CallStepKeeps ==
    ASSUME IInv, CallStep
    PROVE  IInv'
<1>1. PICK token \in issued :
         \/ \E override \in Overrides \cup {NoOverride} :
               Authenticate(token, override)
         \/ AuthenticateObo(token)
         \/ GetClaims(token)
  BY DEF CallStep
<1>2. Begin(token) \/ ValidateTest(token)
  BY <1>1 DEF Authenticate, AuthenticateObo, GetClaims
<1>3. UNCHANGED <<sessions, worldVars>>
  BY <1>1 DEF Authenticate, AuthenticateObo, GetClaims, Begin, ValidateTest
<1>4. \/ waiting' = Nobody
      \/ waiting' \in [kind : {"full", "obo"},
                       override : Overrides \cup {NoOverride}]
  BY <1>1 DEF Authenticate, AuthenticateObo, GetClaims
<1>5. GatewayInv'
  BY <1>3, <1>4 DEF IInv, GatewayInv, SessionOK, worldVars
<1> QED BY <1>2, <1>5, CallBegins

LEMMA GatewayKeeps ==
    ASSUME IInv, EstablishFull \/ EstablishObo \/ Return
    PROVE  IInv'
<1>1. /\ call' = Idle /\ waiting' = Nobody
      /\ UNCHANGED <<worldVars, client>>
      /\ call.pc \in Outcomes
  BY DEF EstablishFull, EstablishObo, Return, Establish, Outcomes
<1>2. ClientInv' /\ WorldInv' /\ CallInv'
  BY <1>1, ClientStays DEF IInv, WorldInv, worldVars, CallInv
<1>3. /\ call.token \in Token
      /\ call.pc = "accepted" => call.token.shape.aud = Audience
      /\ call.pc = "accepted" /\ production => call.token.shape.tid = Tenant
  BY <1>1, UnderWay
<1>4. \A s : SessionOK(s) => SessionOK(s)'
  BY <1>1 DEF SessionOK, worldVars
<1>5. CASE EstablishFull
  <2> DEFINE user == ToUserContext(call.token.shape, waiting.override)
             s == [user |-> user, via |-> waiting, claims |-> call.token.shape]
  <2>1. /\ call.pc = "accepted" /\ waiting.kind = "full"
        /\ ~AppOnly(call.token.shape) /\ NamesUser(call.token.shape)
        /\ sessions' = sessions \cup {s}
    BY <1>5 DEF EstablishFull, Establish
  <2>2. waiting.override \in Overrides \cup {NoOverride}
    BY <2>1 DEF IInv, GatewayInv, Nobody
  <2>3. call.token.shape \in Shapes
    BY <1>3 DEF Token
  <2>4. /\ s.user = user /\ s.via = waiting /\ s.claims = call.token.shape
    OBVIOUS
  <2> HIDE DEF s
  <2>5. SessionOK(s)
    BY <2>1, <2>2, <2>3, <2>4, <1>3 DEF SessionOK
  <2> QED BY <1>1, <1>2, <1>4, <2>1, <2>5 DEF IInv, GatewayInv
<1>6. CASE EstablishObo
  <2> DEFINE s == [user |-> OboContext(call.token.shape), via |-> waiting,
                   claims |-> call.token.shape]
  <2>1. /\ call.pc = "accepted" /\ waiting.kind = "obo"
        /\ NamesUser(call.token.shape)
        /\ sessions' = sessions \cup {s}
    BY <1>6 DEF EstablishObo, Establish
  <2>2. call.token.shape \in Shapes
    BY <1>3 DEF Token
  <2>3. /\ s.user = OboContext(call.token.shape)
        /\ s.via = waiting /\ s.claims = call.token.shape
    OBVIOUS
  <2> HIDE DEF s
  <2>4. SessionOK(s)
    BY <2>1, <2>2, <2>3, <1>3 DEF SessionOK
  <2> QED BY <1>1, <1>2, <1>4, <2>1, <2>4 DEF IInv, GatewayInv
<1>7. CASE Return
  <2>1. sessions' = sessions
    BY <1>7 DEF Return
  <2> QED BY <1>1, <1>2, <1>4, <2>1 DEF IInv, GatewayInv
<1> QED BY <1>5, <1>6, <1>7

LEMMA NextIInv == IInv /\ [Next]_vars => IInv'
<1> SUFFICES ASSUME IInv, [Next]_vars PROVE IInv'
  OBVIOUS
<1>1. CASE ProviderStep /\ UNCHANGED gatewayVars
  BY <1>1, ProviderKeeps
<1>2. CASE CallStep
  BY <1>2, CallStepKeeps
<1>3. CASE ValidationStep /\ UNCHANGED gatewayVars
  BY <1>3, ValidationKeeps
<1>4. CASE EstablishFull \/ EstablishObo \/ Return
  BY <1>4, GatewayKeeps
<1>5. CASE UNCHANGED vars
  BY <1>5 DEF vars, validatorVars, worldVars, gatewayVars, IInv, WorldInv,
             ClientInv, CallInv, GatewayInv, SessionOK, LastedUntil
<1> QED BY <1>1, <1>2, <1>3, <1>4, <1>5 DEF Next, Progress

\* The inductive invariant holds in every state: the copy of the keys against
\* the provider's history, the call under way and the sessions established.
THEOREM AuthInvariant == Spec => []IInv
BY InitIInv, NextIInv, PTL DEF Spec

----------------------------------------------------------------------------
(* What the mapping of claims gives                                        *)

\* A clearance is at least INTERNAL, and above it comes from a role.
LEMMA ClearanceFacts ==
    ASSUME NEW claims \in Shapes
    PROVE  /\ ResolveClearanceLevel(claims) \in SensitivityLevel
           /\ ResolveClearanceLevel(claims) >= INTERNAL
           /\ ResolveClearanceLevel(claims) > INTERNAL =>
                 \E r \in claims.roles \cap DOMAIN ClearanceRoleMap :
                     ClearanceRoleMap[r] = ResolveClearanceLevel(claims)
<1> DEFINE given == {ClearanceRoleMap[r] :
                         r \in claims.roles \cap DOMAIN ClearanceRoleMap}
           levels == {INTERNAL} \cup (given \ {NoLevel})
<1>1. INTERNAL \in levels /\ INTERNAL \in SensitivityLevel
  BY DEF SensitivityLevel, PUBLIC, INTERNAL, SECRET
<1>2. \A l \in given : l \in SensitivityLevel \cup {NoLevel}
  BY GatewayAssumption
<1>3. levels \in SUBSET SensitivityLevel
  BY <1>1, <1>2
<1>4. ResolveClearanceLevel(claims) = Max(levels)
  BY DEF ResolveClearanceLevel
<1>5. Max(levels) \in levels /\ \A x \in levels : x <= Max(levels)
  <2> HIDE DEF levels
  <2> QED BY <1>1, <1>3, MaxOfLevels
<1>6. Max(levels) = INTERNAL \/ Max(levels) \in given
  BY <1>5
<1>7. Max(levels) \in SensitivityLevel /\ INTERNAL <= Max(levels)
  BY <1>1, <1>3, <1>5
<1>8. Max(levels) > INTERNAL => Max(levels) # INTERNAL
  BY DEF INTERNAL
<1> QED BY <1>4, <1>6, <1>7, <1>8
        DEF SensitivityLevel, PUBLIC, INTERNAL, SECRET

LEMMA BrandFacts ==
    ASSUME NEW claims \in Shapes
    PROVE  /\ ResolveBrandScope(claims) \subseteq Brands
           /\ \A b \in ResolveBrandScope(claims) :
                 /\ ~claims.overage
                 /\ \E g \in claims.groups \cap DOMAIN BrandGroupMap :
                        b \in BrandGroupMap[g]
BY GatewayAssumption DEF ResolveBrandScope

\* The sessions have the users that the resolver expects, and the client's
\* copy of the keys is not older than the client (AuthTypeOK).
THEOREM AuthTyped == Spec => []AuthTypeOK
<1>1. IInv => AuthTypeOK
  <2> SUFFICES ASSUME IInv PROVE AuthTypeOK
    OBVIOUS
  <2>1. ASSUME NEW s \in sessions
        PROVE  s.user \in UserContext /\ s.claims \in Shapes
    <3>1. SessionOK(s) /\ s.claims \in Shapes /\ s.claims.oid \in UserIds
      BY GatewayAssumption DEF IInv, GatewayInv, SessionOK, NamesUser, Shape
    <3>2. CASE s.user = OboContext(s.claims)
      BY <3>1, <3>2 DEF OboContext, UserContext, SensitivityLevel,
                        PUBLIC, INTERNAL, SECRET
    <3>3. CASE /\ s.user = ToUserContext(s.claims, s.via.override)
               /\ s.via.override \in Overrides \cup {NoOverride}
      <4>1. s.user = [user_id |-> s.claims.oid,
                      brand_scope |-> s.user.brand_scope,
                      clearance_level |-> ResolveClearanceLevel(s.claims)]
        BY <3>3 DEF ToUserContext
      <4>2. s.user.brand_scope \in SUBSET Brands
        BY <3>1, <3>3, BrandFacts, GatewayAssumption DEF ToUserContext
      <4>3. ResolveClearanceLevel(s.claims) \in SensitivityLevel
        BY <3>1, ClearanceFacts
      <4> QED BY <3>1, <4>1, <4>2, <4>3 DEF UserContext
    <3> QED BY <3>1, <3>2, <3>3 DEF SessionOK
  <2>2. client # NoClient =>
           /\ client.cachedAt \in 0..clock
           /\ client.fetchedAt \in client.cachedAt..clock
           /\ client.keys # NoKeys => client.keys \subseteq KeyIds
    BY DEF IInv, WorldInv, ClientInv, Client
  <2>3. call # Idle =>
           /\ call.pc \in {"metadata", "lookup", "keys"} \cup Outcomes
           /\ call.pc \in {"lookup", "keys"} => client # NoClient
    BY DEF IInv, CallInv, Call, Working
  <2> QED BY <2>1, <2>2, <2>3 DEF AuthTypeOK
<1> QED BY <1>1, AuthInvariant, PTL

\* Rotation is transparent, for every history of the provider: a token whose
\* key is published is not refused for want of the key unless two fetches of
\* the key set fail within the call (_validate_production).
THEOREM RotationIsTransparent == Spec => []RotationTransparent
<1>1. IInv => RotationTransparent
  BY DEF IInv, CallInv, Idle, RotationTransparent
<1> QED BY <1>1, AuthInvariant, PTL

\* A withdrawn key dies within _JWKS_CACHE_TTL, though the client and its copy
\* of the keys each live that long (_refresh_jwks, get_signing_key_from_jwt).
THEOREM KeysAreFresh == Spec => []KeyFreshness
<1>1. IInv => KeyFreshness
  <2> SUFFICES ASSUME IInv, call.pc = "accepted", production,
                      call.token.key \notin published
               PROVE  /\ call.token.key \in DOMAIN withdrawn
                      /\ call.decided - withdrawn[call.token.key]
                             <= JWKS_CACHE_TTL
    BY DEF KeyFreshness
  <2>1. /\ call.token.key \in DOMAIN withdrawn
        /\ call.decided - JWKS_CACHE_TTL <= withdrawn[call.token.key]
    BY UnderWay DEF Outcomes, LastedUntil
  <2>2. call.decided \in Nat /\ withdrawn[call.token.key] \in Int
    BY <2>1, UnderWay DEF Outcomes, Call, IInv, WorldInv
  <2> QED BY <2>1, <2>2, ValidatorAssumption
<1> QED BY <1>1, AuthInvariant, PTL

\* Sessions are earned, for every map of groups and roles: what a user may do
\* comes from the claims of a token of our tenant and audience or from the
\* caller's override (EntraClaimMapper.to_user_context).
THEOREM SessionsAreEarned == Spec => []SessionsEarned
<1>1. IInv => SessionsEarned
  <2> SUFFICES ASSUME IInv, NEW s \in sessions
               PROVE
        /\ s.claims.aud = Audience
        /\ production => s.claims.tid = Tenant
        /\ s.via.kind = "full" => ~AppOnly(s.claims)
        /\ s.user.brand_scope # {} =>
              s.via.override # NoOverride \/ ~s.claims.overage
        /\ \A b \in s.user.brand_scope :
              \/ s.via.override # NoOverride /\ b \in s.via.override
              \/ \E g \in s.claims.groups \cap DOMAIN BrandGroupMap :
                    b \in BrandGroupMap[g]
        /\ s.user.clearance_level > INTERNAL =>
              \E r \in s.claims.roles \cap DOMAIN ClearanceRoleMap :
                  ClearanceRoleMap[r] = s.user.clearance_level
    BY DEF SessionsEarned
  <2>1. SessionOK(s) /\ s.claims \in Shapes
    BY DEF IInv, GatewayInv, SessionOK
  <2>2. CASE s.via.kind = "obo" /\ s.user = OboContext(s.claims)
    BY <2>1, <2>2 DEF SessionOK, OboContext, INTERNAL
  <2>3. CASE /\ s.via.kind = "full" /\ ~AppOnly(s.claims)
             /\ s.user = ToUserContext(s.claims, s.via.override)
    <3>1. /\ s.user.brand_scope =
                 IF s.via.override = NoOverride
                 THEN ResolveBrandScope(s.claims) ELSE s.via.override
          /\ s.user.clearance_level = ResolveClearanceLevel(s.claims)
      BY <2>3 DEF ToUserContext
    <3> QED BY <2>1, <2>3, <3>1, BrandFacts, ClearanceFacts DEF SessionOK
  <2> QED BY <2>1, <2>2, <2>3 DEF SessionOK
<1> QED BY <1>1, AuthInvariant, PTL

\* Delegation never widens, for every asset, agent and pair of tokens of the
\* same user (apply_obo_constraints through resolve_access).
THEOREM DelegationDoesNotWiden == Spec => []DelegationNeverWidens
<1>1. IInv => DelegationNeverWidens
  <2> SUFFICES ASSUME IInv, NEW s \in sessions, s.via.kind = "obo",
                      NEW claims \in Shapes,
                      NEW override \in Overrides \cup {NoOverride},
                      NEW agent \in Agents, NEW asset \in TheAssets,
                      NEW right \in Rights,
                      ~Denied(s.user, agent, asset, right)
               PROVE  LET full == ToUserContext(claims, override) IN
                      /\ ~Denied(full, agent, asset, right)
                      /\ DeriveColumnMask(full, asset)
                             \subseteq DeriveColumnMask(s.user, asset)
    BY DEF DelegationNeverWidens
  <2> DEFINE full == ToUserContext(claims, override)
  <2>1. /\ s.user.brand_scope = {} /\ s.user.clearance_level = INTERNAL
    <3>1. SessionOK(s)
      BY DEF IInv, GatewayInv
    <3>2. s.user = OboContext(s.claims)
      BY <3>1 DEF SessionOK
    <3> QED BY <3>2 DEF OboContext
  <2>2. asset.sensitivity \in SensitivityLevel
    BY GatewayAssumption DEF DataAsset
  <2>3. /\ full.clearance_level \in SensitivityLevel
        /\ full.clearance_level >= INTERNAL
    BY ClearanceFacts DEF ToUserContext
  <2>4. asset.brand_tags = {}
    BY <2>1 DEF Denied, MissesBrand
  <2> HIDE DEF full
  <2>5. ~MissesBrand(full, asset)
    BY <2>4 DEF MissesBrand
  <2>6. ~(asset.sensitivity > full.clearance_level)
    BY <2>1, <2>2, <2>3 DEF Denied, SensitivityLevel, PUBLIC, INTERNAL, SECRET
  <2>7. DeriveColumnMask(s.user, asset) = asset.pii_columns
    BY <2>1 DEF DeriveColumnMask, INTERNAL, RESTRICTED
  <2>8. DeriveColumnMask(full, asset) \subseteq asset.pii_columns
    BY DEF DeriveColumnMask
  <2> QED BY <2>5, <2>6, <2>7, <2>8 DEF Denied, full
<1> QED BY <1>1, AuthInvariant, PTL

=============================================================================
