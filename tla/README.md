# TLA+ models of the agentic governance library

The library (Python, in process) governs what LLM agents may read: a catalog
holds policy, a gate decides which agents may run, a resolver issues signed
tokens, a server runs queries for tokens, and a cache, a session store and a
context filter stand beside them.  These modules model that machinery, TLC
checks it on small instances, and TLAPS proves its safety properties for all of
them.
Line numbers below are those of `src/`.

## 1. Inventory

| Component | Source | State | Operations | Modules | Status |
|---|---|---|---|---|---|
| Core models, access policy | `core/models.py`, `catalog/catalog.py` 58-176 | none | resolve_access, derive_row_filters, derive_column_mask | `Sensitivity`, `AccessPolicy` | modelled |
| Data catalog | `catalog/catalog.py` | assets, consents, policy version | register_asset, record_consent, get_policy_version | `DataCatalog` | modelled |
| Policy resolver | `policy_resolver/resolver.py` | revoked tokens, revoked sessions, token-session index | request_token, verify_token, revoke_token, revoke_session_tokens | `PolicyResolver`, `ConcurrentRequests` | modelled |
| MCP governance server | `mcp_server/governance_server.py` | replay cache | handle_tool_call | `GovernanceServer`, `ConcurrentCalls`, `FilterPushdown`, `ResultPath` | modelled |
| Agent eligibility | `orchestrator/eligibility.py` | registered agents | register_agent, check_eligibility, gate, list_eligible_agents | `Orchestrator` | modelled |
| Governed cache | `cache/governed_cache.py` | store with expiries | set, get, invalidate_for_user, invalidate_for_policy_version | `GovernedCache` | modelled |
| Session isolation | `agents/session_isolation.py` | outputs, access log, open boundaries | write, read, clear_agent_outputs, enter, exit | `SessionIsolation` | modelled |
| Context governance | `context_governance/middleware.py` | none between calls | govern, govern_structured | `Classifier`, `ContextGovernance`, `ResultPath` | modelled |
| Injection detection | `injection_detection/detector.py` | none | assess, scan_retrieved_data | `InjectionDetector`, `ResultPath` | modelled |
| Entra ID authentication | `auth/token_validator.py`, `claim_mapper.py`, `entra_config.py`, `entra_integration.py` | JWKS client and its age | validate, to_user_context, apply_obo_constraints, authenticate_request, authenticate_obo_request, get_claims | `TokenValidator`, `AuthGateway` | modelled |
| Test token factory | `auth/token_factory.py` | a key pair | make_user_token, make_app_token, make_obo_token | `TokenValidator` (`IssueToken`) | partly |
| Exceptions, examples, tests, docs | `core/exceptions.py`, `examples/`, `tests/`, `docs/` | - | - | - | not modelled |

How they interact: the gateway turns an identity token into a session; the
orchestrating caller registers agents and calls `gate`; with the decision and
the session it calls `request_token`; with the token it calls
`handle_tool_call`, which calls `verify_token`.  The rows it gets go through
`scan_retrieved_data` and `govern_structured` to the receiving agent.  Gate,
resolver and cache read the catalog; nothing writes it but its own operations.
The cache is called by the caller around a query, the session store and the
context filter between two agents.  There are no callbacks and no messages;
state is shared by reference, and no class takes a lock.

What is hard here: time (tokens expire between two steps, seconds are
truncated, entries expire when read), capacity (the replay cache evicts),
state that changes between a decision and its use (catalog, agents, sessions),
several items in one request (filters and masks merged, some denied or
raising), several callers of one cache, a request beside a catalog writer, tool
calls on several threads, signing keys that rotate while fetches fail, filters
put into the text of a query, and a windowed scan at its boundaries.
`PROJECT.json` lists each hazard at its line with the properties about it.

What makes each part correct: a grant is justified by the policy it names; a
query carries the filters and masks of all its assets; a token lives no longer
than its TTL, never after revocation, and is not replayed while it is
remembered; the gate and the resolver agree; a cache hit was computed for the
call it answers, under the policy in force and not too long ago; an agent gets
what it declared, within its ceiling, even through others; no sensitive signal
passes a window boundary; the rows of a result are within the filters and neither PII nor
injections go with them; a session holds what the claims give, and less on
behalf of a user; and key rotation neither refuses good tokens nor keeps dead
keys.

## 2. Plan

Done in this order: access policy and catalog; resolver and server, with the
abstract `TokenLifecycle` and the refinement; the orchestrator in front of them;
the governed cache; session isolation; context governance; then the way of a
result (push-down, masking, injection scan, receiver); authentication in front
of the resolver; the request and the tool call under concurrency; and the proofs
of every safety property of all of these.

Next, in this order:

1. *Refinement* of `ConcurrentCalls` to a lifecycle in which a token may serve
   again after a race, which `ReplayNeedsARace` states as an invariant now.
2. *Gateway calls on several threads*, which share the JWKS client.

## 3. Modules and how they follow the code

**Sensitivity, AccessPolicy.** Levels are 0..4.  `ResolveAccess` is
`resolve_access`: checks 1 to 5 deny, check 6 (consent) raises.  A
`brand IN (...)` filter is the set of its brands, a formatted template is the
template with the values put into it.  `BrokenTemplates` are those with a
placeholder that `format` is not given, on which `derive_row_filters` raises.
An empty `pii_columns` gives an empty mask either way.

**DataCatalog.** `policyVersion` stands for a SHA-256 prefix of the whole
content; it is modelled by the content, so equal contents have equal versions
and a version can return.

**PolicyResolver.** The clock counts ticks, `TicksPerSecond` to the second; the
JWT claims are whole seconds, truncated.  `RequestToken` is the whole method: the
loop (`Grants`), the merge (`MergedFilters`: the last asset to set a key wins;
`MergedMask`: the union), the version, the claims and the index.  A request
that is refused raises and changes nothing, so it is no action.  The signature
is modelled by what it guarantees: only issued tokens decode.  Query texts that
`canonicalize_query` makes equal are equal under `Canonical`.

**GovernanceServer.** `HandleToolCall` is verification, the test against the
replay cache, `_record_proof_use` (drop what expired, evict the oldest at
capacity, insert) and the run with the token's filters and mask.  `executions`
is history: it is what reaches the data source.  Refused calls, and calls
without a token (rejected, or run as they are in dev mode), change no state of
the model.

**TokenLifecycle** is the abstract specification: a token is issued once,
serves only while live, stays closed once closed, and after serving does not
serve again before `Window` other uses.  `GovernanceServer` implements it with
`Window` = the capacity of the replay cache, live = neither expired nor
revoked.

**Orchestrator** extends the server.  `Status`, `Allowed` and `SomeDenied`
follow the loop of `check_eligibility`, including that an asset is allowed
before its filters are derived.  A decision names the agent and the assets it
allows, and nothing else.  `Dispatch` (the caller) later requests a token for
those assets with a session, a right and a context of that agent of its own
choice, since `request_token` sees no decision.  `seen` is history: what the gate
evaluated.

**GovernedCache.** A `set` is: the result is there (`Fetch`, the caller), the
level is tested, the key is built from the version, the label is read from the
catalog a second time, the entry is stored.  A `get` is: key, read, checks.
Between any two of these other callers, catalog writes, invalidations and the
clock move.  The catalog documents its reads as thread-safe and its writes as
done under a lock, which makes each catalog access one step.  An entry that was
encrypted with another cache object's key fails to open, and is deleted as
corrupt.  A result is for whom, for which query and under which policy it was
computed; `late` is history, and says that its policy had changed when `set`
built the key.  An entry may be read at the very instant it expires, as in the
in-process store.  Hashes are functions that may collide; keys hold 16 and 24
hex digits of SHA-256.

**SessionIsolation.** `Enter` reads the store and logs the access; what it
gives is a snapshot.  `written`, `cleared`, `before`, `number`, `origins` and
`understated` are history.  Agents are external: they write under their own id
and give an output any label, as `write` takes it.  `NoDownwardFlow` excuses a
chain only by an output whose label is below what its agent was given.

**Classifier, ContextGovernance.** A text is its length and its signals
(stretches that a pattern or a keyword matches); `Classifier` is
`heuristic_classify`, `detect_pii` and `redact_pii` over them.  The loop of
`_split_into_chunks` and the loop of `govern` are actions.  A chunk shows the
signals it holds in full; that a piece of a signal matches something on its own
is abstracted away.  A chunk size of 0 cuts empty chunks for ever.  What hides a
VIN is a look-alike in the same chunk (`Shadowed`), and what redaction leaves of
a signal depends on its kind (`Removed`): keywords stay, and the placeholder of
a salary is one again.

**FilterPushdown.** `_inject_where_clauses` edits text.  A condition is the
sequence of its top-level disjuncts, each the set of the rows that satisfy it,
and `AndText` is what concatenating two conditions with AND means under SQL's
precedence: the last disjunct of the one meets the first of the other.  Trailing
clauses are known by whether a keyword pattern finds them: none finds a `GROUP
BY` or `ORDER BY` with other than one space, a `FETCH`, a `WINDOW` or a
semicolon.  A query is one SELECT.  A clause in the wrong place is
an error of the data source.

**InjectionDetector, ResultPath.** A value is the number of patterns found in
each of the four layers, and its signals.  `ShouldBlock` is the disjunction of
the test in `assess` and the validator of the assessment.  `ResultPath` takes a
result from the token's filters through execution and masking, the scan and
`govern_structured`; the caller that goes on unless an assessment says
`should_block` is external.

**TokenValidator, AuthGateway.** `_validate_production` is split where it
fetches: metadata, keys, and the lookup in the copy at hand.  Either fetch may
fail, and the provider publishes and withdraws keys between any two steps.
`PyJWKClient` is modelled from how it is used and documented: it keeps a copy of
the key set for its lifespan, fetches once more for a key that is not in it,
and raises `PyJWKClientError` when a fetch fails or the key is still missing.
`jwt.decode` is modelled with the leeway it is given, none.  Claims are those
the code reads, with the audience and the tenant; a map value that is no level is
`NoLevel`, and `NoUser` an empty oid and sub, on which the mapping raises.
`withdrawn`, `decided` and `lostSets` are history.

**ConcurrentRequests.** `request_token` at the grain of its reads: the asset,
the asset again inside `resolve_access`, the consent, and the version at the
end, beside a writer that changes content first and version second.  The
catalog's docstring (31-32) asks for a lock around writes, so there is one
writer; readers take none.  `window` is history: the contents in force since the
request began.

**ConcurrentCalls.** `handle_tool_call` at the grain of its accesses to
`_used_token_ids`, of which a single one is atomic in CPython.  The library is
meant to be served by an ASGI application (docstring, 27) and takes no lock.
The clock is
read once per call, before the expired entries are collected.
The comprehension raises when the dictionary changes its size under it, `del`
raises on a key that is gone, and a negative slice counts from the end, as in
Python.  The order of deletions within one call is left open, which adds
behaviours.  Revocation is left out, for the replay cache does not depend on it.

## 4. Runs

| Run | What it shows | Bounds |
|---|---|---|
| `grants` | grants, filters, masks and the gate while policy changes | two assets (one of two brands, with PII, consent and a template; one of a third brand with other PII and another template), three registrations of which one has a broken template, two users, two definitions of one agent, one token, clock 0..1 |
| `replay` | replay cache, expiry, revocation, refinement of `TokenLifecycle` | three tokens, two sessions, capacity 2, half-second ticks, clock 0..3, 4 runs |
| `cache` | whom, what and which policy a hit is for, and its lifetime | two callers, two cache objects with own keys, two identities with one hash, two queries of which one in two spellings, a policy that changes once, levels CONFIDENTIAL, RESTRICTED and SECRET, clock 0..2, 3 calls |
| `session` | need to know, flows through chains, nothing lost | three agents, two types, two requests and none, two levels in any label, 2 outputs, 2 reads |
| `context` | windows, redaction, blocking, termination | OVERLAP 2 for 64; chunk sizes 0, 1, 2, 3, 5, 9; lengths 0, 3, 7; two signals of 2 to 4 characters |
| `result` | push-down, masking, injection scan, the receiver's ceiling | three rows of two brands, two columns, every WHERE clause of up to two disjuncts, five orders of trailing clauses, an alias, two templates of which one has an OR, three users, five assets, every caller mask |
| `auth` | key rotation, fetch failures, claim mapping, delegation, termination | two signing keys, one token for each, six shapes of claims (own, too many groups, nobody, a service, another tenant, another audience), a cache lifetime of 1 and a token lifetime of 3 in a clock of 0..2, no call after the first session |
| `threads` | a request beside a writer; calls of two threads | four registrations of two assets, a consent given or withdrawn, up to 4 writes, requests for none, one and two assets; two threads, three tokens of two expiries, capacity 1, up to 4 runs |

Why the bounds are enough.  *grants*: one token already sees every order of
issue, change, return and use, and one list holds two assets of disjoint
brands, which is what merging needs.
*replay*: eviction of a live token needs one token more than the capacity, a
second use one run more; half seconds make truncation visible.  *cache*: a
collision needs two identities, or two queries of one; a torn or stale entry one
change inside a set and a get after it; replacement under a reader a second
caller, and a second cacheable level for its lifetime to differ.  *session*: a
chain needs three agents and two outputs.  *context*: 0, and sizes below, at,
just above and well above the overlap, and stretches just within and just
beyond it.
*result*: three rows tell a filter that is missed from one that binds to the
wrong disjunct; push-down is a function of one query, so more of them add
nothing.  *auth*: a withdrawn key that survives needs one key published and one
withdrawn inside a cache lifetime and a tick beyond it; sessions are functions
of one token's claims.  *threads*: the request and the calls share no state that
changes, so the run explores each by itself; tearing a request needs two writes
between its first and its last read, and four also give a content back; an
overrun of the replay cache needs two threads and a full cache, a replay two
calls with one token, an eviction a second token, and a purge beside them a
third.
`Horizon`, `LastTick`, `MaxExecutions`, `MaxRuns`, `MaxCalls`, `MaxWrites`,
`MaxOutputs`, `MaxReads`, `MaxSessions` and `TokensPerKey` bound counters and
histories, so the models stop when they are used up; that, and a call that has
returned, is why deadlock is not checked.

Four more runs each refute one statement of the documentation or a comment
(the findings in `PROJECT.json` quote it):

| Run | Statement | What the code does |
|---|---|---|
| `row_templates` | the catalog's row filters are pushed down | of several templates only the last is kept |
| `cache_purge` | a user's entries are evicted | the pattern never matches the hashed key |
| `where_or` | push-down is safe for simple SELECTs | an OR in the query escapes the filters |
| `skew` | the configured clock skew is tolerated | the decoder does not read the option it is passed in |

Further places where text and code differ, or a reader may expect more than
there is; the models have the code's behaviour:

- *Single use* (README 281, `core/models.py` 159).  At capacity the replay cache
  forgets valid tokens, which can run again; `ReplayMemory` says when, and
  `SingleUseWithRoom` proves that it takes a full cache.  Two threads can also
  pass the membership test with one token; `ReplayNeedsARace` says that it takes
  that, an eviction, or expiry.
- *Stale policy* (`catalog.py` 193, README 283).  The version in a token is
  never compared with the catalog, so a token runs under the policy of its issue
  until it expires.  Likewise `set` of the cache labels a result with the
  version at the time of storing (`governed_cache.py` 101, README 339), so one
  that was stale before `set` built its key is returned as current;
  `ResultIsCurrent` excepts exactly those.
- *Torn requests.*  With one write during a request each asset is granted by the
  content before or after it, but the filters may be of the one and the decision
  of the other; with two writes a token can be issued that no content grants.
- *Elevated identity* (README 248-251, `eligibility.py` 82).  Only the gate
  compares the clearance of the user with the ceiling of the agent.  A decision
  keeps neither, and `request_token` does not compare them, so a caller that
  hands it another context of the agent, or has registered one since, gets a
  token for an agent above the user, as far as the user's own clearance goes.
- *Several brands.*  When two assets of a request have brand tags, the brand
  filter of the later one replaces that of the earlier.  `BrandIsolation` holds
  all the same, for either lies within the user's scope; the rows of the earlier
  asset are filtered by brands of the later.
- *Boundaries* (`session_isolation.py` 164).  `__exit__` clears nothing.
  *Labels* (23, 60): `write` accepts any, and INTERNAL is the default, whatever
  the agent was given.
- *VIN look-alikes* (`middleware.py` 82).  Only the first match of the VIN
  pattern is looked at, so a look-alike hides a VIN behind it in the same chunk;
  `NoSignalPasses` and `ReceiverCeiling` except exactly this.
- *Chunk sizes* (`middleware.py` 171, 379).  The constructor takes 0, and the
  loop then never ends on a text that is not empty; `GovernEnds` says so.  For
  sizes up to the overlap the docstring (360-362) promises a single chunk, and the
  code cuts chunks that do not overlap.
- *Masks go by result names* (`governance_server.py` 276): a PII column under an
  alias is not masked.  *Short fields* (`detector.py` 208), of ten characters or
  fewer, are not scanned.  *Thresholds* (`detector.py` 88): boundary and tool
  patterns are counted apart, so that one of each is MEDIUM.
- *Authentication.*  The issuer is required and not compared, `validate_tenant =
  False` selects the test key pair and not just a missing tenant check, an
  app-only token is accepted on the on-behalf-of path (`entra_integration.py`
  75), and a session carries no expiry of the token it comes from.

Every property of a passing run has a mutant of the code that breaks it.

**Fairness.** `ContextGovernance` and `AuthGateway` state weak fairness of the
step of a call that has begun: the interpreter carries it on, and a fetch ends,
for `urlopen` has a timeout of ten seconds and `PyJWKClient` has one of its own;
it may end in failure, always.  With a chunk size of 0 the steps go on and
nothing ends.  Nothing is assumed of the provider, the clock or
the callers.  Hence `GovernEnds` and `ValidationEnds`.  The other parts act when
they are called, wait for nothing, and promise nothing about when, so they have
no liveness property.

## 5. Proofs

Every invariant and action property of the passing runs is a theorem, and so is
the refinement of `TokenLifecycle`: for every value of the constants, from the
named assumptions of the modules, which TLC evaluates in the runs.  Besides types
these say: tokens and threads are finitely many; a constant that stands for
`None` (`NoTemplate`, `NoRequest`, `NoOverride`, `NoUser`, `NoClient`, `NoKeys`) is none of
the values it stands beside; equal canonical texts are canonical
(`ResolverAssumption`); a caller may ask for whatever list a gate leaves of one
it may ask for (`OrchestratorAssumption`); a SECRET result has no TTL
(`CacheAssumption`, as `SENSITIVITY_TTL` has it); the test key is none of the
provider's (`ValidatorAssumption`); and a signal is a non-empty stretch of its
text, as a match of a regular expression is (`ContextAssumption`).  The inductive
invariants were model-checked on the runs before they were proved.

**`Lemmas`**: a set with numbers for its elements has a least one, the maximum
of levels, and what the classifier makes of a signal.  What the library states
for an arbitrary predicate cannot be used here, so an argument over the
positions of a list takes the smallest counterexample (`LeastExists`).

**`Governance_proofs`** (catalog, resolver, server, orchestrator):

- `TypeCorrect`.  The step that needs an argument is the merge of filters: the
  last position that sets a key exists and sets it (`MaxOfPositions`,
  `MergedFiltersFacts`).
- `ReplayInvariant`.  Bound and memory are not inductive by themselves: that the
  evicted entry is old enough needs that every entry records a run of its token
  (`CacheEntries`).  Eviction takes the entry with the least position
  (`EvictionFacts`); a full cache of distinct positions, all larger, then means
  at least as many later runs as the capacity.  `CacheStaysBounded` and
  `CacheRemembers` follow.
- `ServerImplementsLifecycle`, one case per action: a request issues
  (`RequestIssues`), a tick or a revocation closes a set (`EndingCloses`), a run
  serves (`RunServes`, by `CacheRemembers`), all else stutters.
  `WindowSeparatesUses` is what the abstract lifecycle promises, carried over to
  the server; `SingleUseWithRoom`: with room for every token that is issued, no
  token runs twice, as long as calls come one at a time.
- `GrantInv` says of each token that its policy version justifies it and that
  its filters and mask follow from that version's content, and of each run that
  it has those of its token.  This is inductive because `policyVersion` is the
  content whenever a token is issued.  `VersionsJustifyGrants`,
  `BrandsStayIsolated` and `PiiStaysMasked` follow.  `LifetimesHold` rests on the
  two bounds of truncation.
- `GateInv`: a decision is granted by the version it was taken in, which no
  later step changes.  That the list of a decision holds only what the
  catalog grants is `KeepFacts`, about the loop of `check_eligibility`.  When the
  version is that of the decision again, so is the content: `GateAgrees`.
- `OrchestratedImplementsServer`: behind the gate the system implements the
  server's specification, so `OrchestratedGrants` carries the results over.

**`Threads_proofs`** (`ConcurrentRequests`, `ConcurrentCalls`):

- `RequestsInvariant`.  What a request has taken so far must be described while
  it goes on: there is a choice of a content of the window for each position
  done, from which filters and mask are merged (`Taken`), and the asset in hand
  is that of some content of the window (`CurrentInv`).  The invariant has a
  window of two contents differ in the assets or in the consents and not in
  both (`OneApart`): so a denial tested on one and a consent read from the other
  are both those of one of them.  `VersionWitnessed` and `TokensAreJustified`
  follow.
- `ReplayTakesARace`, for any number of threads.  It is not inductive: a second
  run is committed to when its call tests the cache, many steps before it is
  recorded.  The invariant therefore says that a token that ran is in the cache,
  or was evicted, or has expired (`RunsRemembered`), so that a test that misses
  it has an excuse; that a call past its test carries it if it needs it
  (`CallOK`); that the victims of a purge have expired, so that removing them
  loses nothing; and that each run has it (`RunsExcused`).  `CallsTypeCorrect`
  rests on the same: an entry's place is a run of its token, and only what has
  run is removed.
- `OverrunIsBounded`.  The size alone is not inductive.  `OverrunInv` adds the
  threads that may insert without removing first: a thread becomes one of them
  when it finds room or has removed something, and stops when it inserts.

**`Result_proofs`**: `IInv` is that the result is what execution makes of the
token and the query, that nothing blocked gets past the scan, and what the
receiver is given.  `PushDownIsExact` is then set algebra over `AndText`: a
parenthesis is a single disjunct, so it meets only the first of the query's, and
all rows of query and filters satisfy one of the disjuncts.  `PiiIsLeftBehind`
follows the mask through both paths.  `EvidenceIsMonotone` splits the four
layers, each monotone (`LayerRiskMonotone`) under a maximum that is.
`InjectionIsStopped` combines the scan with the validator of the assessment.
`OnlyOddSpellingBreaks` finds the clause the filter was put behind;
`CeilingHolds` has the classifier see each signal that is not hidden
(`SignalCounts`).

**`Cache_proofs`**: the invariant says of an entry what its key and its expiry
record about its data, and of each call what it has read and checked so far;
nothing another caller does can change an entry that a get holds.  Currency goes
by the key: `set` builds it from the version it has computed under or has lost
already (`late`), and `get` from the version in force when it begins, so that
equal keys relate the two whatever the labels say (`HitFacts`).

**`Session_proofs`**: the invariant numbers the outputs and has each at least as
sensitive as everything it was made from, unless a label on the way is
understated (`Through`), which carries `NothingFlowsDown` through chains, also of
outputs that have been cleared.

**`Auth_proofs`**: every key in a copy was published when the copy was fetched
(`ClientInv`), and the copy is dropped with its age, hence `KeysAreFresh`.  A
call in which a published key is missing has lost a fetch, and two once the
refresh was forced (`CallInv`), hence `RotationIsTransparent`.  Each session is
what the mapping makes of its claims, and `DelegationDoesNotWiden` compares the
two mappings rule by rule of `resolve_access`.

**`Context_proofs`**: the chunks cut so far cover every stretch of OVERLAP + 1
characters that begins before the next chunk (`CoverInv`): a chunk that is not
the last reaches OVERLAP beyond the beginning of the next.  A signal in a chunk
counts in its level unless a look-alike of that chunk hides it (`ChunkShows`),
and so does what redaction leaves of it: `NoWholeSignalPasses` follows.  With a
chunk size of 0 the chunks are empty and no theorem but the types says anything.

Only model-checked: `GovernEnds` and `ValidationEnds`.  They are liveness, for
which the provers have no ENABLED.  Not theorems either are the four statements
that runs refute.

## 6. Not modelled

The wording of reasons, logs and previews; cryptography beyond who can decode;
subqueries and CTEs, which the code's own comment excludes, UNION and the like,
and a WHERE inside a literal or a name; negative chunk sizes, and a replay
capacity below 1; the simulated data source; identifier validation; revocation
state of several processes, which the library does not share; clocks that step
back; gateway calls on several threads; reading the configuration from the
environment; `stats`, `find_assets_by_*`, `detect_brand_tags`, the demo catalog.
Of the test token factory only what its tokens say is modelled.  The exceptions
have no behaviour: a call that raises changes what it had changed before.  The
examples and tests are callers, and have no state of their own to get wrong.
