------------------------- MODULE ConcurrentRequests -------------------------
(***************************************************************************)
(* PolicyResolver.request_token (policy_resolver/resolver.py) beside       *)
(* writes to the catalog it reads.  The catalog is "thread-safe for read   *)
(* operations", and its writes are made "under a lock in production"       *)
(* (catalog/catalog.py): one writer at a time, but the lock does not keep  *)
(* a request from reading between the two assignments of a write, or       *)
(* from making one of its many reads before a write and the next after it. *)
(* A request shares nothing with another but the index of its tokens,      *)
(* each of which has an entry of its own, so that one request is enough.   *)
(***************************************************************************)
EXTENDS DataCatalog, SequencesExt

CONSTANTS
    Users, Agents,    \* the users and agents that requests are for
    AssetLists,       \* the asset_ids arguments
    MaxWrites         \* bound: writes to the catalog

ASSUME RequestsAssumption ==
    /\ Users \subseteq UserContext
    /\ Agents \subseteq AgentContext
    /\ AssetLists \subseteq Seq(AssetIds)
    /\ MaxWrites \in Nat

VARIABLES
    writing,          \* a writer has the lock
    writes,           \* writes begun
    request           \* the request under way

requestVars == <<catalogVars, writing, writes, request>>

NoRequest == [pc |-> "idle"]

\* A local variable that is not assigned yet.
Unset == <<>>

Content == [assets |-> assets, consent |-> consentState]

Has(pc) == request.pc = pc

Raise == request' = NoRequest

----------------------------------------------------------------------------
(* register_asset and record_consent: the content, then the version        *)

\* History: the contents that were in force while the request was under way.
Witnessed(content) ==
    IF Has("idle") THEN request
    ELSE [request EXCEPT !.window = @ \cup {content}]

BeginWrite ==
    /\ ~writing
    /\ writes < MaxWrites
    /\ writing' = TRUE
    /\ writes' = writes + 1
    /\ UNCHANGED policyVersion
    /\ request' = Witnessed([assets |-> assets', consent |-> consentState'])

InstallAsset(aid, asset) ==
    /\ assets' = Put(assets, aid, asset)
    /\ UNCHANGED consentState
    /\ BeginWrite

InstallConsent(subject, aid, granted) ==
    /\ consentState' = Put(consentState, <<subject, aid>>, granted)
    /\ UNCHANGED assets
    /\ BeginWrite

\* Mutant: the version does not depend on the consents.
VersionOfAssets == policyVersion' = ComputeVersion(assets, <<>>)

RecomputeVersion == policyVersion' = ComputeVersion(assets, consentState)

EndWrite ==
    /\ writing
    /\ writing' = FALSE
    /\ RecomputeVersion
    /\ UNCHANGED <<assets, consentState, writes, request>>

----------------------------------------------------------------------------
(* request_token, one read of the catalog at a time                        *)

UndisturbedCatalog == UNCHANGED <<catalogVars, writing, writes>>

\* A write that is not complete has been in force since before the request.
RequestToken(user, agent, ids, right) ==
    /\ Has("idle")
    /\ request' = [pc      |-> IF ids = <<>> THEN "version" ELSE "asset",
                   user    |-> user,
                   agent   |-> agent,
                   ids     |-> ids,
                   right   |-> right,
                   next    |-> 1,      \* the position in asset_ids
                   filters |-> <<>>,   \* all_filters
                   masked  |-> {},     \* all_masked_columns
                   asset   |-> Unset,
                   version |-> Unset,
                   window  |-> {policyVersion, Content}]
    /\ UndisturbedCatalog

Aid == request.ids[request.next]

\* get_asset: the definition that filters and mask are derived from.
GetAsset ==
    /\ Has("asset")
    /\ IF Aid \in DOMAIN assets
       THEN request' = [request EXCEPT !.pc = "resolve", !.asset = assets[Aid]]
       ELSE Raise
    /\ UndisturbedCatalog

\* d.update(new), for two dictionaries.
Update(d, new) ==
    [k \in DOMAIN d \cup DOMAIN new |-> IF k \in DOMAIN new THEN new[k] ELSE d[k]]

\* What follows the access decision reads the catalog no more.
Derived(r) ==
    LET last == r.next = Len(r.ids) IN
    [r EXCEPT
        !.filters = Update(r.filters, DeriveRowFilters(r.user, r.asset)),
        !.masked  = r.masked \cup DeriveColumnMask(r.user, r.asset),
        !.next    = IF last THEN r.next ELSE r.next + 1,
        !.pc      = IF last THEN "version" ELSE "asset"]

Allow == IF TemplateRaises(request.asset) THEN Raise
         ELSE request' = Derived(request)

\* resolve_access gets the asset once more, and decides on that.
ResolveAccessTo ==
    /\ Has("resolve")
    /\ IF \/ Aid \notin DOMAIN assets
          \/ Denied(request.user, request.agent, assets[Aid], request.right)
       THEN Raise
       ELSE IF assets[Aid].consent_required
            THEN request' = [request EXCEPT !.pc = "consent"]
            ELSE Allow
    /\ UndisturbedCatalog

\* Mutant: a consent that was never recorded counts as given.
ConsentUnlessWithdrawn(user_id, aid) ==
    <<user_id, aid>> \in DOMAIN consentState =>
        consentState[<<user_id, aid>>]

\* _check_consent.
CheckConsent(user_id, aid) == <<user_id, aid>> \in Consents(consentState)

ResolveConsent ==
    /\ Has("consent")
    /\ IF CheckConsent(request.user.user_id, Aid) THEN Allow ELSE Raise
    /\ UndisturbedCatalog

\* get_policy_version: the token is signed with what has been read.
ReadVersion ==
    /\ Has("version")
    /\ request' = [request EXCEPT !.pc = "issued", !.version = policyVersion]
    /\ UndisturbedCatalog

Return ==
    /\ Has("issued")
    /\ Raise
    /\ UndisturbedCatalog

----------------------------------------------------------------------------

RequestsInit ==
    /\ CatalogInit
    /\ writing = FALSE
    /\ writes = 0
    /\ request = NoRequest

WriterStep ==
    \/ \E r \in Registrations : ~writing /\ InstallAsset(r[1], r[2])
    \/ \E c \in ConsentRecords : ~writing /\ InstallConsent(c[1], c[2], c[3])
    \/ EndWrite

RequestStep ==
    \/ \E user \in Users, agent \in Agents, ids \in AssetLists,
          right \in Rights : RequestToken(user, agent, ids, right)
    \/ GetAsset \/ ResolveAccessTo \/ ResolveConsent \/ ReadVersion \/ Return

RequestsNext == WriterStep \/ RequestStep

RequestsSpec == RequestsInit /\ [][RequestsNext]_requestVars

----------------------------------------------------------------------------
(* Properties                                                              *)

\* Type invariant: between writes the version is that of the content; a token
\* is for registered columns, and its filters are a filter map.
RequestsTypeOK ==
    /\ CatalogTypeOK
    /\ ~writing => policyVersion = Content
    /\ ~Has("idle") =>
          /\ IsFilterMap(request.filters)
          /\ request.masked \subseteq Columns
          /\ Content \in request.window

\* The version of a token was that of the policy at some time during the
\* request, however many writes there were and whatever they had done by
\* then, consents included (get_policy_version, read after the last check).
VersionOfTheTime == Has("issued") => request.version \in request.window

\* What an asset contributes to a token under some content.
FiltersFrom(content, aid) == DeriveRowFilters(request.user, content.assets[aid])
MaskFrom(content, aid) == DeriveColumnMask(request.user, content.assets[aid])

\* filters are the maps given[1], given[2] and so on, merged in that order: of
\* two values for a key the later one stays.
MergedInOrder(filters, given) ==
    /\ DOMAIN filters = UNION {DOMAIN given[i] : i \in DOMAIN given}
    /\ \A k \in DOMAIN filters :
          \E i \in DOMAIN given :
             /\ k \in DOMAIN given[i] /\ filters[k] = given[i][k]
             /\ \A j \in DOMAIN given : k \in DOMAIN given[j] => j <= i

\* What the positions 1 to n of asset_ids put into the token comes, position by
\* position, from a content that was in force during the request.
TakenFromWindow(n) ==
    \E from \in [1..n -> request.window] :
        /\ \A i \in 1..n : request.ids[i] \in DOMAIN from[i].assets
        /\ request.masked =
              UNION {MaskFrom(from[i], request.ids[i]) : i \in 1..n}
        /\ MergedInOrder(request.filters,
                         [i \in 1..n |-> FiltersFrom(from[i], request.ids[i])])

\* The content grants the request the asset, consent included.
GrantedBy(content, aid) ==
    /\ aid \in DOMAIN content.assets
    /\ Access(content, request.user, request.agent, aid, request.right)
          = "granted"

\* The hidden columns and the filters of a token are those of a registered
\* definition of each asset, merged in order, however many writes there were.
\* And one write cannot tear a request: if no more than one changes the catalog
\* meanwhile, each asset of the token is granted, consent included, by the
\* content before or the content after, although request_token reads the
\* definition twice and the consent apart.
RequestJustified ==
    Has("issued") =>
        /\ TakenFromWindow(Len(request.ids))
        /\ Cardinality(request.window) <= 2 =>
              \A i \in DOMAIN request.ids :
                  \E content \in request.window :
                      GrantedBy(content, request.ids[i])

=============================================================================
