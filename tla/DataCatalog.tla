---------------------------- MODULE DataCatalog ----------------------------
(***************************************************************************)
(* DataCatalog (catalog/catalog.py): the registered assets, the recorded   *)
(* consents and the policy version, a checksum recomputed by every write.  *)
(* The checksum is modelled by what it identifies: the registered          *)
(* definitions and the consent records themselves.  Two equal contents     *)
(* have equal versions, so a version can come back.                        *)
(***************************************************************************)
EXTENDS AccessPolicy, Functions

CONSTANTS
    Registrations,    \* the <<asset_id, DataAsset>> that callers register
    ConsentRecords    \* the <<subject, asset_id, granted>> that they record

ASSUME CatalogAssumption ==
    /\ Registrations \subseteq AssetIds \X DataAsset
    /\ ConsentRecords \subseteq UserIds \X AssetIds \X BOOLEAN

VARIABLES
    assets,           \* asset_id -> DataAsset, on the registered ids
    consentState,     \* <<subject, asset_id>> -> granted, on those recorded
    policyVersion

catalogVars == <<assets, consentState, policyVersion>>

\* d[key] = value, for a dictionary d.
Put(d, key, value) ==
    [k \in DOMAIN d \cup {key} |-> IF k = key THEN value ELSE d[k]]

ComputeVersion(registered, consents) ==
    [assets |-> registered, consent |-> consents]

CatalogTypeOK ==
    /\ DOMAIN assets \subseteq AssetIds
    /\ assets \in [DOMAIN assets -> DataAsset]
    /\ DOMAIN consentState \subseteq UserIds \X AssetIds
    /\ consentState \in [DOMAIN consentState -> BOOLEAN]

CatalogInit ==
    /\ assets = [aid \in {} |-> {}]
    /\ consentState = [pair \in {} |-> FALSE]
    /\ policyVersion = ComputeVersion(assets, consentState)

RegisterAsset(aid, asset) ==
    /\ assets' = Put(assets, aid, asset)
    /\ policyVersion' = ComputeVersion(assets', consentState)
    /\ UNCHANGED consentState

\* Mutant: recording a consent does not recompute the version.
RecordConsentKeepsVersion(subject, aid, granted) ==
    /\ consentState' = Put(consentState, <<subject, aid>>, granted)
    /\ UNCHANGED <<assets, policyVersion>>

RecordConsent(subject, aid, granted) ==
    /\ consentState' = Put(consentState, <<subject, aid>>, granted)
    /\ policyVersion' = ComputeVersion(assets, consentState')
    /\ UNCHANGED assets

----------------------------------------------------------------------------
(* What the resolver reads of a catalog content.                           *)

\* The pairs for which _check_consent answers True.
Consents(consents) == {pair \in DOMAIN consents : consents[pair]}

Access(content, user, agent, aid, right) ==
    ResolveAccess(user, agent, aid, content.assets[aid], right,
                  Consents(content.consent))

=============================================================================
