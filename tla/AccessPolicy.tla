---------------------------- MODULE AccessPolicy ----------------------------
(***************************************************************************)
(* The access decisions of the data catalog (catalog/catalog.py) as        *)
(* operators over the contexts and assets of core/models.py: whether a     *)
(* user and an agent may use an asset, which row filters the use carries   *)
(* and which columns it hides.  Nothing here has state.                    *)
(***************************************************************************)
EXTENDS Sensitivity, FiniteSets

CONSTANTS
    UserIds, AgentIds, AssetIds, Brands, Sources, Columns, Rights,
    Templates,        \* row filter templates
    BrokenTemplates,  \* those that name a placeholder format() is not given
    NoTemplate        \* row_filter_template = None

ASSUME TemplatesAssumption ==
    /\ BrokenTemplates \subseteq Templates
    /\ NoTemplate \notin Templates

----------------------------------------------------------------------------
(* core/models.py                                                          *)

UserContext  == [user_id : UserIds,
                 brand_scope : SUBSET Brands,
                 clearance_level : SensitivityLevel]

AgentContext == [agent_id : AgentIds,
                 max_sensitivity : SensitivityLevel,
                 allowed_rights : SUBSET Rights,
                 allowed_sources : SUBSET Sources]

DataAsset    == [source : Sources,
                 sensitivity : SensitivityLevel,
                 brand_tags : SUBSET Brands,
                 row_filter_template : Templates \cup {NoTemplate},
                 pii_columns : SUBSET Columns,
                 consent_required : BOOLEAN]

----------------------------------------------------------------------------
(* DataCatalog.resolve_access: checks 1 to 5 deny, check 6 raises.         *)

MissesBrand(user, asset) ==
    asset.brand_tags # {} /\ asset.brand_tags \cap user.brand_scope = {}

MissesSource(agent, asset) ==
    agent.allowed_sources # {} /\ asset.source \notin agent.allowed_sources

Denied(user, agent, asset, right) ==
    \/ asset.sensitivity > agent.max_sensitivity
    \/ asset.sensitivity > user.clearance_level
    \/ right \notin agent.allowed_rights
    \/ MissesBrand(user, asset)
    \/ MissesSource(agent, asset)

\* consents is the set of <<subject, asset>> pairs with consent on record.
ResolveAccess(user, agent, aid, asset, right, consents) ==
    IF Denied(user, agent, asset, right) THEN "denied"
    ELSE IF asset.consent_required /\ <<user.user_id, aid>> \notin consents
         THEN "consent_blocked"
         ELSE "granted"

----------------------------------------------------------------------------
(* DataCatalog.derive_row_filters and derive_column_mask.                  *)

FilterKeys == {"brand_filter", "row_template_filter"}

ResolvedTemplate == [template : Templates \cup {NoTemplate},
                     user_id : UserIds, brand_scope : SUBSET Brands]

\* A filter map: a "brand IN (...)" clause stands for the set of its brands,
\* a formatted template for the template and the values put into it.
IsFilterMap(f) ==
    /\ f = [k \in DOMAIN f |-> f[k]]
    /\ DOMAIN f \subseteq FilterKeys
    /\ "brand_filter" \in DOMAIN f => f["brand_filter"] \in SUBSET Brands
    /\ "row_template_filter" \in DOMAIN f =>
           f["row_template_filter"] \in ResolvedTemplate

TemplateRaises(asset) == asset.row_filter_template \in BrokenTemplates

\* Mutant: the filter names every brand of the asset.
AllBrandTags(user, asset) == asset.brand_tags

\* The brands of the asset that the user may see.
VisibleBrands(user, asset) == asset.brand_tags \cap user.brand_scope

DeriveRowFilters(user, asset) ==
    LET brands == VisibleBrands(user, asset)
        keys   == {k \in FilterKeys :
                     \/ k = "brand_filter" /\ brands # {}
                     \/ k = "row_template_filter"
                        /\ asset.row_filter_template # NoTemplate}
    IN  [k \in keys |->
            IF k = "brand_filter" THEN brands
            ELSE [template    |-> asset.row_filter_template,
                  user_id     |-> user.user_id,
                  brand_scope |-> user.brand_scope]]

DeriveColumnMask(user, asset) ==
    IF user.clearance_level < RESTRICTED THEN asset.pii_columns ELSE {}

=============================================================================
