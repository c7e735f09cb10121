------------------------------ MODULE MCGrants ------------------------------
(***************************************************************************)
(* The orchestrator with one token and a catalog that changes: an asset of *)
(* two brands with PII that needs consent, an asset of a third brand with  *)
(* another filter template, and an agent that is registered anew.          *)
(***************************************************************************)
EXTENDS Orchestrator

CONSTANTS analyst, auditor, bot, cost, parts, brandA, brandB, brandC, delta, vin,
          mail, read, byUser, byScope, misspelt, s1, s2, select

MCUserIds == {analyst, auditor}
MCAgentIds == {bot}
MCAssetIds == {cost, parts}
MCBrands == {brandA, brandB, brandC}
MCSources == {delta}
MCColumns == {vin, mail}
MCRights == {read}
MCTemplates == {byUser, byScope, misspelt}
MCBroken == {misspelt}

Asset(level, tags, template, pii, consent) ==
    [source |-> delta, sensitivity |-> level, brand_tags |-> tags,
     row_filter_template |-> template, pii_columns |-> pii,
     consent_required |-> consent]

MCRegistrations ==
    {<<cost, Asset(CONFIDENTIAL, {brandA, brandC}, byUser, {vin}, TRUE)>>,
     <<cost, Asset(INTERNAL, {}, misspelt, {}, FALSE)>>,
     <<parts, Asset(PUBLIC, {brandB}, byScope, {mail}, FALSE)>>}

MCConsentRecords ==
    {<<analyst, cost, TRUE>>, <<analyst, cost, FALSE>>}

\* The auditor has clearance for PII but no brand scope.
MCSessions ==
    {[session_id |-> s1,
      user |-> [user_id |-> analyst, brand_scope |-> {brandA, brandB},
                clearance_level |-> CONFIDENTIAL]],
     [session_id |-> s2,
      user |-> [user_id |-> auditor, brand_scope |-> {},
                clearance_level |-> RESTRICTED]]}

MCAnalystSessions == {s \in MCSessions : s.user.user_id = analyst}

\* The second definition of the agent is above the analyst's clearance.
MCAgents ==
    {[agent_id |-> bot, max_sensitivity |-> level,
      allowed_rights |-> {read}, allowed_sources |-> {delta}] :
        level \in {CONFIDENTIAL, RESTRICTED}}

MCQueries == {select}
MCCanonical == [q \in MCQueries |-> q]
MCAssetLists == {<<>>, <<cost>>, <<parts>>, <<cost, parts>>}

=============================================================================
