------------------------------- MODULE MCAuth -------------------------------
(***************************************************************************)
(* The gateway and its validator with two signing keys and a token under   *)
(* each: of an analyst, with groups and roles or with too many groups; of  *)
(* nobody; of a service; of another tenant; or for another audience.       *)
(***************************************************************************)
EXTENDS AuthGateway

CONSTANTS analyst, bot, brandA, brandB, delta, vin, read, assetA, assetOpen,
          team, reader, admin, odd

MCUserIds == {analyst, bot}
MCAgentIds == {bot}
MCAssetIds == {assetA, assetOpen}
MCBrands == {brandA, brandB}
MCSources == {delta}
MCColumns == {vin}
MCRights == {read}

MCGroups == {team}
MCRoles == {reader, admin, odd}
MCBrandGroupMap == [g \in {team} |-> {brandA}]
MCClearanceRoleMap ==
    [r \in {reader, admin, odd} |->
        CASE r = reader -> PUBLIC [] r = admin -> RESTRICTED [] r = odd -> NoLevel]

Claims(groups, overage, roles) ==
    [oid |-> analyst, app |-> FALSE, groups |-> groups, overage |-> overage,
     roles |-> roles, tid |-> Tenant, aud |-> Audience]

Own == Claims({team}, FALSE, {reader, admin})

MCShapes ==
    {Own, Claims({}, TRUE, {odd}),
     [Claims({}, FALSE, {}) EXCEPT !.oid = NoUser],
     [Own EXCEPT !.oid = bot, !.app = TRUE, !.groups = {}],
     [Own EXCEPT !.tid = "other"], [Own EXCEPT !.aud = "other"]}

MCOverrides == {{brandB}}

MCAgents ==
    {[agent_id |-> bot, max_sensitivity |-> RESTRICTED,
      allowed_rights |-> {read}, allowed_sources |-> {}]}

Asset(level, tags) ==
    [source |-> delta, sensitivity |-> level, brand_tags |-> tags,
     row_filter_template |-> NoTemplate, pii_columns |-> {vin},
     consent_required |-> FALSE]

MCTheAssets == {Asset(INTERNAL, {}), Asset(INTERNAL, {brandA}),
                Asset(RESTRICTED, {brandB})}

=============================================================================
