------------------------------ MODULE MCReplay ------------------------------
(***************************************************************************)
(* GovernanceServer with several tokens and one open asset: expiry,        *)
(* revocation and a replay cache that fills up.                            *)
(***************************************************************************)
EXTENDS GovernanceServer

CONSTANTS analyst, bot, other, parts, postgres, read, s1, s2, select, spaced

MCUserIds == {analyst}
MCAgentIds == {bot, other}
MCAssetIds == {parts}
MCSources == {postgres}
MCRights == {read}

MCRegistrations ==
    {<<parts, [source |-> postgres, sensitivity |-> PUBLIC, brand_tags |-> {},
               row_filter_template |-> NoTemplate, pii_columns |-> {},
               consent_required |-> FALSE]>>}

MCSessions ==
    {[session_id |-> s,
      user |-> [user_id |-> analyst, brand_scope |-> {},
                clearance_level |-> INTERNAL]] : s \in {s1, s2}}

MCAgents ==
    {[agent_id |-> bot, max_sensitivity |-> INTERNAL,
      allowed_rights |-> {read}, allowed_sources |-> {}]}

\* The spaced query differs from the other in its whitespace alone.
MCQueries == {select, spaced}
MCCanonical == [q \in MCQueries |-> select]
MCAssetLists == {<<parts>>}

=============================================================================
