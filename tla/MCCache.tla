------------------------------ MODULE MCCache ------------------------------
(***************************************************************************)
(* GovernedCache with two callers: a catalog in which an asset is          *)
(* registered at some point, two identities whose hashed text is the same  *)
(* ("a:b" with "c", "a" with "b:c"), two queries one of which has a second *)
(* spelling, and a second cache object with an encryption key of its own.  *)
(***************************************************************************)
EXTENDS GovernedCache

CONSTANTS c1, c2, ours, theirs, k1, k2, ab, a, c, bc, hash, cost, delta,
          select, padded, count

MCUserIds == {ab, a}
MCAgentIds == {c, bc}
MCAssetIds == {cost}
MCSources == {delta}

MCRegistrations ==
    {<<cost, [source |-> delta, sensitivity |-> PUBLIC, brand_tags |-> {},
              row_filter_template |-> NoTemplate, pii_columns |-> {},
              consent_required |-> FALSE]>>}

MCCallers == {c1, c2}
MCCaches == {ours, theirs}
MCFernetKey == [cache \in MCCaches |-> IF cache = ours THEN k1 ELSE k2]
MCIdentities == {<<ab, c>>, <<a, bc>>}
MCDuties ==
    [caller \in MCCallers |->
        IF caller = c1 THEN {<< <<ab, c>>, ours, select>>}
        ELSE {<< <<a, bc>>, ours, select>>,
              << <<ab, c>>, ours, count>>,
              << <<ab, c>>, theirs, padded>>}]
MCIdHash == [who \in MCUserIds \X MCAgentIds |-> hash]

\* padded is select between blanks.
MCQueries == {select, padded, count}
MCQueryHash == [q \in MCQueries |-> IF q = padded THEN select ELSE q]

\* Ticks: a RESTRICTED result lives one, a CONFIDENTIAL one two.
MCLevels == {CONFIDENTIAL, RESTRICTED, SECRET}
MCTtl == [level \in SensitivityLevel |-> SECRET - level]

=============================================================================
