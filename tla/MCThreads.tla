----------------------------- MODULE MCThreads -----------------------------
(***************************************************************************)
(* A request beside a catalog writer, and calls of two threads.  The two   *)
(* share no state that changes, so that each is explored by itself: one of *)
(* them stands still.                                                      *)
(***************************************************************************)
EXTENDS ConcurrentRequests, ConcurrentCalls

CONSTANTS analyst, bot, cost, parts, brandA, brandB, delta, vin, read, own,
          t1, t2, t3

VARIABLE requests     \* the requests are explored, and not the calls

MCUserIds == {analyst}
MCAgentIds == {bot}
MCAssetIds == {cost, parts}
MCBrands == {brandA, brandB}
MCSources == {delta}
MCColumns == {vin}
MCRights == {read}
MCTemplates == {own}

Asset(level, tags, template, pii, consent) ==
    [source |-> delta, sensitivity |-> level, brand_tags |-> tags,
     row_filter_template |-> template, pii_columns |-> pii,
     consent_required |-> consent]

\* The same asset before and after it is tagged, hidden and put under consent.
MCRegistrations ==
    {<<cost, Asset(INTERNAL, {}, own, {}, FALSE)>>,
     <<cost, Asset(INTERNAL, {brandA, brandB}, NoTemplate, {vin}, TRUE)>>,
     <<cost, Asset(RESTRICTED, {}, NoTemplate, {}, FALSE)>>,
     <<parts, Asset(PUBLIC, {brandA}, NoTemplate, {}, FALSE)>>}

MCConsentRecords == {<<analyst, cost, TRUE>>, <<analyst, cost, FALSE>>}

MCUsers == {[user_id |-> analyst, brand_scope |-> {brandA},
             clearance_level |-> INTERNAL]}

MCAgents == {[agent_id |-> bot, max_sensitivity |-> RESTRICTED,
              allowed_rights |-> {read}, allowed_sources |-> {}]}

MCAssetLists == {<<>>, <<cost>>, <<cost, parts>>}

MCExpiry == [t \in Tokens |-> IF t = t1 THEN 1 ELSE 2]

vars == <<requestVars, callsVars, requests>>

Init == RequestsInit /\ CallsInit /\ requests \in BOOLEAN

Next ==
    \/ requests /\ RequestsNext /\ UNCHANGED <<callsVars, requests>>
    \/ ~requests /\ CallsNext /\ UNCHANGED <<requestVars, requests>>

Spec == Init /\ [][Next]_vars

=============================================================================
