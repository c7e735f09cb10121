---------------------------- MODULE Orchestrator ----------------------------
(***************************************************************************)
(* AgentEligibilityResolver (orchestrator/eligibility.py) in front of the  *)
(* policy resolver and the governance server: agents are registered, the   *)
(* gate decides which assets an agent may use in a session, and the caller *)
(* requests tokens for those assets, some time later.                      *)
(***************************************************************************)
EXTENDS GovernanceServer

CONSTANT NoDecision    \* the caller holds no decision

\* The loop over the requested assets: those in S are appended, in order.
Keep(ids, S) ==
    LET kept[n \in 0..Len(ids)] ==
            IF n = 0 THEN <<>>
            ELSE IF ids[n] \in S THEN Append(kept[n - 1], ids[n])
            ELSE kept[n - 1]
    IN  kept[Len(ids)]

\* The lists of assets a decision allows are lists a caller may ask for.
ASSUME OrchestratorAssumption ==
    \A ids \in AssetLists, S \in SUBSET AssetIds : Keep(ids, S) \in AssetLists

VARIABLES
    registeredAgents,  \* agent_id -> AgentContext
    decision,          \* the last ELIGIBLE decision the gate has returned
    seen               \* history: what the gate evaluated for that decision

orchestratorVars == <<registeredAgents, decision, seen>>
allVars == <<vars, orchestratorVars>>

----------------------------------------------------------------------------
(* check_eligibility                                                       *)

AccessNow(user, agent, aid, right) ==
    Access([assets |-> assets, consent |-> consentState],
           user, agent, aid, right)

\* Mutant: a missing consent does not count as a denial.
AllowedWithoutConsent(user, agent, ids, right) ==
    Keep(ids, {aid \in DOMAIN assets :
                  AccessNow(user, agent, aid, right) # "denied"})

\* The assets appended to allowed_assets: before the row filters are derived,
\* so one whose template raises is among them.
Allowed(user, agent, ids, right) ==
    Keep(ids, {aid \in DOMAIN assets :
                  AccessNow(user, agent, aid, right) = "granted"})

SomeDenied(user, agent, ids, right) ==
    \E i \in DOMAIN ids :
        \/ ids[i] \notin DOMAIN assets
        \/ AccessNow(user, agent, ids[i], right) # "granted"
        \/ TemplateRaises(assets[ids[i]])

Covers(user, agent) == user.clearance_level >= agent.max_sensitivity

Status(agentId, user, ids, right) ==
    IF agentId \notin DOMAIN registeredAgents THEN "blocked"
    ELSE LET agent == registeredAgents[agentId] IN
         IF \/ ~Covers(user, agent)
            \/ /\ SomeDenied(user, agent, ids, right)
               /\ Allowed(user, agent, ids, right) = <<>>
         THEN "ineligible"
         ELSE "eligible"

----------------------------------------------------------------------------

RegisterAgent(agent) ==
    /\ registeredAgents' = Put(registeredAgents, agent.agent_id, agent)
    /\ UNCHANGED <<vars, decision, seen>>

\* gate raises unless the status is eligible; list_eligible_agents returns
\* the agents for which it would not.  A decision names the agent and the
\* assets, not the context, the session or the right it was taken for.
Gate(agentId, session, ids, right) ==
    LET agent   == registeredAgents[agentId]
        allowed == Allowed(session.user, agent, ids, right)
    IN  /\ Status(agentId, session.user, ids, right) = "eligible"
        /\ decision' = [agent_id |-> agentId, allowed |-> allowed]
        /\ seen' = [session |-> session, agent |-> agent, right |-> right,
                    version |-> policyVersion]
        /\ UNCHANGED <<vars, registeredAgents>>

\* The caller asks for a token for what the decision allows, with a context
\* of that agent, a session and a right of its own: request_token does not see
\* the decision.
Dispatch(id, session, agent, query, right) ==
    /\ decision # NoDecision
    /\ agent.agent_id = decision.agent_id
    /\ RequestToken(id, session, agent, query, decision.allowed, right)
    /\ UNCHANGED <<catalogVars, serverVars, orchestratorVars>>

OrchestratedInit ==
    /\ Init
    /\ registeredAgents = [agentId \in {} |-> {}]
    /\ decision = NoDecision
    /\ seen = NoDecision

OrchestratedNext ==
    \/ \E agent \in Agents : RegisterAgent(agent)
    \/ \E agent \in Agents, session \in Sessions, ids \in AssetLists,
          right \in Rights : Gate(agent.agent_id, session, ids, right)
    \/ \E id \in TokenIds, session \in Sessions, agent \in Agents,
          query \in Queries, right \in Rights :
          Dispatch(id, session, agent, query, right)
    \/ \E r \in Registrations :
          /\ RegisterAsset(r[1], r[2])
          /\ UNCHANGED <<resolverVars, serverVars, orchestratorVars>>
    \/ \E c \in ConsentRecords :
          /\ RecordConsent(c[1], c[2], c[3])
          /\ UNCHANGED <<resolverVars, serverVars, orchestratorVars>>
    \/ \E id \in DOMAIN tokens :
          /\ RevokeToken(id)
          /\ UNCHANGED <<catalogVars, serverVars, orchestratorVars>>
    \/ \E sid \in SessionIds :
          /\ RevokeSessionTokens(sid)
          /\ UNCHANGED <<catalogVars, serverVars, orchestratorVars>>
    \/ Tick /\ UNCHANGED <<catalogVars, serverVars, orchestratorVars>>
    \/ \E id \in TokenIds, query \in Queries, agent \in Agents :
          /\ HandleToolCall(id, query, agent.agent_id)
          /\ UNCHANGED orchestratorVars

OrchestratedSpec == OrchestratedInit /\ [][OrchestratedNext]_allVars

----------------------------------------------------------------------------
(* Properties                                                              *)

\* Type invariant of the orchestrator: agents are registered under their own
\* ids, and a decision names an agent and assets that are known.
OrchestratorTypeOK ==
    /\ registeredAgents \in [DOMAIN registeredAgents -> Agents]
    /\ \A agentId \in DOMAIN registeredAgents :
          registeredAgents[agentId].agent_id = agentId
    /\ decision # NoDecision =>
          /\ decision.allowed \in AssetLists
          /\ seen.agent \in Agents /\ seen.agent.agent_id = decision.agent_id

\* The gate and the resolver agree: while the catalog is what the gate has
\* seen, or is that again, request_token grants the whole list of the decision
\* to a caller that hands it the session, the agent context and the right the
\* gate evaluated, unless a row filter template raises.
GateAgreesWithResolver ==
    decision # NoDecision /\ seen.version = policyVersion =>
        \/ Grants(seen.session, seen.agent, decision.allowed, seen.right)
        \/ \E i \in DOMAIN decision.allowed :
              TemplateRaises(assets[decision.allowed[i]])

=============================================================================
