----------------------------- MODULE MCSession -----------------------------
(***************************************************************************)
(* SessionIsolation with a chain of agents: one that retrieves, one that   *)
(* analyses what was retrieved, one with a low ceiling that summarises.    *)
(***************************************************************************)
EXTENDS SessionIsolation

CONSTANTS retrieval, analysis, summary, result, report, model, rate

MCAgentIds == {retrieval, analysis, summary}
MCTypes == {result, report}
MCFields == {model, rate}

\* INTERNAL and CONFIDENTIAL.
MCLevels == {1, 2}

Need(agent, types, fields, ceiling) ==
    [requesting_agent_id |-> agent,
     needed_output_types |-> types,
     needed_fields       |-> [t \in MCTypes |->
                                 IF t = result THEN fields ELSE {}],
     max_sensitivity     |-> ceiling]

MCProducts ==
    {[output_type |-> result, fields |-> MCFields, structured |-> TRUE],
     [output_type |-> report, fields |-> {rate}, structured |-> FALSE]}

MCRequests ==
    {Need(analysis, {result}, {model}, 2),
     Need(summary, {result, report}, {rate}, 1)}

=============================================================================
