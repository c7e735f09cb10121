-------------------------- MODULE SessionIsolation --------------------------
(***************************************************************************)
(* SessionStateStore and SessionBoundary (agents/session_isolation.py):    *)
(* the agents of one session write their outputs to a store, and an agent  *)
(* is started with what it declared it needs of the outputs of the others. *)
(* What an agent does between is external: it writes outputs under its own *)
(* id, with whatever label it gives them.                                  *)
(***************************************************************************)
EXTENDS Sensitivity, SequencesExt

CONSTANTS
    AgentIds, OutputTypes, Fields,
    Levels,           \* the sensitivities in use
    Products,         \* what agents produce: [output_type, fields, structured]
    Requests,         \* the ContextRequests that callers make
    NoRequest,        \* context_request = None
    MaxOutputs,       \* bound: outputs written
    MaxReads          \* bound: contexts read

\* needed_fields maps a type to the fields declared for it, {} for none.
ContextRequest == [requesting_agent_id : AgentIds,
                   needed_output_types : SUBSET OutputTypes,
                   needed_fields       : [OutputTypes -> SUBSET Fields],
                   max_sensitivity     : Levels]

ASSUME SessionAssumption ==
    /\ Levels \subseteq SensitivityLevel
    /\ Products \subseteq [output_type : OutputTypes,
                           fields : SUBSET Fields, structured : BOOLEAN]
    /\ Requests \subseteq ContextRequest
    /\ NoRequest \notin ContextRequest
    /\ MaxOutputs \in Nat
    /\ MaxReads \in Nat

VARIABLES
    outputs,          \* _outputs: agent_id -> sequence of AgentOutput
    accessLog,        \* _access_log
    boundary,         \* agent_id -> the boundary it runs in, for those running
    written,          \* history: every output written, in order
    cleared           \* history: the numbers of the outputs cleared

vars == <<outputs, accessLog, boundary, written, cleared>>

\* d[key] = value, for a dictionary d.
Put(d, key, value) ==
    [k \in DOMAIN d \cup {key} |-> IF k = key THEN value ELSE d[k]]

----------------------------------------------------------------------------
(* SessionStateStore.read                                                  *)

\* The outputs of the other agents, of the types the request declares.
Requested(request) ==
    UNION {{o \in ToSet(outputs[a]) :
               o.output_type \in request.needed_output_types} :
             a \in DOMAIN outputs \ {request.requesting_agent_id}}

\* Mutant: outputs at any level are handed over.
WithinAnyCeiling(output, request) == TRUE

WithinCeiling(output, request) ==
    output.sensitivity <= request.max_sensitivity

\* Mutant: fields are selected only if the request declares all types.
FieldsGivenLoosely(output, request) ==
    IF request.needed_output_types # OutputTypes THEN output.fields
    ELSE output.fields \cap request.needed_fields[output.output_type]

\* Data that is not a dict, or a list of dicts, is passed on whole, and so is
\* an output of a type without declared fields.
FieldsGiven(output, request) ==
    LET needed == request.needed_fields[output.output_type] IN
    IF needed # {} /\ output.structured THEN output.fields \cap needed
    ELSE output.fields

\* number identifies the output for the history.
Item(output, request) ==
    [from_agent  |-> output.agent_id,
     output_type |-> output.output_type,
     fields      |-> FieldsGiven(output, request),
     sensitivity |-> output.sensitivity,
     number      |-> output.number]

Context(request) ==
    {Item(o, request) :
        o \in {r \in Requested(request) : WithinCeiling(r, request)}}

LogEntry(request) ==
    [requesting_agent |-> request.requesting_agent_id,
     needed_types     |-> request.needed_output_types,
     received_types   |-> {item.output_type : item \in Context(request)},
     violations       |-> {<<o.agent_id, o.output_type, o.sensitivity>> :
                             o \in {r \in Requested(request) :
                                       ~WithinCeiling(r, request)}}]

LogRead(request) == accessLog' = Append(accessLog, LogEntry(request))

----------------------------------------------------------------------------
(* SessionBoundary                                                         *)

\* __enter__.  Neither the agent id nor the ceiling of the request is compared
\* with those of the agent.
Enter(agentId, request) ==
    /\ agentId \notin DOMAIN boundary
    /\ Len(accessLog) < MaxReads
    /\ boundary' = Put(boundary, agentId,
           [request  |-> request,
            declared |-> IF request = NoRequest THEN {} ELSE Context(request),
            before   |-> cleared])
    /\ IF request = NoRequest THEN UNCHANGED accessLog ELSE LogRead(request)
    /\ UNCHANGED <<outputs, written, cleared>>

\* __exit__ logs an exception and lets it through.
Exit(agentId) ==
    /\ agentId \in DOMAIN boundary
    /\ boundary' = Restrict(boundary, DOMAIN boundary \ {agentId})
    /\ UNCHANGED <<outputs, accessLog, written, cleared>>

----------------------------------------------------------------------------
(* SessionStateStore.write and clear_agent_outputs                         *)

Given(agentId) ==
    IF agentId \in DOMAIN boundary THEN boundary[agentId].declared ELSE {}

\* Mutant: the agents share one list (all that was written).
AppendedToShared(output) == Append(written, output)

Appended(output) ==
    Append(IF output.agent_id \in DOMAIN outputs
           THEN outputs[output.agent_id] ELSE <<>>, output)

\* Any label is accepted; an AgentOutput without one is INTERNAL.  origins is
\* history: the outputs this one may have been made from; and understated: its
\* label is below that of something its agent was given.
Write(agentId, product, level) ==
    LET number == Len(written) + 1
        output == [agent_id    |-> agentId,
                   output_type |-> product.output_type,
                   fields      |-> product.fields,
                   structured  |-> product.structured,
                   sensitivity |-> level,
                   number      |-> number,
                   origins     |-> {number} \cup
                      UNION {written[item.number].origins :
                               item \in Given(agentId)},
                   understated |-> \E item \in Given(agentId) :
                                      item.sensitivity > level]
    IN  /\ Len(written) < MaxOutputs
        /\ outputs' = Put(outputs, agentId, Appended(output))
        /\ written' = Append(written, output)
        /\ UNCHANGED <<accessLog, boundary, cleared>>

\* Mutant: only the last output of the agent is dropped.
KeepAllButLast(agentId) ==
    [outputs EXCEPT ![agentId] = Front(outputs[agentId])]

WithoutOutputsOf(agentId) == Restrict(outputs, DOMAIN outputs \ {agentId})

\* Nothing happens to the contexts already handed out.
ClearAgentOutputs(agentId) ==
    /\ agentId \in DOMAIN outputs
    /\ outputs' = WithoutOutputsOf(agentId)
    /\ cleared' = cleared \cup {o.number : o \in ToSet(outputs[agentId])}
    /\ UNCHANGED <<accessLog, boundary, written>>

----------------------------------------------------------------------------

Init ==
    /\ outputs = [a \in {} |-> {}]
    /\ accessLog = <<>>
    /\ boundary = [a \in {} |-> {}]
    /\ written = <<>>
    /\ cleared = {}

Next ==
    \/ \E a \in AgentIds, request \in Requests \cup {NoRequest} :
          Enter(a, request)
    \/ \E a \in AgentIds : Exit(a)
    \/ \E a \in AgentIds, product \in Products, level \in Levels :
          Write(a, product, level)
    \/ \E a \in AgentIds : ClearAgentOutputs(a)

Spec == Init /\ [][Next]_vars

----------------------------------------------------------------------------
(* Properties                                                              *)

Reading == {a \in DOMAIN boundary : boundary[a].request # NoRequest}

\* Type invariant: every stored output is under the id of its agent and has
\* been written.
SessionTypeOK ==
    /\ DOMAIN outputs \subseteq AgentIds
    /\ \A a \in DOMAIN outputs : \A o \in ToSet(outputs[a]) :
          o.agent_id = a /\ o = written[o.number]
    /\ DOMAIN boundary \subseteq AgentIds
    /\ \A a \in Reading : boundary[a].request \in Requests
    /\ cleared \subseteq DOMAIN written

\* Nothing is lost and nothing stays: every output written is in the store
\* until it is cleared, however many its agent writes after it, and no longer.
OutputsKept ==
    DOMAIN written \ cleared =
        {o.number : o \in UNION {ToSet(outputs[a]) : a \in DOMAIN outputs}}

\* Need to know: whatever a running agent was given is the declared part of an
\* output that another agent wrote, within the ceiling of the request, and
\* that had not been cleared when the agent was started.
NeedToKnow ==
    \A a \in Reading :
        LET request == boundary[a].request IN
        \A item \in boundary[a].declared :
            LET output == written[item.number]
                needed == request.needed_fields[output.output_type]
            IN  /\ output.agent_id # request.requesting_agent_id
                /\ output.output_type \in request.needed_output_types
                /\ output.sensitivity <= request.max_sensitivity
                /\ item.number \notin boundary[a].before
                /\ item.fields \subseteq output.fields
                /\ output.structured /\ needed # {} =>
                       item.fields \subseteq needed

\* No downward flow: what was written above the ceiling of a request reaches
\* the agent that made it only through an output that some agent labelled below
\* what it had been given, however long the chain of agents and whatever has
\* been cleared since.
NoDownwardFlow ==
    \A a \in Reading :
        \A item \in boundary[a].declared :
            LET origins == written[item.number].origins IN
            \A n \in origins :
                \/ written[n].sensitivity <= boundary[a].request.max_sensitivity
                \/ \E k \in origins \ {n} :
                      written[k].understated /\ n \in written[k].origins

=============================================================================
