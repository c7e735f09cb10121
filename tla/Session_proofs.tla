--------------------------- MODULE Session_proofs ---------------------------
(***************************************************************************)
(* Proofs about session isolation: for every set of agents, output types,  *)
(* fields, products and requests, and however many outputs are written and *)
(* contexts are read.                                                      *)
(*                                                                         *)
(* What is stored and what was handed over refer to the history of writes  *)
(* by number; the numbers identify the outputs.  That an output is made    *)
(* from one of a higher sensitivity only through an understated label is   *)
(* the part of the invariant that carries the downward-flow property       *)
(* through chains of agents.                                               *)
(***************************************************************************)
EXTENDS SessionIsolation, SequenceTheorems, TLAPS

AgentOutput == [agent_id : AgentIds, output_type : OutputTypes,
                fields : SUBSET Fields, structured : BOOLEAN,
                sensitivity : Levels, number : Nat, origins : SUBSET Nat,
                understated : BOOLEAN]

\* The output n was made from m through one whose label is understated.
Through(n, m) ==
    \E k \in written[n].origins \ {m} :
        written[k].understated /\ m \in written[k].origins

\* The history: outputs numbered in order, each at least as sensitive as
\* everything it was made from unless a label on the way is understated.
HistoryInv ==
    /\ written \in Seq(AgentOutput)
    /\ \A n \in DOMAIN written :
          /\ written[n].number = n
          /\ written[n].origins \subseteq DOMAIN written
          /\ n \in written[n].origins
          /\ \A m \in written[n].origins :
                \/ written[m].sensitivity <= written[n].sensitivity
                \/ Through(n, m)

Stored(o) ==
    \E a \in DOMAIN outputs : \E i \in DOMAIN outputs[a] : outputs[a][i] = o

\* The store: exactly the outputs written and not cleared, each under the id
\* of its agent.
StoreInv ==
    /\ DOMAIN outputs \subseteq AgentIds
    /\ \A a \in DOMAIN outputs :
          /\ outputs[a] \in Seq(AgentOutput)
          /\ \A i \in DOMAIN outputs[a] :
                LET o == outputs[a][i] IN
                /\ o.agent_id = a
                /\ o.number \in DOMAIN written
                /\ o = written[o.number]
                /\ o.number \notin cleared
    /\ cleared \subseteq DOMAIN written
    /\ \A n \in DOMAIN written \ cleared : Stored(written[n])

\* What NeedToKnow says of an item, and what its number stands for.
DeclaredFor(request, before, item) ==
    LET output == written[item.number]
        needed == request.needed_fields[output.output_type]
    IN  /\ output.agent_id # request.requesting_agent_id
        /\ output.output_type \in request.needed_output_types
        /\ item.number \notin before
        /\ item.fields \subseteq output.fields
        /\ output.structured /\ needed # {} => item.fields \subseteq needed
        /\ output.sensitivity <= request.max_sensitivity

\* The contexts handed over.
BoundaryInv ==
    /\ DOMAIN boundary \subseteq AgentIds
    /\ \A a \in DOMAIN boundary :
          /\ boundary[a].request \in Requests \cup {NoRequest}
          /\ \A item \in boundary[a].declared :
                /\ item.number \in DOMAIN written
                /\ item.sensitivity = written[item.number].sensitivity
                /\ boundary[a].request # NoRequest =>
                      DeclaredFor(boundary[a].request, boundary[a].before,
                                  item)

IInv == HistoryInv /\ StoreInv /\ BoundaryInv

LEMMA InitIInv == Init => IInv
<1> SUFFICES ASSUME Init PROVE IInv
  OBVIOUS
<1>1. DOMAIN outputs = {} /\ DOMAIN boundary = {} /\ cleared = {}
  BY DEF Init
<1>2. written = <<>> /\ DOMAIN written = {}
  BY DEF Init
<1> QED BY <1>1, <1>2 DEF IInv, HistoryInv, StoreInv, BoundaryInv

\* A context holds declared parts of stored outputs within the ceiling.
LEMMA ContextFacts ==
    ASSUME HistoryInv, StoreInv, NEW request \in Requests,
           NEW item \in Context(request)
    PROVE  /\ item.number \in DOMAIN written
           /\ item.sensitivity = written[item.number].sensitivity
           /\ DeclaredFor(request, cleared, item)
<1>1. PICK o \in Requested(request) :
          WithinCeiling(o, request) /\ item = Item(o, request)
  BY DEF Context
<1>2. PICK a \in DOMAIN outputs \ {request.requesting_agent_id} :
          o \in ToSet(outputs[a])
          /\ o.output_type \in request.needed_output_types
  BY DEF Requested
<1>3. PICK i \in DOMAIN outputs[a] : o = outputs[a][i]
  BY <1>2 DEF ToSet
<1>4. /\ o.agent_id = a /\ o.number \in DOMAIN written
      /\ o = written[o.number] /\ o.number \notin cleared
  BY <1>3 DEF StoreInv
<1>5. /\ item.number = o.number /\ item.sensitivity = o.sensitivity
      /\ item.fields = FieldsGiven(o, request)
  BY <1>1 DEF Item
<1> QED BY <1>1, <1>2, <1>4, <1>5 DEF DeclaredFor, FieldsGiven, WithinCeiling

----------------------------------------------------------------------------
(* Each step preserves the invariant                                       *)

LEMMA EnterKeeps ==
    ASSUME IInv, NEW a \in AgentIds, NEW request \in Requests \cup {NoRequest},
           Enter(a, request)
    PROVE  IInv'
<1> DEFINE new == [request  |-> request,
                   declared |-> IF request = NoRequest THEN {}
                                ELSE Context(request),
                   before   |-> cleared]
<1>1. UNCHANGED <<outputs, written, cleared>>
  BY DEF Enter
<1>2. HistoryInv' /\ StoreInv'
  BY <1>1 DEF IInv, HistoryInv, Through, StoreInv, Stored
<1>3. /\ a \notin DOMAIN boundary
      /\ boundary' = Put(boundary, a, new)
  BY DEF Enter
<1>4. /\ DOMAIN boundary' = DOMAIN boundary \cup {a}
      /\ boundary'[a] = new
      /\ \A b \in DOMAIN boundary : boundary'[b] = boundary[b]
  BY <1>3 DEF Put
<1>5. \A item \in new.declared :
          /\ item.number \in DOMAIN written
          /\ item.sensitivity = written[item.number].sensitivity
          /\ request # NoRequest => DeclaredFor(request, cleared, item)
  BY ContextFacts DEF IInv
<1>6. \A r, before, item : DeclaredFor(r, before, item)' =
                           DeclaredFor(r', before', item')
  BY <1>1 DEF DeclaredFor
<1>7. BoundaryInv'
  BY <1>1, <1>4, <1>5, <1>6 DEF IInv, BoundaryInv
<1> QED BY <1>2, <1>7 DEF IInv

LEMMA ExitKeeps ==
    ASSUME IInv, NEW a \in AgentIds, Exit(a)
    PROVE  IInv'
<1>1. UNCHANGED <<outputs, written, cleared>>
  BY DEF Exit
<1>2. HistoryInv' /\ StoreInv'
  BY <1>1 DEF IInv, HistoryInv, Through, StoreInv, Stored
<1>3. /\ DOMAIN boundary' = DOMAIN boundary \ {a}
      /\ \A b \in DOMAIN boundary' : boundary'[b] = boundary[b]
  BY DEF Exit, Restrict
<1>4. \A r, before, item : DeclaredFor(r, before, item)' =
                           DeclaredFor(r', before', item')
  BY <1>1 DEF DeclaredFor
<1>5. BoundaryInv'
  BY <1>1, <1>3, <1>4 DEF IInv, BoundaryInv
<1> QED BY <1>2, <1>5 DEF IInv

\* What an agent has been given has been written at that sensitivity.
LEMMA GivenFacts ==
    ASSUME BoundaryInv, NEW a, NEW item \in Given(a)
    PROVE  /\ item.number \in DOMAIN written
           /\ item.sensitivity = written[item.number].sensitivity
BY DEF BoundaryInv, Given

LEMMA WriteKeeps ==
    ASSUME IInv, NEW a \in AgentIds, NEW product \in Products,
           NEW level \in Levels, Write(a, product, level)
    PROVE  IInv'
<1> DEFINE number == Len(written) + 1
           origins == {number} \cup UNION {written[item.number].origins :
                                             item \in Given(a)}
           understated == \E item \in Given(a) : item.sensitivity > level
           output == [agent_id    |-> a,
                      output_type |-> product.output_type,
                      fields      |-> product.fields,
                      structured  |-> product.structured,
                      sensitivity |-> level,
                      number      |-> number,
                      origins     |-> origins,
                      understated |-> understated]
<1>1. /\ written' = Append(written, output)
      /\ outputs' = Put(outputs, a, Appended(output))
      /\ UNCHANGED <<boundary, cleared>>
  BY DEF Write
<1>2. written \in Seq(AgentOutput) /\ DOMAIN written = 1..Len(written)
      /\ Len(written) \in Nat
  BY DEF IInv, HistoryInv
<1>3. \A m \in origins : m = number \/ \E item \in Given(a) :
          m \in written[item.number].origins
  OBVIOUS
<1>4. ASSUME NEW m \in origins, m # number
      PROVE  /\ m \in DOMAIN written
             /\ \/ written[m].sensitivity <= level
                \/ understated
                \/ \E k \in origins : /\ k \in DOMAIN written /\ k # m
                                      /\ written[k].understated
                                      /\ m \in written[k].origins
  <2>1. PICK item \in Given(a) : m \in written[item.number].origins
    BY <1>3, <1>4
  <2>2. /\ item.number \in DOMAIN written
        /\ item.sensitivity = written[item.number].sensitivity
    BY GivenFacts DEF IInv
  <2>3. /\ m \in DOMAIN written
        /\ \/ written[m].sensitivity <= item.sensitivity
           \/ Through(item.number, m)
    BY <2>1, <2>2 DEF IInv, HistoryInv
  <2>4. CASE Through(item.number, m)
    <3>1. PICK k \in written[item.number].origins \ {m} :
              written[k].understated /\ m \in written[k].origins
      BY <2>4 DEF Through
    <3>2. k \in origins /\ k \in DOMAIN written
      BY <2>2, <3>1 DEF IInv, HistoryInv
    <3> HIDE DEF origins, understated
    <3> QED BY <2>3, <3>1, <3>2
  <2>5. CASE written[m].sensitivity <= item.sensitivity
    <3>1. Levels \subseteq Int
      BY SessionAssumption DEF SensitivityLevel, PUBLIC, SECRET
    <3>2. \A n \in DOMAIN written : written[n].sensitivity \in Levels
      <4>1. \A n \in DOMAIN written : written[n] \in AgentOutput
        BY <1>2
      <4>2. \A o \in AgentOutput : o.sensitivity \in Levels
        BY DEF AgentOutput
      <4> QED BY <4>1, <4>2
    <3>3. /\ written[m].sensitivity \in Int /\ level \in Int
          /\ item.sensitivity \in Int
      BY <2>2, <2>3, <3>1, <3>2
    <3>4. understated \/ item.sensitivity <= level
      BY <3>3
    <3> HIDE DEF origins, understated
    <3> QED BY <2>3, <2>5, <3>3, <3>4
  <2> HIDE DEF origins, understated
  <2> QED BY <2>3, <2>4, <2>5
<1>5. output \in AgentOutput
  <2>1. origins \subseteq Nat
    <3> HIDE DEF origins, understated
    <3> QED BY <1>2, <1>4
  <2>2. /\ product.output_type \in OutputTypes
        /\ product.fields \in SUBSET Fields
        /\ product.structured \in BOOLEAN
    BY SessionAssumption
  <2>3. understated \in BOOLEAN
    OBVIOUS
  <2> HIDE DEF origins, understated
  <2> QED BY <1>2, <2>1, <2>2, <2>3 DEF AgentOutput
<1>6. /\ output.number = number /\ output.origins = origins
      /\ output.agent_id = a /\ output.sensitivity = level
      /\ output.understated = understated
  OBVIOUS
<1>0. number \in origins
  OBVIOUS
<1> HIDE DEF output, origins, understated
<1>7. /\ written' \in Seq(AgentOutput)
      /\ DOMAIN written' = DOMAIN written \cup {number}
      /\ written'[number] = output
      /\ \A n \in DOMAIN written : written'[n] = written[n] /\ n # number
  BY <1>1, <1>2, <1>5
<1>8. HistoryInv'
  <2> SUFFICES ASSUME NEW n \in DOMAIN written'
               PROVE  /\ written'[n].number = n
                      /\ written'[n].origins \subseteq DOMAIN written'
                      /\ n \in written'[n].origins
                      /\ \A m \in written'[n].origins :
                            \/ written'[m].sensitivity <= written'[n].sensitivity
                            \/ Through(n, m)'
    BY <1>7 DEF HistoryInv
  <2>1. CASE n \in DOMAIN written
    <3>1. /\ written'[n] = written[n]
          /\ written[n].number = n
          /\ n \in written[n].origins
          /\ written[n].origins \subseteq DOMAIN written
      BY <1>7, <2>1 DEF IInv, HistoryInv
    <3>2. ASSUME NEW m \in written[n].origins
          PROVE  \/ written'[m].sensitivity <= written'[n].sensitivity
                 \/ Through(n, m)'
      <4>1. \/ written[m].sensitivity <= written[n].sensitivity
            \/ Through(n, m)
        BY <2>1 DEF IInv, HistoryInv
      <4>2. \A k \in written[n].origins : written'[k] = written[k]
        BY <1>7, <3>1
      <4> QED BY <3>1, <4>1, <4>2 DEF Through
    <3> QED BY <1>7, <3>1, <3>2
  <2>2. CASE n = number
    <3>1. \A m \in origins : m \in DOMAIN written'
      BY <1>4, <1>7
    <3>2. level <= level
      BY SessionAssumption DEF SensitivityLevel, PUBLIC, SECRET
    <3>3. ASSUME NEW m \in origins
          PROVE  \/ written'[m].sensitivity <= level
                 \/ Through(n, m)'
      <4>1. CASE m = number
        BY <1>6, <1>7, <3>2, <4>1
      <4>2. CASE m # number
        <5>1. CASE written[m].sensitivity <= level
          BY <1>4, <1>7, <4>2, <5>1
        <5>2. CASE understated
          BY <1>0, <1>6, <1>7, <2>2, <4>2, <5>2 DEF Through
        <5>3. CASE \E k \in origins : /\ k \in DOMAIN written /\ k # m
                                      /\ written[k].understated
                                      /\ m \in written[k].origins
          BY <1>6, <1>7, <2>2, <5>3 DEF Through
        <5> QED BY <1>4, <4>2, <5>1, <5>2, <5>3
      <4> QED BY <4>1, <4>2
    <3>4. /\ written'[n].number = n /\ written'[n].sensitivity = level
          /\ written'[n].origins = origins
      BY <1>6, <1>7, <2>2
    <3> QED BY <1>0, <2>2, <3>1, <3>3, <3>4
  <2> QED BY <1>7, <2>1, <2>2
<1> DEFINE old == IF a \in DOMAIN outputs THEN outputs[a] ELSE <<>>
<1>9. outputs' = Put(outputs, a, Append(old, output))
  BY <1>1, <1>6 DEF Appended
<1>10. old \in Seq(AgentOutput)
  BY DEF IInv, StoreInv
<1>11. /\ DOMAIN outputs' = DOMAIN outputs \cup {a}
       /\ outputs'[a] = Append(old, output)
       /\ \A b \in DOMAIN outputs \ {a} : outputs'[b] = outputs[b]
  BY <1>9 DEF Put
<1>12. /\ outputs'[a] \in Seq(AgentOutput)
       /\ DOMAIN outputs'[a] = DOMAIN old \cup {Len(old) + 1}
       /\ Len(old) + 1 \notin DOMAIN old
       /\ outputs'[a][Len(old) + 1] = output
       /\ \A i \in DOMAIN old : outputs'[a][i] = old[i]
  BY <1>5, <1>10, <1>11
<1>13. number \notin cleared
  BY <1>2 DEF IInv, StoreInv
<1>14. ASSUME NEW b \in DOMAIN outputs'
       PROVE  /\ outputs'[b] \in Seq(AgentOutput)
              /\ \A i \in DOMAIN outputs'[b] :
                    LET o == outputs'[b][i] IN
                    /\ o.agent_id = b
                    /\ o.number \in DOMAIN written'
                    /\ o = written'[o.number]
                    /\ o.number \notin cleared
  <2>1. ASSUME NEW c \in DOMAIN outputs, NEW i \in DOMAIN outputs[c]
        PROVE  LET o == outputs[c][i] IN
               /\ o.agent_id = c
               /\ o.number \in DOMAIN written'
               /\ o = written'[o.number]
               /\ o.number \notin cleared
    BY <1>7 DEF IInv, StoreInv
  <2>2. CASE b # a
    BY <1>11, <2>1, <2>2 DEF IInv, StoreInv
  <2>3. CASE b = a
    <3> SUFFICES ASSUME NEW i \in DOMAIN outputs'[a]
                 PROVE  LET o == outputs'[a][i] IN
                        /\ o.agent_id = a
                        /\ o.number \in DOMAIN written'
                        /\ o = written'[o.number]
                        /\ o.number \notin cleared
      BY <1>12, <2>3
    <3>1. CASE i = Len(old) + 1
      BY <1>6, <1>7, <1>12, <1>13, <3>1
    <3>2. CASE i \in DOMAIN old
      BY <1>12, <2>1, <3>2
    <3> QED BY <1>12, <3>1, <3>2
  <2> QED BY <2>2, <2>3
<1>15. \A o : Stored(o) =>
           \E b \in DOMAIN outputs' :
               \E i \in DOMAIN outputs'[b] : outputs'[b][i] = o
  <2> SUFFICES ASSUME NEW b \in DOMAIN outputs, NEW i \in DOMAIN outputs[b]
               PROVE  /\ b \in DOMAIN outputs'
                      /\ i \in DOMAIN outputs'[b]
                      /\ outputs'[b][i] = outputs[b][i]
    BY DEF Stored
  <2>1. CASE b = a
    BY <1>11, <1>12, <2>1
  <2>2. CASE b # a
    BY <1>11, <2>2
  <2> QED BY <2>1, <2>2
<1>16. \E b \in DOMAIN outputs' :
           \E i \in DOMAIN outputs'[b] : outputs'[b][i] = output
  BY <1>11, <1>12
<1>17. \A n \in DOMAIN written' \ cleared' :
           \E b \in DOMAIN outputs' :
               \E i \in DOMAIN outputs'[b] : outputs'[b][i] = written'[n]
  <2> SUFFICES ASSUME NEW n \in DOMAIN written', n \notin cleared
               PROVE  \E b \in DOMAIN outputs' :
                          \E i \in DOMAIN outputs'[b] :
                              outputs'[b][i] = written'[n]
    BY <1>1
  <2>1. CASE n = number
    BY <1>7, <1>16, <2>1
  <2>2. CASE n \in DOMAIN written
    <3>1. Stored(written[n])
      BY <2>2 DEF IInv, StoreInv
    <3> QED BY <1>7, <1>15, <2>2, <3>1
  <2> QED BY <1>7, <2>1, <2>2
<1>18. StoreInv'
  <2>1. DOMAIN outputs' \subseteq AgentIds /\ cleared' \subseteq DOMAIN written'
    BY <1>1, <1>7, <1>11 DEF IInv, StoreInv
  <2> QED BY <1>1, <1>14, <1>17, <2>1 DEF StoreInv, Stored
<1>19. BoundaryInv'
  <2>1. UNCHANGED boundary
    BY <1>1
  <2> SUFFICES ASSUME NEW b \in DOMAIN boundary,
                      NEW item \in boundary[b].declared
               PROVE  /\ item.number \in DOMAIN written'
                      /\ item.sensitivity = written'[item.number].sensitivity
                      /\ boundary[b].request # NoRequest =>
                            DeclaredFor(boundary[b].request,
                                        boundary[b].before, item)'
    BY <2>1 DEF IInv, BoundaryInv
  <2>2. /\ item.number \in DOMAIN written
        /\ item.sensitivity = written[item.number].sensitivity
        /\ boundary[b].request # NoRequest =>
              DeclaredFor(boundary[b].request, boundary[b].before, item)
    BY DEF IInv, BoundaryInv
  <2>3. written'[item.number] = written[item.number]
    BY <1>7, <2>2
  <2> QED BY <1>7, <2>1, <2>2, <2>3 DEF DeclaredFor
<1> QED BY <1>8, <1>18, <1>19 DEF IInv

LEMMA ClearKeeps ==
    ASSUME IInv, NEW a \in AgentIds, ClearAgentOutputs(a)
    PROVE  IInv'
<1> DEFINE gone == {o.number : o \in ToSet(outputs[a])}
<1>1. /\ a \in DOMAIN outputs
      /\ cleared' = cleared \cup gone
      /\ UNCHANGED <<boundary, written>>
  BY DEF ClearAgentOutputs
<1>2. /\ DOMAIN outputs' = DOMAIN outputs \ {a}
      /\ \A b \in DOMAIN outputs' : outputs'[b] = outputs[b]
  BY DEF ClearAgentOutputs, WithoutOutputsOf, Restrict
<1>3. gone = {outputs[a][i].number : i \in DOMAIN outputs[a]}
  BY DEF ToSet
<1> HIDE DEF gone
<1>4. gone \subseteq DOMAIN written
  BY <1>1, <1>3 DEF IInv, StoreInv
\* The outputs of the other agents have other numbers.
<1>5. \A b \in DOMAIN outputs' : \A i \in DOMAIN outputs'[b] :
          outputs'[b][i].number \notin gone
  <2> SUFFICES ASSUME NEW b \in DOMAIN outputs', NEW i \in DOMAIN outputs'[b],
                      NEW j \in DOMAIN outputs[a],
                      outputs[b][i].number = outputs[a][j].number
               PROVE  FALSE
    BY <1>2, <1>3
  <2>1. outputs[b][i].agent_id = b /\ outputs[a][j].agent_id = a
    BY <1>1, <1>2 DEF IInv, StoreInv
  <2>2. outputs[b][i] = outputs[a][j]
    BY <1>1, <1>2 DEF IInv, StoreInv
  <2> QED BY <1>2, <2>1, <2>2
<1>6. \A n \in DOMAIN written \ cleared' :
          \E b \in DOMAIN outputs' :
              \E i \in DOMAIN outputs'[b] : outputs'[b][i] = written[n]
  <2> SUFFICES ASSUME NEW n \in DOMAIN written, n \notin cleared, n \notin gone
               PROVE  \E b \in DOMAIN outputs' :
                          \E i \in DOMAIN outputs'[b] :
                              outputs'[b][i] = written[n]
    BY <1>1
  <2>1. PICK b \in DOMAIN outputs :
            \E i \in DOMAIN outputs[b] : outputs[b][i] = written[n]
    BY DEF IInv, StoreInv, Stored
  <2>2. written[n].number = n
    BY DEF IInv, HistoryInv
  <2>3. b # a
    BY <1>3, <2>1, <2>2
  <2> QED BY <1>2, <2>1, <2>3
<1>7. StoreInv'
  BY <1>1, <1>2, <1>4, <1>5, <1>6 DEF IInv, StoreInv, Stored
<1>8. HistoryInv' /\ BoundaryInv'
  BY <1>1 DEF IInv, HistoryInv, Through, BoundaryInv, DeclaredFor
<1> QED BY <1>7, <1>8 DEF IInv

LEMMA NextIInv == IInv /\ [Next]_vars => IInv'
<1> SUFFICES ASSUME IInv, [Next]_vars PROVE IInv'
  OBVIOUS
<1>1. CASE \E a \in AgentIds, request \in Requests \cup {NoRequest} :
               Enter(a, request)
  BY <1>1, EnterKeeps
<1>2. CASE \E a \in AgentIds : Exit(a)
  BY <1>2, ExitKeeps
<1>3. CASE \E a \in AgentIds, product \in Products, level \in Levels :
               Write(a, product, level)
  BY <1>3, WriteKeeps
<1>4. CASE \E a \in AgentIds : ClearAgentOutputs(a)
  BY <1>4, ClearKeeps
<1>5. CASE UNCHANGED vars
  <2>1. UNCHANGED <<outputs, boundary, written, cleared>>
    BY <1>5 DEF vars
  <2>2. HistoryInv' /\ StoreInv'
    BY <2>1 DEF IInv, HistoryInv, Through, StoreInv, Stored
  <2>3. BoundaryInv'
    BY <2>1 DEF IInv, BoundaryInv, DeclaredFor
  <2> QED BY <2>2, <2>3 DEF IInv
<1> QED BY <1>1, <1>2, <1>3, <1>4, <1>5 DEF Next

\* The inductive invariant of session isolation.
THEOREM SessionIInv == Spec => []IInv
BY InitIInv, NextIInv, PTL DEF Spec

----------------------------------------------------------------------------
(* The properties                                                          *)

\* Every stored output is under the id of its agent and has been written
\* (SessionStateStore.write, clear_agent_outputs).
THEOREM SessionTyped == Spec => []SessionTypeOK
<1>1. IInv => SessionTypeOK
  BY DEF IInv, HistoryInv, StoreInv, BoundaryInv, SessionTypeOK, ToSet,
         Reading
<1> QED BY SessionIInv, <1>1, PTL

\* The store holds exactly the outputs that were written and not cleared: no
\* write of an agent drops an earlier one, and no clear reaches the outputs of
\* another agent.
THEOREM NothingLost == Spec => []OutputsKept
<1>1. ASSUME IInv PROVE OutputsKept
  <2> DEFINE kept == {o.number : o \in UNION {ToSet(outputs[a]) :
                                                a \in DOMAIN outputs}}
  <2>1. \A n \in kept : n \in DOMAIN written \ cleared
    <3> SUFFICES ASSUME NEW a \in DOMAIN outputs, NEW o \in ToSet(outputs[a])
                 PROVE  o.number \in DOMAIN written \ cleared
      OBVIOUS
    <3>1. PICK i \in DOMAIN outputs[a] : o = outputs[a][i]
      BY DEF ToSet
    <3> QED BY <1>1, <3>1 DEF IInv, StoreInv
  <2>2. \A n \in DOMAIN written \ cleared : n \in kept
    <3> SUFFICES ASSUME NEW n \in DOMAIN written \ cleared
                 PROVE  n \in kept
      OBVIOUS
    <3>1. PICK a \in DOMAIN outputs :
              \E i \in DOMAIN outputs[a] : outputs[a][i] = written[n]
      BY <1>1 DEF IInv, StoreInv, Stored
    <3>2. written[n] \in ToSet(outputs[a]) /\ written[n].number = n
      BY <1>1, <3>1 DEF ToSet, IInv, HistoryInv
    <3> QED BY <3>2
  <2> QED BY <2>1, <2>2 DEF OutputsKept
<1> QED BY SessionIInv, <1>1, PTL

\* What an agent is started with is the declared part of what other agents
\* wrote, within the ceiling of its request and not cleared by then
\* (SessionStateStore.read).
THEOREM OnlyWhatIsNeeded == Spec => []NeedToKnow
<1>1. IInv => NeedToKnow
  BY DEF IInv, BoundaryInv, DeclaredFor, NeedToKnow, Reading
<1> QED BY SessionIInv, <1>1, PTL

\* What was written above the ceiling of a request reaches the agent that made
\* it only through an understated label, however long the chain of agents.
THEOREM NothingFlowsDown == Spec => []NoDownwardFlow
<1>1. ASSUME IInv PROVE NoDownwardFlow
  <2> SUFFICES ASSUME NEW a \in Reading, NEW item \in boundary[a].declared,
                      NEW n \in written[item.number].origins,
                      ~Through(item.number, n)
               PROVE  written[n].sensitivity
                          <= boundary[a].request.max_sensitivity
    BY DEF NoDownwardFlow, Through
  <2>1. /\ item.number \in DOMAIN written
        /\ written[item.number].sensitivity
               <= boundary[a].request.max_sensitivity
        /\ boundary[a].request \in ContextRequest
    BY <1>1, SessionAssumption
       DEF IInv, BoundaryInv, DeclaredFor, Reading
  <2>2. /\ n \in DOMAIN written
        /\ written[n].sensitivity <= written[item.number].sensitivity
    BY <1>1, <2>1 DEF IInv, HistoryInv
  <2>3. \A m \in DOMAIN written : written[m].sensitivity \in Int
    <3>1. Levels \subseteq Int
      BY SessionAssumption DEF SensitivityLevel, PUBLIC, SECRET
    <3>2. \A m \in DOMAIN written : written[m] \in AgentOutput
      BY <1>1 DEF IInv, HistoryInv
    <3>3. \A o \in AgentOutput : o.sensitivity \in Levels
      BY DEF AgentOutput
    <3> QED BY <3>1, <3>2, <3>3
  <2>4. boundary[a].request.max_sensitivity \in Int
    <3>1. \A r \in ContextRequest : r.max_sensitivity \in Levels
      BY DEF ContextRequest
    <3>2. Levels \subseteq Int
      BY SessionAssumption DEF SensitivityLevel, PUBLIC, SECRET
    <3> QED BY <2>1, <3>1, <3>2
  <2> QED BY <2>1, <2>2, <2>3, <2>4
<1> QED BY SessionIInv, <1>1, PTL

=============================================================================
