---------------------------- MODULE Result_proofs ----------------------------
(***************************************************************************)
(* Proofs about the way of a query result: for every table, every query    *)
(* and every token.                                                        *)
(*                                                                         *)
(* All of them come from one fact: once the query has run, the result is   *)
(* the masked selection of the edited query, and nothing after it changes  *)
(* the rows; a scan that lets it pass found nothing in it to block.        *)
(***************************************************************************)
EXTENDS ResultPath, Lemmas

Past == {"scan", "govern", "delivered", "refused"}

\* The rows and columns that the server returns.
Returned ==
    Mask(Selected(InjectWhereClauses(query, Conditions(token.filters))))

\* What the receiver sees of it.
Scrubbed ==
    [r \in DOMAIN result |->
        [name \in DOMAIN result[r] |->
            IF name \in callerMask THEN "[MASKED]"
            ELSE Scrub(result[r][name])]]

IInv ==
    /\ token \in Tokens
    /\ query \in Queries
    /\ blockOn \in InjectionRisk
    /\ ceiling \in Ceilings
    /\ pc \in Past \cup {"call", "failed"}
    /\ pc \in Past => result = Returned
    /\ pc \notin Past => result = Nothing
    /\ pc \in {"govern", "delivered"} =>
           \A f \in Flagged(result) :
               ~Assess(result[f[1]][f[2]].hits, blockOn).should_block
    /\ pc # "delivered" => delivered = Nothing
    /\ pc = "delivered" => delivered = Scrubbed
    /\ pc = "failed" => Misplaced(query, Conditions(token.filters))

LEMMA InitIInv == Init => IInv
BY ResultAssumption DEF Init, IInv, Past

LEMMA NextIInv == IInv /\ [Next]_vars => IInv'
<1> SUFFICES ASSUME IInv, [Next]_vars PROVE IInv'
  OBVIOUS
<1>1. ASSUME UNCHANGED arguments
      PROVE  /\ token' = token /\ query' = query /\ blockOn' = blockOn
             /\ ceiling' = ceiling /\ callerMask' = callerMask
  BY <1>1 DEF arguments
<1>2. CASE Execute
  <2>1. result' = Returned /\ pc' = "scan" /\ UNCHANGED <<arguments, delivered>>
    BY <1>2 DEF Execute, Returned
  <2>2. Returned' = Returned
    BY <2>1, <1>1 DEF Returned, Mask, Selected
  <2>3. delivered' = Nothing
    BY <1>2, <2>1 DEF Execute, IInv
  <2> QED BY <1>1, <2>1, <2>2, <2>3 DEF IInv, Past
<1>3. CASE ExecuteRejected
  <2>1. Misplaced(query, Conditions(token.filters))'
    BY <1>1, <1>3 DEF ExecuteRejected, Misplaced, Conditions
  <2> QED BY <1>1, <1>3, <2>1 DEF ExecuteRejected, IInv, Past
<1>4. CASE Scan
  <2>1. UNCHANGED <<arguments, result, delivered>> /\ pc = "scan"
    BY <1>4 DEF Scan
  <2>2. Returned' = Returned
    BY <2>1, <1>1 DEF Returned, Mask, Selected
  <2>3. Flagged(result)' = Flagged(result)
    BY <2>1 DEF Flagged, Present
  <2>4. pc' \in {"refused", "govern"}
    BY <1>4 DEF Scan
  <2>5. pc' = "govern" =>
            \A f \in Flagged(result) :
                ~Assess(result[f[1]][f[2]].hits, blockOn).should_block
    BY <1>4 DEF Scan
  <2> QED BY <1>1, <2>1, <2>2, <2>3, <2>4, <2>5 DEF IInv, Past
<1>5. CASE GovernStructured
  <2>1. UNCHANGED <<arguments, result>> /\ pc = "govern" /\ pc' = "delivered"
    BY <1>5 DEF GovernStructured
  <2>2. Returned' = Returned
    BY <2>1, <1>1 DEF Returned, Mask, Selected
  <2>3. Flagged(result)' = Flagged(result)
    BY <2>1 DEF Flagged, Present
  <2>4. delivered' = Scrubbed'
    BY <1>1, <1>5, <2>1 DEF GovernStructured, Scrubbed, Scrub
  <2> QED BY <1>1, <2>1, <2>2, <2>3, <2>4 DEF IInv, Past
<1>6. CASE UNCHANGED vars
  <2>1. Returned' = Returned /\ Flagged(result)' = Flagged(result)
    BY <1>6 DEF vars, arguments, Returned, Mask, Selected, Flagged, Present
  <2>2. /\ Scrubbed' = Scrubbed
        /\ Misplaced(query, Conditions(token.filters))'
               = Misplaced(query, Conditions(token.filters))
    BY <1>6 DEF vars, arguments, Scrubbed, Scrub, Misplaced, Conditions
  <2> QED BY <1>6, <2>1, <2>2 DEF vars, arguments, IInv, Past
<1> QED BY <1>2, <1>3, <1>4, <1>5, <1>6 DEF Next

\* The inductive invariant of the result path.
THEOREM ResultIInv == Spec => []IInv
BY InitIInv, NextIInv, PTL DEF Spec

----------------------------------------------------------------------------
(* Push-down                                                               *)

\* The rows read are those of the edited query.
LEMMA ReturnedRows ==
    /\ DOMAIN Returned =
           RowsRead(InjectWhereClauses(query, Conditions(token.filters)))
    /\ query \in Queries =>
           \A r \in DOMAIN Returned :
               DOMAIN Returned[r] = DOMAIN query.select \ token.masked
<1> DEFINE edited == InjectWhereClauses(query, Conditions(token.filters))
<1>1. query \in Queries => edited.select = query.select
  BY ResultAssumption DEF InjectWhereClauses, IsQuery
<1> HIDE DEF edited
<1>2. Returned = Mask(Selected(edited))
  BY DEF Returned, edited
<1> QED BY <1>1, <1>2 DEF Mask, Selected, MaskColumns, edited

\* A condition that is put before another with AND takes rows away, those it
\* excludes from the first disjunct.
LEMMA AndTextRows ==
    ASSUME NEW admitted \in SUBSET Rows,
           NEW where \in Seq(SUBSET Rows), where # <<>>
    PROVE  /\ AndText(<<admitted>>, where) # <<>>
           /\ Satisfying(where) \cap admitted
                  \subseteq Satisfying(AndText(<<admitted>>, where))
           /\ Satisfying(AndText(<<admitted>>, where)) \subseteq Satisfying(where)
           /\ Len(where) <= 1 =>
                  Satisfying(AndText(<<admitted>>, where)) \subseteq admitted
<1> DEFINE both == AndText(<<admitted>>, where)
<1>1. Len(where) \in Nat /\ Len(where) >= 1 /\ DOMAIN where = 1..Len(where)
  OBVIOUS
<1>2. /\ DOMAIN both = 1..Len(where)
      /\ both[1] = admitted \cap where[1]
      /\ \A i \in 2..Len(where) : both[i] = where[i]
  BY <1>1 DEF AndText
<1> HIDE DEF both
<1>3. both # <<>>
  BY <1>1, <1>2
<1>4. \A i \in DOMAIN both : i = 1 \/ i \in 2..Len(where)
  BY <1>1, <1>2
<1>5. \A i \in DOMAIN where : where[i] \cap admitted \subseteq both[i]
                             /\ both[i] \subseteq where[i]
  BY <1>1, <1>2, <1>4
<1>6. Len(where) <= 1 => \A i \in DOMAIN both : both[i] \subseteq admitted
  BY <1>1, <1>2, <1>4
<1> QED BY <1>1, <1>2, <1>3, <1>5, <1>6 DEF Satisfying, both

\* The rows of an edited query.
LEMMA PushDown ==
    ASSUME NEW q, IsQuery(q), NEW filters
    PROVE  LET asked    == RowsRead(q)
               admitted == Admitted(filters)
               read     == RowsRead(InjectWhereClauses(q, filters))
           IN  /\ asked \cap admitted \subseteq read
               /\ read \subseteq asked
               /\ Len(q.where) <= 1 => read \subseteq admitted
<1> DEFINE asked    == RowsRead(q)
           admitted == Admitted(filters)
           edited   == InjectWhereClauses(q, filters)
<1>1. CombinedFilter(filters) = <<admitted>> /\ admitted \in SUBSET Rows
  BY DEF CombinedFilter, Admitted
<1>2. Satisfying(<<admitted>>) = admitted
  BY <1>1 DEF Satisfying
<1>3. CASE DOMAIN filters = {}
  <2>1. edited = q /\ admitted = Rows
    BY <1>3 DEF InjectWhereClauses, Admitted
  <2>2. asked \subseteq Rows
    BY DEF RowsRead, Satisfying
  <2> QED BY <2>1, <2>2
<1>4. CASE DOMAIN filters # {} /\ q.where = <<>>
  <2>1. edited = [q EXCEPT !.where = <<admitted>>]
    BY <1>1, <1>4 DEF InjectWhereClauses
  <2>2. edited.where = <<admitted>>
    BY <2>1 DEF IsQuery
  <2>3. RowsRead(edited) = admitted /\ asked = Rows
    BY <1>2, <1>4, <2>2 DEF RowsRead
  <2> QED BY <1>1, <2>3
<1>5. CASE DOMAIN filters # {} /\ q.where # <<>>
  <2>1. Paren(CombinedFilter(filters)) = <<admitted>>
    BY <1>1, <1>2 DEF Paren
  <2>2. edited = [q EXCEPT !.where = AndText(<<admitted>>, q.where)]
    BY <1>5, <2>1 DEF InjectWhereClauses
  <2>3. edited.where = AndText(<<admitted>>, q.where)
    BY <2>2 DEF IsQuery
  <2>4. q.where \in Seq(SUBSET Rows)
    BY DEF IsQuery
  <2>5. edited.where # <<>>
    BY <1>1, <1>5, <2>3, <2>4, AndTextRows
  <2>6. /\ RowsRead(edited) = Satisfying(AndText(<<admitted>>, q.where))
        /\ asked = Satisfying(q.where)
    BY <1>5, <2>3, <2>5 DEF RowsRead
  <2> HIDE DEF admitted, edited, asked
  <2>7. /\ asked \cap admitted \subseteq RowsRead(edited)
        /\ RowsRead(edited) \subseteq asked
        /\ Len(q.where) <= 1 => RowsRead(edited) \subseteq admitted
    BY <1>1, <1>5, <2>4, <2>6, AndTextRows
  <2> QED BY <2>7 DEF admitted, edited, asked
<1> QED BY <1>3, <1>4, <1>5

\* Push-down, for every table, every query and every filter map: it neither
\* widens the query nor loses a row that is asked for and admitted, and is
\* exact without an OR at the top of the WHERE clause (_inject_where_clauses).
THEOREM PushDownIsExact == Spec => []RowsWithinFilters
<1>1. IInv => RowsWithinFilters
  <2> SUFFICES ASSUME IInv, pc \notin {"call", "failed"}
               PROVE  LET asked    == RowsRead(query)
                          admitted == Admitted(Conditions(token.filters))
                      IN  /\ asked \cap admitted \subseteq DOMAIN result
                          /\ DOMAIN result \subseteq asked
                          /\ Len(query.where) <= 1 =>
                                 DOMAIN result \subseteq admitted
    BY DEF RowsWithinFilters
  <2>1. result = Returned /\ IsQuery(query)
    BY ResultAssumption DEF IInv, Past
  <2>2. DOMAIN result =
            RowsRead(InjectWhereClauses(query, Conditions(token.filters)))
    BY <2>1, ReturnedRows
  <2> QED BY <2>1, <2>2, PushDown
<1> QED BY <1>1, ResultIInv, PTL

\* No PII column of the asset is returned or delivered under its own name to
\* a user below RESTRICTED, with row filters or without (_mask_columns on
\* both execution paths, govern_structured).
THEOREM PiiIsLeftBehind == Spec => []PiiStaysBehind
<1>1. IInv => PiiStaysBehind
  <2> SUFFICES ASSUME IInv, token.user.clearance_level < RESTRICTED,
                      NEW r \in DOMAIN result
               PROVE  /\ DOMAIN result[r] \cap token.asset.pii_columns = {}
                      /\ pc = "delivered" =>
                            DOMAIN delivered[r] \cap token.asset.pii_columns = {}
    BY DEF PiiStaysBehind
  <2>1. token.masked = token.asset.pii_columns
    BY DEF IInv, Tokens, TokenFor, DeriveColumnMask
  <2>2. pc \in Past /\ result = Returned
    BY DEF IInv, Nothing
  <2>3. DOMAIN result[r] = DOMAIN query.select \ token.masked
    BY <2>2, ReturnedRows DEF IInv
  <2>4. pc = "delivered" => DOMAIN delivered[r] = DOMAIN result[r]
    BY DEF IInv, Scrubbed
  <2> QED BY <2>1, <2>3, <2>4
<1> QED BY <1>1, ResultIInv, PTL

----------------------------------------------------------------------------
(* The injection detector                                                  *)

\* The fields of a result are values of the table.
LEMMA FieldValue ==
    ASSUME IInv, NEW f \in Present(result)
    PROVE  result[f[1]][f[2]] \in Value
<1>1. PICK r \in DOMAIN result : f \in {<<r, name>> : name \in DOMAIN result[r]}
  BY DEF Present
<1>2. PICK name \in DOMAIN result[r] : f = <<r, name>>
  BY <1>1
<1>3. pc \in Past /\ result = Returned /\ IsQuery(query)
  BY <1>1, ResultAssumption DEF IInv, Nothing
<1> DEFINE edited == InjectWhereClauses(query, Conditions(token.filters))
<1>4. edited.select = query.select
  BY <1>3 DEF InjectWhereClauses, IsQuery
<1> HIDE DEF edited
<1>5. result = Mask(Selected(edited))
  BY <1>3 DEF Returned, edited
<1>6. /\ r \in RowsRead(edited) /\ name \in DOMAIN query.select
      /\ result[r][name] = Table[r].cells[query.select[name]]
  BY <1>1, <1>2, <1>4, <1>5 DEF Mask, MaskColumns, Selected
<1>7. r \in Rows /\ query.select[name] \in Columns
  BY <1>3, <1>6 DEF RowsRead, Satisfying, IsQuery
<1>8. Table[r].cells[query.select[name]] \in Value
  BY <1>7, ResultAssumption
<1> QED BY <1>2, <1>6, <1>8

LEMMA MaxRiskMonotone ==
    ASSUME NEW a \in InjectionRisk, NEW b \in InjectionRisk,
           NEW c \in InjectionRisk, NEW d \in InjectionRisk, a <= c, b <= d
    PROVE  /\ MaxRisk(a, b) \in InjectionRisk
           /\ MaxRisk(c, d) \in InjectionRisk
           /\ MaxRisk(a, b) <= MaxRisk(c, d)
BY DEF MaxRisk, InjectionRisk, NONE, CRITICAL

LEMMA LayerRiskMonotone ==
    ASSUME NEW m \in Nat, NEW n \in Nat, m <= n
    PROVE  /\ LayerRisk(m) \in InjectionRisk
           /\ LayerRisk(m) <= LayerRisk(n)
BY DEF LayerRisk, InjectionRisk, HIGH_THRESHOLD, NONE, MEDIUM, HIGH, CRITICAL

\* A field with more patterns in every layer has no lower risk.
LEMMA RiskMonotone ==
    ASSUME NEW g \in Hits, NEW h \in Hits, AtMost(g, h)
    PROVE  /\ RiskLevel(g) \in InjectionRisk
           /\ RiskLevel(h) \in InjectionRisk
           /\ RiskLevel(g) <= RiskLevel(h)
<1> DEFINE crit(x) == IF x.critical > 0 THEN CRITICAL ELSE NONE
           delim(x) == IF x.delimiter > 0 THEN HIGH ELSE NONE
           two(x) == MaxRisk(crit(x), LayerRisk(x.boundary))
           three(x) == MaxRisk(two(x), LayerRisk(x.tool))
<1>1. /\ g.critical \in Nat /\ h.critical \in Nat /\ g.critical <= h.critical
      /\ g.boundary \in Nat /\ h.boundary \in Nat /\ g.boundary <= h.boundary
      /\ g.tool \in Nat /\ h.tool \in Nat /\ g.tool <= h.tool
      /\ g.delimiter \in Nat /\ h.delimiter \in Nat
      /\ g.delimiter <= h.delimiter
  BY DEF Hits, AtMost
<1>2. /\ crit(g) \in InjectionRisk /\ crit(h) \in InjectionRisk
      /\ crit(g) <= crit(h)
      /\ delim(g) \in InjectionRisk /\ delim(h) \in InjectionRisk
      /\ delim(g) <= delim(h)
  BY <1>1 DEF InjectionRisk, NONE, HIGH, CRITICAL
<1>3. /\ LayerRisk(g.boundary) \in InjectionRisk
      /\ LayerRisk(h.boundary) \in InjectionRisk
      /\ LayerRisk(g.boundary) <= LayerRisk(h.boundary)
      /\ LayerRisk(g.tool) \in InjectionRisk
      /\ LayerRisk(h.tool) \in InjectionRisk
      /\ LayerRisk(g.tool) <= LayerRisk(h.tool)
  BY <1>1, LayerRiskMonotone
<1> HIDE DEF crit, delim
<1>4. two(g) \in InjectionRisk /\ two(h) \in InjectionRisk /\ two(g) <= two(h)
  BY <1>2, <1>3, MaxRiskMonotone
<1> HIDE DEF two
<1>5. /\ three(g) \in InjectionRisk /\ three(h) \in InjectionRisk
      /\ three(g) <= three(h)
  BY <1>3, <1>4, MaxRiskMonotone
<1> HIDE DEF three
<1>6. /\ MaxRisk(three(g), delim(g)) \in InjectionRisk
      /\ MaxRisk(three(h), delim(h)) \in InjectionRisk
      /\ MaxRisk(three(g), delim(g)) <= MaxRisk(three(h), delim(h))
  BY <1>2, <1>5, MaxRiskMonotone
<1> QED BY <1>6 DEF RiskLevel, crit, delim, two, three

\* More evidence never looks safer, for every pair of texts (assess).
THEOREM EvidenceIsMonotone == Spec => []EvidenceAccumulates
<1>1. IInv => EvidenceAccumulates
  <2> SUFFICES ASSUME IInv,
                      NEW f \in Present(result), NEW g \in Present(result),
                      AtMost(result[f[1]][f[2]].hits, result[g[1]][g[2]].hits)
               PROVE  LET fewer == result[f[1]][f[2]].hits
                          more  == result[g[1]][g[2]].hits
                      IN  /\ RiskLevel(fewer) <= RiskLevel(more)
                          /\ Assess(fewer, blockOn).should_block =>
                                 Assess(more, blockOn).should_block
    BY DEF EvidenceAccumulates
  <2> DEFINE fewer == result[f[1]][f[2]].hits
             more  == result[g[1]][g[2]].hits
  <2>1. fewer \in Hits /\ more \in Hits
    BY FieldValue DEF Value
  <2>2. /\ RiskLevel(fewer) \in InjectionRisk /\ RiskLevel(more) \in InjectionRisk
        /\ RiskLevel(fewer) <= RiskLevel(more)
    BY <2>1, RiskMonotone
  <2>3. blockOn \in InjectionRisk
    BY DEF IInv
  <2> HIDE DEF fewer, more
  <2>4. ShouldBlock(RiskLevel(fewer), blockOn) =>
            ShouldBlock(RiskLevel(more), blockOn)
    BY <2>2, <2>3 DEF ShouldBlock, InjectionRisk, NONE, HIGH, CRITICAL
  <2>5. Assess(fewer, blockOn).should_block => Assess(more, blockOn).should_block
    BY <2>4, Zenon DEF Assess
  <2> QED BY <2>2, <2>5 DEF fewer, more
<1> QED BY <1>1, ResultIInv, PTL

\* No scanned field of HIGH or CRITICAL risk is delivered, whatever level the
\* detector blocks on (scan_retrieved_data, InjectionAssessment).
THEOREM InjectionIsStopped == Spec => []InjectionStopped
<1>1. IInv => InjectionStopped
  <2> SUFFICES ASSUME IInv, pc \in {"govern", "delivered"},
                      NEW f \in Present(result),
                      Scanned(result[f[1]][f[2]])
               PROVE  RiskLevel(result[f[1]][f[2]].hits) < HIGH
    BY DEF InjectionStopped
  <2> DEFINE risk == RiskLevel(result[f[1]][f[2]].hits)
  <2>1. risk \in InjectionRisk
    <3>1. \A h \in Hits : AtMost(h, h)
      BY DEF Hits, AtMost
    <3> QED BY FieldValue, RiskMonotone, <3>1 DEF Value
  <2>2. CASE risk = NONE
    BY <2>2 DEF NONE, HIGH
  <2>3. CASE risk # NONE
    <3>1. f \in Flagged(result)
      BY <2>3 DEF Flagged
    <3>2. ~(risk >= HIGH)
      BY <3>1 DEF IInv, Assess, ShouldBlock
    <3> QED BY <2>1, <3>2 DEF InjectionRisk, NONE, HIGH, CRITICAL
  <2> QED BY <2>2, <2>3
<1> QED BY <1>1, ResultIInv, PTL

----------------------------------------------------------------------------
(* What fails, and what the receiver sees                                  *)

\* Push-down breaks no query unless what comes first after its table is nothing
\* that the server's patterns find (_inject_where_clauses).
THEOREM OnlyOddSpellingBreaks == Spec => []NothingBroken
<1>1. IInv => NothingBroken
  <2> SUFFICES ASSUME IInv, pc = "failed",
                      query.trailing # <<>> => query.trailing[1]
               PROVE  FALSE
    BY DEF NothingBroken
  <2> DEFINE trailing == query.trailing
             Fits(p) == /\ p <= Len(trailing) => trailing[p]
                        /\ \A i \in 1..(p - 1) : ~trailing[i]
  <2>1. trailing \in Seq(BOOLEAN)
    BY ResultAssumption DEF IInv, IsQuery
  <2>2. Len(trailing) \in Nat /\ DOMAIN trailing = 1..Len(trailing)
    BY <2>1
  <2>3. 1 \in 1..(Len(trailing) + 1) /\ Fits(1)
    BY <2>2
  <2>4. Position(trailing) = CHOOSE p \in 1..(Len(trailing) + 1) : Fits(p)
    BY DEF Position
  <2>5. Position(trailing) \in 1..(Len(trailing) + 1)
        /\ Fits(Position(trailing))
    <3> HIDE DEF Fits
    <3> QED BY <2>3, <2>4
  <2>6. Position(trailing) > 1
    BY DEF IInv, Misplaced
  <2>7. 1 \in DOMAIN trailing /\ trailing # <<>> /\ ~trailing[1]
    BY <2>1, <2>2, <2>5, <2>6
  <2> QED BY <2>7
<1> QED BY <1>1, ResultIInv, PTL

\* The receiver's ceiling holds for every table and every set of signals: a
\* value that passes whole shows nothing above it but a VIN behind a
\* look-alike (govern_structured).
THEOREM CeilingHolds == Spec => []ReceiverCeiling
<1>1. IInv => ReceiverCeiling
  <2> SUFFICES ASSUME IInv, pc = "delivered",
                      NEW r \in DOMAIN delivered,
                      NEW name \in DOMAIN delivered[r],
                      delivered[r][name] = "passed",
                      NEW s \in result[r][name].signals,
                      s.kind # "vin_lookalike",
                      ~Hidden(s, result[r][name].signals)
               PROVE  LevelOf(s) <= ceiling
    BY DEF ReceiverCeiling
  <2> DEFINE value == result[r][name]
  <2>1. /\ r \in DOMAIN result /\ name \in DOMAIN result[r]
        /\ delivered[r][name] = IF name \in callerMask THEN "[MASKED]"
                                ELSE Scrub(value)
    BY DEF IInv, Scrubbed
  <2>2. Classify(value.signals) <= ceiling
    BY <2>1 DEF Scrub
  <2>3. <<r, name>> \in Present(result)
    BY <2>1 DEF Present
  <2>4. value \in Value
    BY <2>3, FieldValue
  <2>5. value.signals \in SUBSET Signal
    BY <2>4 DEF Value
  <2>6. s.kind = "vin" =>
            \A t \in value.signals :
                t.kind = "vin_lookalike" => s.from <= t.from
    BY <2>5 DEF Hidden, Signal
  <2>7. LevelOf(s) <= Classify(value.signals)
    <3> HIDE DEF value
    <3>1. s \in value.signals
      BY DEF value
    <3> QED BY <2>5, <2>6, <3>1, SignalCounts
  <2>8. /\ LevelOf(s) \in Int /\ Classify(value.signals) \in Int
        /\ ceiling \in Int
    BY ResultAssumption, ClassifyFacts
       DEF LevelOf, INTERNAL, CONFIDENTIAL, RESTRICTED, IInv,
           SensitivityLevel, PUBLIC, SECRET
  <2> QED BY <2>2, <2>7, <2>8
<1> QED BY <1>1, ResultIInv, PTL

=============================================================================
