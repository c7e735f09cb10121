----------------------------- MODULE ResultPath -----------------------------
(***************************************************************************)
(* The way of a query result from the data source to a receiving agent     *)
(* (README, "High-Level Flow"): the governance server edits the query,     *)
(* runs it and masks columns; the injection detector scans the rows        *)
(* (scan_retrieved_data); context governance scrubs them for the receiver  *)
(* (govern_structured).  The caller that takes one to the next is          *)
(* external, and so are the table and the SQL engine.                      *)
(***************************************************************************)
EXTENDS FilterPushdown, InjectionDetector, Classifier

CONSTANTS
    Users, Agents, TheAssets,
    Queries,          \* the queries submitted
    Table,            \* row -> [brand, cells], cells: column -> value
    TemplateCondition,   \* resolved template -> the condition it stands for
    BlockOn,          \* the block_on arguments of the detector
    Ceilings          \* max_sensitivity of the receiving agents

\* A cell: whether it holds a string, whether that has more than ten
\* characters, the patterns of the detector and the signals of the classifier
\* that are in str() of it.
Value == [text : BOOLEAN, long : BOOLEAN, hits : Hits, signals : SUBSET Signal]

ASSUME ResultAssumption ==
    /\ Users \subseteq UserContext
    /\ Agents \subseteq AgentContext
    /\ TheAssets \subseteq DataAsset
    /\ \A q \in Queries : IsQuery(q)
    /\ Table \in [Rows -> [brand : Brands, cells : [Columns -> Value]]]
    /\ BlockOn \subseteq InjectionRisk
    /\ Ceilings \subseteq SensitivityLevel

VARIABLES
    token,            \* what the token carries: [user, asset, filters, masked]
    query,
    blockOn,
    ceiling,
    callerMask,       \* the masked_columns argument of govern_structured
    pc,               \* "call", "scan", "govern", "delivered", "refused" or
                      \* "failed"
    result,           \* row -> its result columns
    flagged,          \* what scan_retrieved_data returns: the fields
    delivered         \* row -> its columns as the receiver sees them

arguments == <<token, query, blockOn, ceiling, callerMask>>
vars == <<arguments, pc, result, flagged, delivered>>

Nothing == [r \in {} |-> {}]

----------------------------------------------------------------------------
(* The token and its filters                                               *)

TokenFor(user, asset) ==
    [user    |-> user,
     asset   |-> asset,
     filters |-> DeriveRowFilters(user, asset),
     masked  |-> DeriveColumnMask(user, asset)]

\* The token of a request for one asset, where it is granted and its filters
\* can be derived.
Tokens ==
    {TokenFor(user, asset) : user \in Users, asset \in
        {a \in TheAssets :
            /\ ~a.consent_required
            /\ ~TemplateRaises(a)}}

Granted(t) ==
    \E agent \in Agents, right \in Rights :
        ~Denied(t.user, agent, t.asset, right)

\* A filter map as SQL conditions.
Conditions(filters) ==
    [k \in DOMAIN filters |->
        IF k = "brand_filter"
        THEN <<{r \in Rows : Table[r].brand \in filters[k]}>>
        ELSE TemplateCondition[filters[k]]]

----------------------------------------------------------------------------
(* _execute_with_filter_pushdown and _execute_passthrough                  *)

\* Mutant: the pass-through path does not mask.
MaskWithFilters(rows) ==
    IF DOMAIN token.filters = {} THEN rows
    ELSE [r \in DOMAIN rows |-> MaskColumns(rows[r], token.masked)]

\* Both paths mask.
Mask(rows) == [r \in DOMAIN rows |-> MaskColumns(rows[r], token.masked)]

Selected(q) ==
    [r \in RowsRead(q) |->
        [name \in DOMAIN q.select |-> Table[r].cells[q.select[name]]]]

Execute ==
    LET filters == Conditions(token.filters) IN
    /\ pc = "call"
    /\ ~Misplaced(query, filters)
    /\ result' = Mask(Selected(InjectWhereClauses(query, filters)))
    /\ pc' = "scan"
    /\ UNCHANGED <<arguments, flagged, delivered>>

\* The data source rejects the edited query, and the call raises.
ExecuteRejected ==
    /\ pc = "call"
    /\ Misplaced(query, Conditions(token.filters))
    /\ pc' = "failed"
    /\ UNCHANGED <<arguments, result, flagged, delivered>>

----------------------------------------------------------------------------
(* scan_retrieved_data                                                     *)

Present(rows) ==
    UNION {{<<r, name>> : name \in DOMAIN rows[r]} : r \in DOMAIN rows}

\* Strings of ten characters or fewer are not scanned.
Scanned(value) == value.text /\ value.long

Flagged(rows) ==
    {f \in Present(rows) :
        LET value == rows[f[1]][f[2]] IN
        Scanned(value) /\ RiskLevel(value.hits) # NONE}

\* The caller goes on unless an assessment says should_block.
Scan ==
    /\ pc = "scan"
    /\ flagged' = Flagged(result)
    /\ pc' = IF \E f \in Flagged(result) :
                   Assess(result[f[1]][f[2]].hits, blockOn).should_block
             THEN "refused" ELSE "govern"
    /\ UNCHANGED <<arguments, result, delivered>>

----------------------------------------------------------------------------
(* govern_structured                                                       *)

\* Mutant: a value is looked at only if it holds PII.
ScrubPii(value) ==
    IF DetectPii(value.signals) /\ Classify(value.signals) > ceiling
    THEN "[REDACTED:PII]" ELSE "passed"

Scrub(value) ==
    IF Classify(value.signals) <= ceiling THEN "passed"
    ELSE IF DetectPii(value.signals) THEN "[REDACTED:PII]"
    ELSE "[REDACTED:ABOVE_CLEARANCE]"

GovernStructured ==
    /\ pc = "govern"
    /\ delivered' =
           [r \in DOMAIN result |->
               [name \in DOMAIN result[r] |->
                   IF name \in callerMask THEN "[MASKED]"
                   ELSE Scrub(result[r][name])]]
    /\ pc' = "delivered"
    /\ UNCHANGED <<arguments, result, flagged>>

----------------------------------------------------------------------------

Init ==
    /\ token \in {t \in Tokens : Granted(t)}
    /\ query \in Queries
    /\ blockOn \in BlockOn
    /\ ceiling \in Ceilings
    /\ callerMask \in SUBSET Columns
    /\ pc = "call"
    /\ result = Nothing
    /\ flagged = {}
    /\ delivered = Nothing

Next == Execute \/ ExecuteRejected \/ Scan \/ GovernStructured

Spec == Init /\ [][Next]_vars

----------------------------------------------------------------------------
(* Properties                                                              *)

\* Push-down neither widens nor narrows: a result holds all rows that satisfy
\* both the query and every filter of the token, and none that the query
\* alone would not give; without an OR at the top of the WHERE clause it holds
\* exactly the former, even if a filter template has an OR of its own
\* (_inject_where_clauses).
RowsWithinFilters ==
    pc \notin {"call", "failed"} =>
        LET asked    == RowsRead(query)
            admitted == Admitted(Conditions(token.filters))
        IN  /\ asked \cap admitted \subseteq DOMAIN result
            /\ DOMAIN result \subseteq asked
            /\ Len(query.where) <= 1 => DOMAIN result \subseteq admitted

\* Push-down breaks a query only if what comes first after its table is nothing
\* that the keyword patterns find, be it an odd spelling, a FETCH or a semicolon:
\* otherwise the clause is put where SQL wants it, whatever follows ("insert one
\* before any trailing clauses").
NothingBroken ==
    pc = "failed" => query.trailing # <<>> /\ ~query.trailing[1]

\* PII stays behind: on either path of the server, whatever row filters there
\* are, no PII column of the asset is in the result under its own name unless
\* the user is cleared for it, nor is it delivered.
PiiStaysBehind ==
    token.user.clearance_level < RESTRICTED =>
        \A r \in DOMAIN result :
            /\ DOMAIN result[r] \cap token.asset.pii_columns = {}
            /\ pc = "delivered" =>
                  DOMAIN delivered[r] \cap token.asset.pii_columns = {}

\* Injection is stopped before an agent sees it: no result with a field of
\* more than ten characters of HIGH or CRITICAL risk is delivered, not even in
\* part, whatever level the detector was told to block on (the decision of
\* assess and the one of the validator of InjectionAssessment).
InjectionStopped ==
    pc \in {"govern", "delivered"} =>
        \A f \in Present(result) :
            LET value == result[f[1]][f[2]] IN
            Scanned(value) => RiskLevel(value.hits) < HIGH

\* More evidence never looks safer: of two fields of a result, the one in
\* which as many patterns or more of every layer are found has no lower risk,
\* and is blocked if the other is (assess: four layers, each of which may
\* raise the risk).
EvidenceAccumulates ==
    \A f, g \in Present(result) :
        LET fewer == result[f[1]][f[2]].hits
            more  == result[g[1]][g[2]].hits
        IN  AtMost(fewer, more) =>
                /\ RiskLevel(fewer) <= RiskLevel(more)
                /\ Assess(fewer, blockOn).should_block =>
                       Assess(more, blockOn).should_block

\* A VIN behind a look-alike in the same value is not seen.
Hidden(signal, signals) ==
    signal.kind = "vin" /\ \E t \in signals :
                               t.kind = "vin_lookalike" /\ t.from < signal.from

\* The receiver's ceiling holds for tables as for text: no value passes whole
\* that shows a pattern or a keyword above the ceiling, except a VIN behind a
\* look-alike (govern_structured, two classifiers that must agree).
ReceiverCeiling ==
    pc = "delivered" =>
        \A r \in DOMAIN delivered : \A name \in DOMAIN delivered[r] :
            delivered[r][name] = "passed" =>
                \A s \in result[r][name].signals :
                    \/ s.kind = "vin_lookalike"
                    \/ Hidden(s, result[r][name].signals)
                    \/ LevelOf(s) <= ceiling

----------------------------------------------------------------------------
(* A claim of the documentation that the code does not keep                *)

\* "Safe for simple SELECTs" (CHANGES), "equivalent to Unity Catalog RLS"
\* (README): no row is in a result that a filter of the token excludes.
FiltersAlwaysApply ==
    DOMAIN result \subseteq Admitted(Conditions(token.filters))

=============================================================================
