--------------------------- MODULE FilterPushdown ---------------------------
(***************************************************************************)
(* _inject_where_clauses and _mask_columns of the governance server        *)
(* (mcp_server/governance_server.py): what the text edited into a query    *)
(* does to the rows it reads.                                              *)
(*                                                                         *)
(* A condition is the sequence of its disjuncts, c1 OR c2 OR ..., each of  *)
(* them the set of the rows that satisfy it: AND binds closer than OR, so  *)
(* a disjunct is a chain of ANDs or a parenthesis.  The server edits text  *)
(* and knows nothing of this structure.                                    *)
(***************************************************************************)
EXTENDS Integers, Sequences, FiniteSets, AccessPolicy

CONSTANTS Rows        \* the rows of the table

\* where is <<>> for a query without a WHERE clause.  select maps the names of
\* the result columns to the columns they show.  trailing holds what follows, in
\* order: TRUE for a clause that one of the server's keyword patterns finds,
\* FALSE for what none does but a WHERE may not come after: a GROUP BY or an
\* ORDER BY that is spelled otherwise than with one space, a FETCH or a WINDOW
\* clause, or the semicolon at the end.  A query is one SELECT.
IsQuery(q) ==
    /\ q = [where |-> q.where, select |-> q.select, trailing |-> q.trailing]
    /\ q.where \in Seq(SUBSET Rows)
    /\ q.select \in [DOMAIN q.select -> Columns]
    /\ q.trailing \in Seq(BOOLEAN)

----------------------------------------------------------------------------
(* SQL conditions                                                          *)

Satisfying(c) == {r \in Rows : \E i \in DOMAIN c : r \in c[i]}

Paren(c) == <<Satisfying(c)>>

\* The text "c AND d": the last disjunct of c meets the first of d.
AndText(c, d) ==
    [i \in 1..(Len(c) + Len(d) - 1) |->
        IF i < Len(c) THEN c[i]
        ELSE IF i = Len(c) THEN c[i] \cap d[1]
        ELSE d[i - Len(c) + 1]]

----------------------------------------------------------------------------
(* _inject_where_clauses                                                   *)

\* Mutant: the filters are joined without parentheses.
JoinWithoutParens(filters) ==
    IF DOMAIN filters = FilterKeys
    THEN AndText(filters["brand_filter"], filters["row_template_filter"])
    ELSE filters[CHOOSE k \in DOMAIN filters : TRUE]

\* " AND ".join(f"({v})" for v in filters.values())
CombinedFilter(filters) ==
    <<{r \in Rows : \A k \in DOMAIN filters : r \in Satisfying(filters[k])}>>

\* Mutant: the clause goes before the last keyword that is found.
BeforeLastKeyword(trailing) ==
    CHOOSE p \in 1..(Len(trailing) + 1) :
        /\ p <= Len(trailing) => trailing[p]
        /\ \A i \in DOMAIN trailing :
              trailing[i] => p <= Len(trailing) /\ i <= p

\* The clause goes before the earliest keyword that is found, or at the end.
Position(trailing) ==
    CHOOSE p \in 1..(Len(trailing) + 1) :
        /\ p <= Len(trailing) => trailing[p]
        /\ \A i \in 1..(p - 1) : ~trailing[i]

\* A WHERE that follows another clause is a syntax error.
Misplaced(q, filters) ==
    DOMAIN filters # {} /\ q.where = <<>> /\ Position(q.trailing) > 1

InjectWhereClauses(q, filters) ==
    IF DOMAIN filters = {} THEN q
    ELSE IF q.where = <<>> THEN [q EXCEPT !.where = CombinedFilter(filters)]
    ELSE [q EXCEPT !.where = AndText(Paren(CombinedFilter(filters)), q.where)]

----------------------------------------------------------------------------
(* What the data source makes of a query.                                  *)

RowsRead(q) == IF q.where = <<>> THEN Rows ELSE Satisfying(q.where)

\* The rows that a filter map admits.
Admitted(filters) ==
    {r \in Rows : \A k \in DOMAIN filters : r \in Satisfying(filters[k])}

----------------------------------------------------------------------------
(* _mask_columns                                                           *)

\* A row without the result columns that have a masked name.
MaskColumns(row, masked) ==
    [name \in DOMAIN row \ masked |-> row[name]]

=============================================================================
