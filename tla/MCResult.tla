------------------------------ MODULE MCResult ------------------------------
(***************************************************************************)
(* ResultPath on a table of three rows of two brands: every WHERE clause   *)
(* of at most two disjuncts, with and without clauses after it, a column   *)
(* under another name, and users with and without scope and clearance.     *)
(***************************************************************************)
EXTENDS ResultPath, TLC

CONSTANTS analyst, admin, bot, brandA, brandB, delta, vin, note, label, read,
          own, either, r1, r2, r3

MCUserIds == {analyst, admin}
MCAgentIds == {bot}
MCBrands == {brandA, brandB}
MCSources == {delta}
MCColumns == {vin, note}
MCRights == {read}
MCTemplates == {own, either}
MCRows == {r1, r2, r3}

User(id, scope, level) ==
    [user_id |-> id, brand_scope |-> scope, clearance_level |-> level]

MCUsers ==
    {User(analyst, {brandA}, CONFIDENTIAL), User(analyst, {}, INTERNAL),
     User(admin, {brandA, brandB}, RESTRICTED)}

MCAgents ==
    {[agent_id |-> bot, max_sensitivity |-> RESTRICTED,
      allowed_rights |-> {read}, allowed_sources |-> {}]}

Asset(level, tags, template) ==
    [source |-> delta, sensitivity |-> level, brand_tags |-> tags,
     row_filter_template |-> template, pii_columns |-> {vin},
     consent_required |-> FALSE]

MCAssets ==
    {Asset(CONFIDENTIAL, {brandA, brandB}, NoTemplate),
     Asset(INTERNAL, {}, either), Asset(INTERNAL, {brandA}, either),
     Asset(INTERNAL, {brandA}, own), Asset(PUBLIC, {}, NoTemplate)}

\* "either" is a template with an OR.
MCTemplateCondition ==
    [f \in [template : MCTemplates, user_id : MCUserIds,
            brand_scope : SUBSET MCBrands] |->
        IF f.template = own THEN <<{r1}>> ELSE <<{r1}, {r2}>>]

NoHits == [critical |-> 0, boundary |-> 0, tool |-> 0, delimiter |-> 0]
Cell(text, long, hits, signals) ==
    [text |-> text, long |-> long, hits |-> hits, signals |-> signals]
At(kind, from) == [kind |-> kind, from |-> from, to |-> from + 1]

\* A VIN, one behind a look-alike, a text with one suspicious pattern; a note
\* with two of them and a keyword, one with a critical pattern, a delimiter and
\* an address, and a short one with a critical pattern.
MCTable ==
    [r \in MCRows |->
        CASE r = r1 ->
               [brand |-> brandA, cells |->
                   vin  :> Cell(TRUE, TRUE, NoHits, {At("vin", 0)}) @@
                   note :> Cell(TRUE, TRUE, [NoHits EXCEPT !.boundary = 2],
                                {At("restricted_keyword", 3)})]
          [] r = r2 ->
               [brand |-> brandB, cells |->
                   vin  :> Cell(TRUE, TRUE, NoHits, {At("vin_lookalike", 0),
                                                     At("vin", 1)}) @@
                   note :> Cell(TRUE, TRUE,
                                [NoHits EXCEPT !.critical = 1, !.delimiter = 1],
                                {At("email", 2)})]
          [] OTHER ->
               [brand |-> brandA, cells |->
                   vin  :> Cell(TRUE, TRUE, [NoHits EXCEPT !.tool = 1], {}) @@
                   note :> Cell(TRUE, FALSE, [NoHits EXCEPT !.critical = 1],
                                {At("confidential_keyword", 0)})]]

Conditions1 == {<<c>> : c \in SUBSET MCRows}
Conditions2 == {<<c, d>> : c \in SUBSET MCRows, d \in SUBSET MCRows}

Straight == vin :> vin @@ note :> note
Renamed == label :> vin

MCQueries ==
    {[where |-> w, select |-> s, trailing |-> <<>>] :
        w \in {<<>>} \cup Conditions1 \cup Conditions2,
        s \in {Straight, Renamed}}
    \cup
    {[where |-> w, select |-> Straight, trailing |-> t] :
        w \in {<<>>, <<{r1}>>},
        t \in {<<TRUE>>, <<FALSE>>, <<TRUE, TRUE>>, <<FALSE, TRUE>>,
              <<TRUE, FALSE>>}}

=============================================================================
