---------------------------- MODULE Threads_proofs ----------------------------
(***************************************************************************)
(* Proofs about the components without a lock: for every number of         *)
(* threads, tokens and assets.                                             *)
(*                                                                         *)
(* request_access: every version of the policy that a thread took was the  *)
(* policy of a time within its call, and while at most one write falls     *)
(* into a call, whatever it grants, some policy of that time grants.       *)
(*                                                                         *)
(* handle_tool_call: a token that has run stays in the cache until its     *)
(* entry is evicted, or purged after it expired; hence a membership test   *)
(* that does not find it has an excuse, which the call then carries to its *)
(* run.  And a cache at capacity is overrun by no more than the threads    *)
(* that may insert without removing anything first.                        *)
(***************************************************************************)
EXTENDS ConcurrentRequests, ConcurrentCalls, Lemmas, FiniteSetTheorems

----------------------------------------------------------------------------
(* request_token                                                           *)

IsContent(c) ==
    /\ c = [assets |-> c.assets, consent |-> c.consent]
    /\ DOMAIN c.assets \subseteq AssetIds
    /\ c.assets \in [DOMAIN c.assets -> DataAsset]

\* No more than one write lies between the two.
OneApart(c, d) == c.assets = d.assets \/ c.consent = d.consent

CatalogInv ==
    /\ CatalogTypeOK
    /\ writing \in BOOLEAN
    /\ IsContent(policyVersion)
    /\ ~writing => policyVersion = Content
    /\ OneApart(policyVersion, Content)

IsRequest(r) ==
    /\ r = [pc |-> r.pc, user |-> r.user, agent |-> r.agent, ids |-> r.ids,
            right |-> r.right, next |-> r.next, filters |-> r.filters,
            masked |-> r.masked, asset |-> r.asset, version |-> r.version,
            window |-> r.window]
    /\ r.user \in Users /\ r.agent \in Agents /\ r.right \in Rights
    /\ r.ids \in AssetLists
    /\ r.pc \in {"asset", "resolve", "consent", "version", "issued"}
    /\ r.next \in Nat
    /\ r.pc \in {"asset", "resolve", "consent"} => r.next \in 1..Len(r.ids)
    /\ IsFilterMap(r.filters)
    /\ r.masked \subseteq Columns

\* The positions of asset_ids that the request is through with.
Done(r) == IF r.pc \in {"version", "issued"} THEN Len(r.ids) ELSE r.next - 1

\* TakenFromWindow and GrantedBy, of any request.
TakenFrom(from, user, ids, masked, filters, n) ==
    /\ \A i \in 1..n : ids[i] \in DOMAIN from[i].assets
    /\ masked = UNION {DeriveColumnMask(user, from[i].assets[ids[i]]) :
                         i \in 1..n}
    /\ MergedInOrder(filters,
                     [i \in 1..n |->
                         DeriveRowFilters(user, from[i].assets[ids[i]])])

Taken(r, n) ==
    \E from \in [1..n -> r.window] :
        TakenFrom(from, r.user, r.ids, r.masked, r.filters, n)

Granted(r, content, aid) ==
    /\ aid \in DOMAIN content.assets
    /\ Access(content, r.user, r.agent, aid, r.right) = "granted"

\* The contents seen: if they are no more than two, then no more than one
\* write lies between them.
WindowInv(window, content, version) ==
    /\ IsFiniteSet(window)
    /\ content \in window /\ version \in window
    /\ \A c \in window : IsContent(c)
    /\ Cardinality(window) <= 2 => \A c, d \in window : OneApart(c, d)

\* What is known of the asset at the current position.
CurrentInv(r) ==
    /\ r.pc \in {"resolve", "consent"} =>
          \E c \in r.window : /\ r.ids[r.next] \in DOMAIN c.assets
                              /\ r.asset = c.assets[r.ids[r.next]]
    /\ r.pc = "consent" =>
          \E c \in r.window :
             /\ r.ids[r.next] \in DOMAIN c.assets
             /\ ~Denied(r.user, r.agent, c.assets[r.ids[r.next]], r.right)

GrantedInv(r, n) ==
    Cardinality(r.window) <= 2 =>
        \A i \in 1..n : \E c \in r.window : Granted(r, c, r.ids[i])

RequestInv(r, content, version) ==
    /\ IsRequest(r)
    /\ WindowInv(r.window, content, version)
    /\ CurrentInv(r)
    /\ Taken(r, Done(r))
    /\ GrantedInv(r, Done(r))
    /\ r.pc = "issued" => r.version \in r.window

RequestsInv ==
    /\ CatalogInv
    /\ request = NoRequest \/ RequestInv(request, Content, policyVersion)

----------------------------------------------------------------------------
(* What one position contributes                                           *)

LEMMA RequestTypes ==
    ASSUME NEW r, IsRequest(r)
    PROVE  /\ r.user \in UserContext
           /\ r.ids \in Seq(AssetIds) /\ DOMAIN r.ids = 1..Len(r.ids)
           /\ Len(r.ids) \in Nat
<1>1. r.ids \in Seq(AssetIds) /\ r.user \in UserContext
  BY RequestsAssumption DEF IsRequest
<1> QED BY <1>1

\* The filters of one asset are a filter map.
LEMMA DerivedFilterMap ==
    ASSUME NEW user \in UserContext, NEW asset \in DataAsset
    PROVE  /\ IsFilterMap(DeriveRowFilters(user, asset))
           /\ DeriveColumnMask(user, asset) \subseteq Columns
<1>1. /\ user.user_id \in UserIds /\ user.brand_scope \in SUBSET Brands
      /\ asset.brand_tags \in SUBSET Brands
      /\ asset.row_filter_template \in Templates \cup {NoTemplate}
      /\ asset.pii_columns \in SUBSET Columns
  BY DEF UserContext, DataAsset
<1> QED BY <1>1 DEF IsFilterMap, DeriveRowFilters, VisibleBrands, FilterKeys,
                    ResolvedTemplate, DeriveColumnMask

\* One more map, merged over the others.
LEMMA MergeOne ==
    ASSUME NEW filters, NEW n \in Nat, NEW given, NEW more,
           DOMAIN given = 1..n,
           MergedInOrder(filters, given),
           IsFilterMap(filters), IsFilterMap(more)
    PROVE  /\ IsFilterMap(Update(filters, more))
           /\ MergedInOrder(Update(filters, more),
                            [i \in 1..(n + 1) |->
                                IF i = n + 1 THEN more ELSE given[i]])
<1> DEFINE all == [i \in 1..(n + 1) |-> IF i = n + 1 THEN more ELSE given[i]]
           U == Update(filters, more)
<1>1. IsFilterMap(U)
  BY DEF IsFilterMap, Update
<1>2. /\ DOMAIN U = DOMAIN filters \cup DOMAIN more
      /\ \A k \in DOMAIN more : U[k] = more[k]
      /\ \A k \in DOMAIN filters \ DOMAIN more : U[k] = filters[k]
  BY DEF Update
<1>3. /\ DOMAIN all = 1..(n + 1) /\ all[n + 1] = more
      /\ \A i \in 1..n : all[i] = given[i]
      /\ 1..(n + 1) = 1..n \cup {n + 1}
  OBVIOUS
<1> HIDE DEF all, U
<1>4. DOMAIN U = UNION {DOMAIN all[i] : i \in DOMAIN all}
  <2>1. DOMAIN filters = UNION {DOMAIN given[i] : i \in 1..n}
    BY DEF MergedInOrder
  <2>2. \A k : k \in UNION {DOMAIN all[i] : i \in DOMAIN all}
               <=> k \in DOMAIN more \/ \E i \in 1..n : k \in DOMAIN given[i]
    BY <1>3
  <2> QED BY <1>2, <2>1, <2>2
<1>5. ASSUME NEW k \in DOMAIN U
      PROVE  \E i \in DOMAIN all :
                 /\ k \in DOMAIN all[i] /\ U[k] = all[i][k]
                 /\ \A j \in DOMAIN all : k \in DOMAIN all[j] => j <= i
  <2>1. CASE k \in DOMAIN more
    <3>1. \A j \in DOMAIN all : j <= n + 1
      BY <1>3
    <3> QED BY <1>2, <1>3, <2>1, <3>1
  <2>2. CASE k \notin DOMAIN more
    <3>1. k \in DOMAIN filters
      BY <1>2, <2>2
    <3>2. PICK i \in 1..n :
              /\ k \in DOMAIN given[i] /\ filters[k] = given[i][k]
              /\ \A j \in 1..n : k \in DOMAIN given[j] => j <= i
      BY <3>1 DEF MergedInOrder
    <3>3. \A j \in DOMAIN all : k \in DOMAIN all[j] => j <= i
      BY <1>3, <2>2, <3>2
    <3> QED BY <1>2, <1>3, <2>2, <3>1, <3>2, <3>3
  <2> QED BY <2>1, <2>2
<1> QED BY <1>1, <1>4, <1>5 DEF MergedInOrder, all, U

\* The fields of an updated request.
LEMMA DerivedFields ==
    ASSUME NEW r, IsRequest(r)
    PROVE  LET last == r.next = Len(r.ids) IN
           Derived(r) =
               [pc      |-> IF last THEN "version" ELSE "asset",
                user    |-> r.user,
                agent   |-> r.agent,
                ids     |-> r.ids,
                right   |-> r.right,
                next    |-> IF last THEN r.next ELSE r.next + 1,
                filters |-> Update(r.filters, DeriveRowFilters(r.user, r.asset)),
                masked  |-> r.masked \cup DeriveColumnMask(r.user, r.asset),
                asset   |-> r.asset,
                version |-> r.version,
                window  |-> r.window]
<1> DEFINE Rec(pc, next, filters, masked) ==
               [pc |-> pc, user |-> r.user, agent |-> r.agent, ids |-> r.ids,
                right |-> r.right, next |-> next, filters |-> filters,
                masked |-> masked, asset |-> r.asset, version |-> r.version,
                window |-> r.window]
           last == r.next = Len(r.ids)
           filters2 == Update(r.filters, DeriveRowFilters(r.user, r.asset))
           masked2 == r.masked \cup DeriveColumnMask(r.user, r.asset)
           next2 == IF last THEN r.next ELSE r.next + 1
           pc2 == IF last THEN "version" ELSE "asset"
<1>1. Derived(r) = [[[[r EXCEPT !.filters = filters2]
                         EXCEPT !.masked = masked2]
                        EXCEPT !.next = next2]
                       EXCEPT !.pc = pc2]
  <2>1. Derived(r) = [r EXCEPT !.filters = filters2, !.masked = masked2,
                               !.next = next2, !.pc = pc2]
    BY DEF Derived
  <2> HIDE DEF filters2, masked2, next2, pc2
  <2> QED BY <2>1
<1> HIDE DEF filters2, masked2, next2, pc2
<1>2. r = Rec(r.pc, r.next, r.filters, r.masked)
  BY DEF IsRequest
<1>3. \A pc, next, filters, masked :
          /\ [Rec(pc, next, filters, masked) EXCEPT !.filters = filters2]
                 = Rec(pc, next, filters2, masked)
          /\ [Rec(pc, next, filters, masked) EXCEPT !.masked = masked2]
                 = Rec(pc, next, filters, masked2)
          /\ [Rec(pc, next, filters, masked) EXCEPT !.next = next2]
                 = Rec(pc, next2, filters, masked)
          /\ [Rec(pc, next, filters, masked) EXCEPT !.pc = pc2]
                 = Rec(pc2, next, filters, masked)
  OBVIOUS
<1> HIDE DEF Rec
<1>4. Derived(r) = Rec(pc2, next2, filters2, masked2)
  <2> DEFINE r1 == [r EXCEPT !.filters = filters2]
             r2 == [r1 EXCEPT !.masked = masked2]
             r3 == [r2 EXCEPT !.next = next2]
             r4 == [r3 EXCEPT !.pc = pc2]
  <2>1. Derived(r) = r4
    BY <1>1
  <2>2. r1 = Rec(r.pc, r.next, filters2, r.masked)
    BY <1>2, <1>3
  <2> HIDE DEF r1
  <2>3. r2 = Rec(r.pc, r.next, filters2, masked2)
    BY <2>2, <1>3
  <2> HIDE DEF r2
  <2>4. r3 = Rec(r.pc, next2, filters2, masked2)
    BY <2>3, <1>3
  <2> HIDE DEF r3
  <2>5. r4 = Rec(pc2, next2, filters2, masked2)
    BY <2>4, <1>3
  <2> QED BY <2>1, <2>5
<1> QED BY <1>4 DEF Rec, filters2, masked2, next2, pc2

\* What follows a granting decision takes the position over from the content
\* that its definition is of.
LEMMA DerivedTakes ==
    ASSUME NEW r, IsRequest(r), r.pc \in {"asset", "resolve", "consent"},
           Taken(r, r.next - 1),
           NEW c \in r.window, IsContent(c),
           r.ids[r.next] \in DOMAIN c.assets,
           r.asset = c.assets[r.ids[r.next]]
    PROVE  /\ IsRequest(Derived(r))
           /\ Derived(r).pc \in {"asset", "version"}
           /\ Done(Derived(r)) = r.next
           /\ Taken(Derived(r), r.next)
           /\ Derived(r).window = r.window /\ Derived(r).user = r.user
           /\ Derived(r).agent = r.agent /\ Derived(r).right = r.right
           /\ Derived(r).ids = r.ids
<1> DEFINE n == r.next - 1
           d == Derived(r)
           last == r.next = Len(r.ids)
           more == DeriveRowFilters(r.user, r.asset)
           mask == DeriveColumnMask(r.user, r.asset)
<1>1. /\ r.user \in UserContext /\ r.asset \in DataAsset
      /\ r.next \in 1..Len(r.ids) /\ Len(r.ids) \in Nat /\ n \in Nat
  BY RequestTypes DEF IsContent, IsRequest
<1>2. d = [pc      |-> IF last THEN "version" ELSE "asset",
           user    |-> r.user,
           agent   |-> r.agent,
           ids     |-> r.ids,
           right   |-> r.right,
           next    |-> IF last THEN r.next ELSE r.next + 1,
           filters |-> Update(r.filters, more),
           masked  |-> r.masked \cup mask,
           asset   |-> r.asset,
           version |-> r.version,
           window  |-> r.window]
  BY DerivedFields
<1>3. IsFilterMap(more) /\ mask \subseteq Columns
  BY <1>1, DerivedFilterMap
<1> HIDE DEF d, more, mask
<1>4. PICK from \in [1..n -> r.window] :
          /\ \A i \in 1..n : r.ids[i] \in DOMAIN from[i].assets
          /\ r.masked = UNION {DeriveColumnMask(r.user,
                                                from[i].assets[r.ids[i]]) :
                                 i \in 1..n}
          /\ MergedInOrder(r.filters,
                           [i \in 1..n |->
                               DeriveRowFilters(r.user,
                                                from[i].assets[r.ids[i]])])
  BY DEF Taken, TakenFrom
<1> DEFINE given == [i \in 1..n |->
                        DeriveRowFilters(r.user, from[i].assets[r.ids[i]])]
           to == [i \in 1..(n + 1) |-> IF i = n + 1 THEN c ELSE from[i]]
           all == [i \in 1..(n + 1) |-> IF i = n + 1 THEN more ELSE given[i]]
<1>5. /\ IsFilterMap(Update(r.filters, more))
      /\ MergedInOrder(Update(r.filters, more), all)
  <2>1. DOMAIN given = 1..n
    OBVIOUS
  <2>2. MergedInOrder(r.filters, given)
    BY <1>4
  <2>3. IsFilterMap(r.filters)
    BY DEF IsRequest
  <2> HIDE DEF given
  <2> QED BY <1>1, <1>3, <2>1, <2>2, <2>3, MergeOne
<1>6. n + 1 = r.next /\ 1..r.next = 1..n \cup {r.next} /\ r.next \notin 1..n
  BY <1>1
<1>7. /\ to \in [1..r.next -> r.window]
      /\ to[r.next] = c /\ \A i \in 1..n : to[i] = from[i]
  BY <1>6
<1>8. all = [i \in 1..r.next |->
                DeriveRowFilters(r.user, to[i].assets[r.ids[i]])]
  <2>1. \A i \in 1..r.next :
            all[i] = DeriveRowFilters(r.user, to[i].assets[r.ids[i]])
    BY <1>6, <1>7 DEF more
  <2>2. all = [i \in 1..r.next |-> all[i]]
    BY <1>6
  <2> HIDE DEF all, to
  <2> QED BY <2>1, <2>2
<1>9. r.masked \cup mask =
          UNION {DeriveColumnMask(r.user, to[i].assets[r.ids[i]]) :
                   i \in 1..r.next}
  <2>1. \A x : x \in UNION {DeriveColumnMask(r.user, to[i].assets[r.ids[i]]) :
                              i \in 1..r.next}
               <=> \/ x \in DeriveColumnMask(r.user, r.asset)
                   \/ \E i \in 1..n :
                         x \in DeriveColumnMask(r.user,
                                                from[i].assets[r.ids[i]])
    <3> HIDE DEF to, n
    <3>1. \A i \in 1..n : to[i].assets[r.ids[i]] = from[i].assets[r.ids[i]]
      BY <1>7
    <3>2. to[r.next].assets[r.ids[r.next]] = r.asset
      BY <1>7
    <3> QED BY <1>6, <3>1, <3>2
  <2>2. \A x : x \in r.masked <=>
               \E i \in 1..n : x \in DeriveColumnMask(r.user,
                                                from[i].assets[r.ids[i]])
    BY <1>4
  <2> QED BY <2>1, <2>2 DEF mask
<1>10. \A i \in 1..r.next : r.ids[i] \in DOMAIN to[i].assets
  BY <1>4, <1>6, <1>7
<1> HIDE DEF to, all
<1>11. Taken(d, r.next)
  <2>1. /\ d.window = r.window /\ d.user = r.user /\ d.ids = r.ids
        /\ d.filters = Update(r.filters, more) /\ d.masked = r.masked \cup mask
    BY <1>2
  <2>2. TakenFrom(to, r.user, r.ids, r.masked \cup mask,
                  Update(r.filters, more), r.next)
    BY <1>5, <1>8, <1>9, <1>10 DEF TakenFrom
  <2> QED BY <1>7, <2>1, <2>2 DEF Taken
<1>12. /\ d.user = r.user /\ d.agent = r.agent /\ d.ids = r.ids
       /\ d.right = r.right /\ d.window = r.window
       /\ d.pc = (IF last THEN "version" ELSE "asset")
       /\ d.next = (IF last THEN r.next ELSE r.next + 1)
       /\ d.filters = Update(r.filters, more)
       /\ d.masked = r.masked \cup mask
       /\ d.asset = r.asset /\ d.version = r.version
  BY <1>2
<1>13. IsRequest(d)
  <2>1. d = [pc |-> d.pc, user |-> d.user, agent |-> d.agent, ids |-> d.ids,
            right |-> d.right, next |-> d.next, filters |-> d.filters,
            masked |-> d.masked, asset |-> d.asset, version |-> d.version,
            window |-> d.window]
    BY <1>2
  <2>2. d.next \in Nat /\ (d.pc = "asset" => d.next \in 1..Len(d.ids))
    BY <1>1, <1>12
  <2>3. d.masked \subseteq Columns /\ IsFilterMap(d.filters)
    BY <1>3, <1>5, <1>12 DEF IsRequest
  <2> QED BY <1>12, <2>1, <2>2, <2>3 DEF IsRequest
<1>14. Done(d) = r.next
  BY <1>1, <1>12 DEF Done
<1> QED BY <1>11, <1>12, <1>13, <1>14 DEF d

----------------------------------------------------------------------------
(* The contents seen                                                       *)

\* Three different members make a finite set larger than two.
LEMMA ThreeMembers ==
    ASSUME NEW S, IsFiniteSet(S), Cardinality(S) <= 2,
           NEW x \in S, NEW y \in S, NEW z \in S
    PROVE  x = y \/ y = z \/ x = z
<1> SUFFICES ASSUME x # y, y # z, x # z PROVE FALSE
  OBVIOUS
<1>1. IsFiniteSet({x}) /\ Cardinality({x}) = 1
  BY FS_Singleton
<1>2. IsFiniteSet({x} \cup {y}) /\ Cardinality({x} \cup {y}) = 2
  BY <1>1, FS_AddElement
<1>3. /\ IsFiniteSet(({x} \cup {y}) \cup {z})
      /\ Cardinality(({x} \cup {y}) \cup {z}) = 3
  <2> DEFINE pair == {x} \cup {y}
  <2>1. z \notin pair
    OBVIOUS
  <2> HIDE DEF pair
  <2>2. IsFiniteSet(pair \cup {z}) /\ Cardinality(pair \cup {z}) = 2 + 1
    BY <1>2, <2>1, FS_AddElement DEF pair
  <2> QED BY <2>2 DEF pair
<1>4. ({x} \cup {y}) \cup {z} \in SUBSET S
  OBVIOUS
<1>5. Cardinality(({x} \cup {y}) \cup {z}) <= Cardinality(S)
  BY <1>4, FS_Subset
<1>6. Cardinality(S) \in Nat
  BY FS_CardinalityType
<1> QED BY <1>3, <1>5, <1>6

\* A write adds a content next to the one in force.
LEMMA WindowGrows ==
    ASSUME NEW window, NEW content, NEW version, NEW new,
           WindowInv(window, content, version),
           IsContent(new), OneApart(content, new)
    PROVE  /\ WindowInv(window \cup {new}, new, version)
           /\ Cardinality(window \cup {new}) <= 2 => Cardinality(window) <= 2
<1> DEFINE W == window \cup {new}
<1>1. /\ IsFiniteSet(W)
      /\ Cardinality(W) = IF new \in window THEN Cardinality(window)
                          ELSE Cardinality(window) + 1
  BY FS_AddElement DEF WindowInv
<1>2. Cardinality(window) \in Nat
  BY FS_CardinalityType DEF WindowInv
<1>3. Cardinality(W) <= 2 => Cardinality(window) <= 2
  BY <1>1, <1>2
<1>4. ASSUME Cardinality(W) <= 2, NEW c \in W, NEW d \in W
      PROVE  OneApart(c, d)
  <2>1. ASSUME NEW e \in window PROVE OneApart(e, new)
    <3>1. e = content \/ content = new \/ e = new
      BY <1>1, <1>4, ThreeMembers DEF WindowInv
    <3>2. CASE e = content
      BY <3>2
    <3>3. CASE e = new
      BY <3>3 DEF OneApart
    <3>4. CASE content = new
      BY <1>3, <1>4, <3>4 DEF WindowInv
    <3> QED BY <3>1, <3>2, <3>3, <3>4
  <2>2. CASE c \in window /\ d \in window
    BY <1>3, <1>4, <2>2 DEF WindowInv
  <2>3. CASE c = new /\ d = new
    BY <2>3 DEF OneApart
  <2>4. CASE c = new /\ d \in window
    BY <2>1, <2>4 DEF OneApart
  <2>5. CASE c \in window /\ d = new
    BY <2>1, <2>5
  <2> QED BY <2>2, <2>3, <2>4, <2>5
<1> QED BY <1>1, <1>3, <1>4 DEF WindowInv

----------------------------------------------------------------------------
(* The steps of a request                                                  *)

LEMMA UpdatedFields ==
    ASSUME NEW r, IsRequest(r), NEW pc, NEW x
    PROVE  LET Rec(pc2, asset2, version2, window2) ==
                   [pc |-> pc2, user |-> r.user, agent |-> r.agent,
                    ids |-> r.ids, right |-> r.right, next |-> r.next,
                    filters |-> r.filters, masked |-> r.masked,
                    asset |-> asset2, version |-> version2,
                    window |-> window2]
           IN  /\ [r EXCEPT !.pc = pc] = Rec(pc, r.asset, r.version, r.window)
               /\ [r EXCEPT !.pc = pc, !.asset = x]
                      = Rec(pc, x, r.version, r.window)
               /\ [r EXCEPT !.pc = pc, !.version = x]
                      = Rec(pc, r.asset, x, r.window)
               /\ [r EXCEPT !.window = @ \cup {x}]
                      = Rec(r.pc, r.asset, r.version, r.window \cup {x})
<1> DEFINE Rec(pc2, asset2, version2, window2) ==
               [pc |-> pc2, user |-> r.user, agent |-> r.agent,
                ids |-> r.ids, right |-> r.right, next |-> r.next,
                filters |-> r.filters, masked |-> r.masked,
                asset |-> asset2, version |-> version2, window |-> window2]
           s == [r EXCEPT !.pc = pc]
<1>1. r = Rec(r.pc, r.asset, r.version, r.window)
  BY DEF IsRequest
<1>2. \A p, a, v, w :
          /\ [Rec(p, a, v, w) EXCEPT !.pc = pc] = Rec(pc, a, v, w)
          /\ [Rec(p, a, v, w) EXCEPT !.asset = x] = Rec(p, x, v, w)
          /\ [Rec(p, a, v, w) EXCEPT !.version = x] = Rec(p, a, x, w)
          /\ [Rec(p, a, v, w) EXCEPT !.window = w \cup {x}]
                 = Rec(p, a, v, w \cup {x})
  OBVIOUS
<1>3. /\ [r EXCEPT !.pc = pc, !.asset = x] = [s EXCEPT !.asset = x]
      /\ [r EXCEPT !.pc = pc, !.version = x] = [s EXCEPT !.version = x]
      /\ [r EXCEPT !.window = @ \cup {x}] = [r EXCEPT !.window = r.window \cup {x}]
  OBVIOUS
<1> HIDE DEF Rec
<1>4. s = Rec(pc, r.asset, r.version, r.window)
  BY <1>1, <1>2
<1> HIDE DEF s
<1>5. [s EXCEPT !.asset = x] = Rec(pc, x, r.version, r.window)
  BY <1>2, <1>4
<1>6. [s EXCEPT !.version = x] = Rec(pc, r.asset, x, r.window)
  BY <1>2, <1>4
<1>7. [r EXCEPT !.window = r.window \cup {x}]
          = Rec(r.pc, r.asset, r.version, r.window \cup {x})
  BY <1>1, <1>2
<1> QED BY <1>3, <1>4, <1>5, <1>6, <1>7 DEF s, Rec

\* A write during the request adds a content to those it may have seen.
LEMMA RequestSees ==
    ASSUME NEW r, NEW content, NEW version, NEW new,
           RequestInv(r, content, version),
           IsContent(new), OneApart(content, new)
    PROVE  RequestInv([r EXCEPT !.window = @ \cup {new}], new, version)
<1> DEFINE s == [r EXCEPT !.window = @ \cup {new}]
<1>1. IsRequest(r)
  BY DEF RequestInv
<1>2. s = [pc |-> r.pc, user |-> r.user, agent |-> r.agent, ids |-> r.ids,
           right |-> r.right, next |-> r.next, filters |-> r.filters,
           masked |-> r.masked, asset |-> r.asset, version |-> r.version,
           window |-> r.window \cup {new}]
  BY <1>1, UpdatedFields
<1> HIDE DEF s
<1>3. /\ s.pc = r.pc /\ s.user = r.user /\ s.agent = r.agent
      /\ s.ids = r.ids /\ s.right = r.right /\ s.next = r.next
      /\ s.filters = r.filters /\ s.masked = r.masked
      /\ s.asset = r.asset /\ s.version = r.version
      /\ s.window = r.window \cup {new}
  BY <1>2
<1>4. IsRequest(s)
  BY <1>1, <1>2, <1>3 DEF IsRequest
<1>5. /\ WindowInv(s.window, new, version)
      /\ Cardinality(s.window) <= 2 => Cardinality(r.window) <= 2
  BY <1>3, WindowGrows DEF RequestInv
<1>6. CurrentInv(s)
  <2>1. CurrentInv(r)
    BY DEF RequestInv
  <2> QED BY <1>3, <2>1 DEF CurrentInv
<1>7. Done(s) = Done(r)
  BY <1>3 DEF Done
<1>8. Taken(s, Done(s))
  <2>1. PICK from \in [1..Done(r) -> r.window] :
            TakenFrom(from, r.user, r.ids, r.masked, r.filters, Done(r))
    BY DEF RequestInv, Taken
  <2>2. from \in [1..Done(r) -> s.window]
    BY <1>3
  <2> QED BY <1>3, <1>7, <2>1, <2>2 DEF Taken
<1>9. GrantedInv(s, Done(s))
  <2>1. GrantedInv(r, Done(r))
    BY DEF RequestInv
  <2>2. \A c, aid : Granted(r, c, aid) => Granted(s, c, aid)
    BY <1>3 DEF Granted
  <2> QED BY <1>3, <1>5, <1>7, <2>1, <2>2 DEF GrantedInv
<1>10. s.pc = "issued" => s.version \in s.window
  BY <1>3 DEF RequestInv
<1> QED BY <1>4, <1>5, <1>6, <1>8, <1>9, <1>10 DEF RequestInv, s

\* A step of the request that moves its pc, and no more than the asset or the
\* version with it, and is through with no other position.
LEMMA RequestMoves ==
    ASSUME NEW r, NEW s, NEW content, NEW version,
           RequestInv(r, content, version),
           s = [pc |-> s.pc, user |-> r.user, agent |-> r.agent,
                ids |-> r.ids, right |-> r.right, next |-> r.next,
                filters |-> r.filters, masked |-> r.masked,
                asset |-> s.asset, version |-> s.version,
                window |-> r.window],
           \/ /\ r.pc \in {"asset", "resolve", "consent"}
              /\ s.pc \in {"asset", "resolve", "consent"}
           \/ /\ r.pc \in {"version", "issued"}
              /\ s.pc \in {"version", "issued"},
           CurrentInv(s),
           s.pc = "issued" => s.version \in s.window
    PROVE  RequestInv(s, content, version)
<1>1. IsRequest(r)
  BY DEF RequestInv
<1>2. /\ s.user = r.user /\ s.agent = r.agent
      /\ s.ids = r.ids /\ s.right = r.right /\ s.next = r.next
      /\ s.filters = r.filters /\ s.masked = r.masked
      /\ s.window = r.window
  OBVIOUS
<1>3. s = [pc |-> s.pc, user |-> s.user, agent |-> s.agent, ids |-> s.ids,
           right |-> s.right, next |-> s.next, filters |-> s.filters,
           masked |-> s.masked, asset |-> s.asset, version |-> s.version,
           window |-> s.window]
  BY <1>2
<1>4. IsRequest(s)
  BY <1>1, <1>2, <1>3 DEF IsRequest
<1>5. Done(s) = Done(r)
  BY <1>2 DEF Done
<1>6. Taken(s, Done(s))
  <2>1. Taken(r, Done(r))
    BY DEF RequestInv
  <2> QED BY <1>2, <1>5, <2>1 DEF Taken
<1>7. GrantedInv(s, Done(s))
  <2>1. GrantedInv(r, Done(r))
    BY DEF RequestInv
  <2>2. \A c, aid : Granted(r, c, aid) => Granted(s, c, aid)
    BY <1>2 DEF Granted
  <2> QED BY <1>2, <1>5, <2>1, <2>2 DEF GrantedInv
<1>8. WindowInv(s.window, content, version)
  BY <1>2 DEF RequestInv
<1> QED BY <1>4, <1>6, <1>7, <1>8 DEF RequestInv

\* Granting the current position.
LEMMA RequestDerives ==
    ASSUME NEW r, NEW content, NEW version,
           RequestInv(r, content, version),
           r.pc \in {"resolve", "consent"},
           Cardinality(r.window) <= 2 =>
               \E c \in r.window : Granted(r, c, r.ids[r.next])
    PROVE  RequestInv(Derived(r), content, version)
<1> DEFINE d == Derived(r)
<1>1. IsRequest(r) /\ Done(r) = r.next - 1 /\ Taken(r, r.next - 1)
  BY DEF RequestInv, Done
<1>2. PICK c \in r.window : /\ r.ids[r.next] \in DOMAIN c.assets
                            /\ r.asset = c.assets[r.ids[r.next]]
  BY DEF RequestInv, CurrentInv
<1>3. IsContent(c)
  BY DEF RequestInv, WindowInv
<1>4. /\ IsRequest(d) /\ d.pc \in {"asset", "version"}
      /\ Done(d) = r.next /\ Taken(d, r.next)
      /\ d.window = r.window /\ d.user = r.user /\ d.agent = r.agent
      /\ d.right = r.right /\ d.ids = r.ids
  BY <1>1, <1>2, <1>3, DerivedTakes
<1> HIDE DEF d
<1>5. GrantedInv(d, r.next)
  <2> SUFFICES ASSUME Cardinality(r.window) <= 2, NEW i \in 1..r.next
               PROVE  \E e \in r.window : Granted(d, e, r.ids[i])
    BY <1>4 DEF GrantedInv
  <2>1. \A e, aid : Granted(r, e, aid) => Granted(d, e, aid)
    BY <1>4 DEF Granted
  <2>2. CASE i = r.next
    BY <2>1, <2>2
  <2>3. CASE i # r.next
    <3>1. i \in 1..(r.next - 1)
      BY <1>1, <2>3 DEF IsRequest
    <3>2. \E e \in r.window : Granted(r, e, r.ids[i])
      BY <1>1, <3>1 DEF RequestInv, GrantedInv
    <3> QED BY <2>1, <3>2
  <2> QED BY <2>2, <2>3
<1>6. CurrentInv(d)
  BY <1>4 DEF CurrentInv
<1>7. WindowInv(d.window, content, version)
  BY <1>4 DEF RequestInv
<1> QED BY <1>4, <1>5, <1>6, <1>7 DEF RequestInv, d

----------------------------------------------------------------------------
(* The invariant                                                           *)

LEMMA InitRequestsInv == RequestsInit => RequestsInv
<1> SUFFICES ASSUME RequestsInit PROVE RequestsInv
  OBVIOUS
<1>1. DOMAIN assets = {} /\ DOMAIN consentState = {}
  BY DEF RequestsInit, CatalogInit
<1>2. CatalogTypeOK
  BY <1>1 DEF RequestsInit, CatalogInit, CatalogTypeOK
<1>3. policyVersion = Content /\ IsContent(Content)
  BY <1>1 DEF RequestsInit, CatalogInit, ComputeVersion, Content, IsContent
<1> QED BY <1>2, <1>3
        DEF RequestsInit, RequestsInv, CatalogInv, OneApart

\* What the writer installs is a content of its type, next to the one before.
LEMMA Installs ==
    ASSUME CatalogInv, ~writing,
           \/ \E r \in Registrations : InstallAsset(r[1], r[2])
           \/ \E c \in ConsentRecords : InstallConsent(c[1], c[2], c[3])
    PROVE  /\ CatalogInv' /\ UNCHANGED policyVersion
           /\ IsContent(Content') /\ OneApart(Content, Content')
           /\ request' = Witnessed(Content')
<1> DEFINE new == [assets |-> assets', consent |-> consentState']
<1>1. /\ UNCHANGED policyVersion /\ writing' = TRUE
      /\ request' = Witnessed(new) /\ Content' = new
  BY DEF InstallAsset, InstallConsent, BeginWrite, Content
<1>2. CatalogTypeOK' /\ (assets' = assets \/ consentState' = consentState)
  <2>1. CASE \E r \in Registrations : InstallAsset(r[1], r[2])
    <3>1. PICK r \in Registrations : InstallAsset(r[1], r[2])
      BY <2>1
    <3>2. r[1] \in AssetIds /\ r[2] \in DataAsset
      BY CatalogAssumption
    <3> QED BY <3>1, <3>2 DEF CatalogInv, CatalogTypeOK, InstallAsset, Put
  <2>2. CASE \E c \in ConsentRecords : InstallConsent(c[1], c[2], c[3])
    <3>1. PICK c \in ConsentRecords : InstallConsent(c[1], c[2], c[3])
      BY <2>2
    <3>2. <<c[1], c[2]>> \in UserIds \X AssetIds /\ c[3] \in BOOLEAN
      BY CatalogAssumption
    <3> QED BY <3>1, <3>2 DEF CatalogInv, CatalogTypeOK, InstallConsent, Put
  <2> QED BY <2>1, <2>2
<1>3. IsContent(new)
  BY <1>2 DEF IsContent, CatalogTypeOK
<1>4. OneApart(Content, new)
  BY <1>2 DEF OneApart, Content
<1>5. CatalogInv'
  <2>1. policyVersion = Content
    BY DEF CatalogInv
  <2>2. IsContent(policyVersion')
    BY <1>1 DEF CatalogInv
  <2>3. OneApart(policyVersion', Content')
    BY <1>1, <1>4, <2>1
  <2> HIDE DEF new
  <2> QED BY <1>1, <1>2, <2>2, <2>3 DEF CatalogInv
<1> QED BY <1>1, <1>3, <1>4, <1>5

LEMMA WriterKeeps ==
    ASSUME RequestsInv, WriterStep
    PROVE  RequestsInv'
<1>1. CASE /\ ~writing
           /\ \/ \E r \in Registrations : InstallAsset(r[1], r[2])
              \/ \E c \in ConsentRecords : InstallConsent(c[1], c[2], c[3])
  <2>1. /\ CatalogInv' /\ UNCHANGED policyVersion
        /\ IsContent(Content') /\ OneApart(Content, Content')
        /\ request' = Witnessed(Content')
    BY <1>1, Installs DEF RequestsInv
  <2>2. CASE request = NoRequest
    BY <2>1, <2>2 DEF Witnessed, Has, NoRequest, RequestsInv
  <2>3. CASE RequestInv(request, Content, policyVersion)
    <3>1. request' = [request EXCEPT !.window = @ \cup {Content'}]
      BY <2>1, <2>3 DEF Witnessed, Has, RequestInv, IsRequest
    <3>2. RequestInv([request EXCEPT !.window = @ \cup {Content'}],
                     Content', policyVersion)
      BY <2>1, <2>3, RequestSees
    <3> QED BY <2>1, <3>1, <3>2 DEF RequestsInv
  <2> QED BY <2>2, <2>3 DEF RequestsInv
<1>2. CASE EndWrite
  <2>1. /\ policyVersion' = Content /\ Content' = Content
        /\ UNCHANGED <<assets, consentState, request>> /\ writing' = FALSE
    BY <1>2 DEF EndWrite, RecomputeVersion, ComputeVersion, Content
  <2>2. IsContent(Content) /\ CatalogTypeOK'
    BY <2>1 DEF RequestsInv, CatalogInv, CatalogTypeOK, IsContent, Content
  <2>3. CatalogInv'
    <3>1. IsContent(policyVersion') /\ OneApart(policyVersion', Content')
      BY <2>1, <2>2 DEF OneApart
    <3> QED BY <2>1, <2>2, <3>1 DEF CatalogInv
  <2>4. request' = NoRequest \/ RequestInv(request', Content', policyVersion')
    BY <2>1 DEF RequestsInv, RequestInv, WindowInv
  <2> QED BY <2>3, <2>4 DEF RequestsInv
<1> QED BY <1>1, <1>2 DEF WriterStep

LEMMA RequestKeeps ==
    ASSUME RequestsInv, RequestStep
    PROVE  RequestsInv'
<1>1. UndisturbedCatalog
  BY DEF RequestStep, RequestToken, GetAsset, ResolveAccessTo, ResolveConsent,
         ReadVersion, Return
<1>2. CatalogInv' /\ Content' = Content /\ policyVersion' = policyVersion
  BY <1>1 DEF UndisturbedCatalog, catalogVars, RequestsInv, CatalogInv,
              CatalogTypeOK, Content
<1> SUFFICES ASSUME request' # NoRequest
             PROVE  RequestInv(request', Content, policyVersion)
  BY <1>2 DEF RequestsInv
<1>3. ASSUME request # NoRequest
      PROVE  RequestInv(request, Content, policyVersion) /\ IsRequest(request)
  BY <1>3 DEF RequestsInv, RequestInv
<1>4. ASSUME NEW user \in Users, NEW agent \in Agents, NEW ids \in AssetLists,
             NEW right \in Rights, RequestToken(user, agent, ids, right)
      PROVE  RequestInv(request', Content, policyVersion)
  <2> DEFINE s == request'
             W == {policyVersion, Content}
  <2>1. s = [pc |-> IF ids = <<>> THEN "version" ELSE "asset",
             user |-> user, agent |-> agent, ids |-> ids, right |-> right,
             next |-> 1, filters |-> <<>>, masked |-> {}, asset |-> Unset,
             version |-> Unset, window |-> W]
    BY <1>4 DEF RequestToken
  <2> HIDE DEF s
  <2>2. /\ s.pc = (IF ids = <<>> THEN "version" ELSE "asset")
        /\ s.user = user /\ s.agent = agent /\ s.ids = ids /\ s.right = right
        /\ s.next = 1 /\ s.filters = <<>> /\ s.masked = {}
        /\ s.window = W
    BY <2>1
  <2>3. ids \in Seq(AssetIds) /\ Len(ids) \in Nat
        /\ (ids # <<>> => 1 \in 1..Len(ids))
        /\ (ids = <<>> => Len(ids) = 0)
    BY RequestsAssumption
  <2>4. IsFilterMap(<<>>)
    BY DEF IsFilterMap
  <2>5. IsRequest(s)
    <3>1. s = [pc |-> s.pc, user |-> s.user, agent |-> s.agent,
               ids |-> s.ids, right |-> s.right, next |-> s.next,
               filters |-> s.filters, masked |-> s.masked,
               asset |-> s.asset, version |-> s.version,
               window |-> s.window]
      BY <2>1
    <3> QED BY <2>2, <2>3, <2>4, <3>1 DEF IsRequest
  <2>6. Done(s) = 0
    BY <2>2, <2>3 DEF Done
  <2>7. Taken(s, 0)
    <3> DEFINE from == [i \in 1..0 |-> Content]
    <3>1. from \in [1..0 -> s.window] /\ 1..0 = {}
      BY <2>2
    <3>2. MergedInOrder(<<>>, [i \in 1..0 |->
                 DeriveRowFilters(user, from[i].assets[ids[i]])])
      BY DEF MergedInOrder
    <3>3. TakenFrom(from, user, ids, {}, <<>>, 0)
      BY <3>1, <3>2 DEF TakenFrom
    <3> QED BY <2>2, <3>1, <3>3 DEF Taken
  <2>8. WindowInv(s.window, Content, policyVersion)
    <3>1. IsFiniteSet(W)
      <4>1. IsFiniteSet({policyVersion})
        BY FS_Singleton
      <4>2. IsFiniteSet({policyVersion} \cup {Content})
        BY <4>1, FS_AddElement
      <4>3. W = {policyVersion} \cup {Content}
        OBVIOUS
      <4> QED BY <4>2, <4>3
    <3>2. IsContent(Content)
      BY DEF RequestsInv, CatalogInv, CatalogTypeOK, IsContent, Content
    <3>3. \A c, d \in W : IsContent(c) /\ OneApart(c, d)
      BY <3>2 DEF RequestsInv, CatalogInv, OneApart
    <3> QED BY <2>2, <3>1, <3>3 DEF WindowInv
  <2>9. CurrentInv(s) /\ GrantedInv(s, 0) /\ s.pc # "issued"
    BY <2>2 DEF CurrentInv, GrantedInv
  <2> QED BY <2>5, <2>6, <2>7, <2>8, <2>9 DEF RequestInv, s
<1>5. CASE GetAsset
  <2>1. /\ request.pc = "asset" /\ Aid \in DOMAIN assets
        /\ request' = [request EXCEPT !.pc = "resolve", !.asset = assets[Aid]]
    BY <1>5 DEF GetAsset, Has, Raise
  <2>2. RequestInv(request, Content, policyVersion) /\ IsRequest(request)
    BY <1>3, <2>1 DEF NoRequest
  <2>3. request' = [pc |-> "resolve", user |-> request.user,
                    agent |-> request.agent, ids |-> request.ids,
                    right |-> request.right, next |-> request.next,
                    filters |-> request.filters, masked |-> request.masked,
                    asset |-> assets[Aid], version |-> request.version,
                    window |-> request.window]
    <3> DEFINE x == assets[Aid]
    <3>1. request' = [request EXCEPT !.pc = "resolve", !.asset = x]
      BY <2>1
    <3> HIDE DEF x
    <3>2. request' = [pc |-> "resolve", user |-> request.user,
                      agent |-> request.agent, ids |-> request.ids,
                      right |-> request.right, next |-> request.next,
                      filters |-> request.filters, masked |-> request.masked,
                      asset |-> x, version |-> request.version,
                      window |-> request.window]
      BY <2>2, <3>1, UpdatedFields, Zenon
    <3> QED BY <3>2 DEF x
  <2>4. CurrentInv(request')
    <3>1. Content \in request.window /\ Content.assets = assets
      BY <2>2 DEF RequestInv, WindowInv, Content
    <3> QED BY <2>1, <2>3, <3>1 DEF CurrentInv, Aid
  <2> HIDE DEF Aid
  <2> QED BY <2>1, <2>2, <2>3, <2>4, RequestMoves
<1>6. ASSUME Allow, request.pc \in {"resolve", "consent"},
             Cardinality(request.window) <= 2 =>
                 \E c \in request.window : Granted(request, c, Aid)
      PROVE  RequestInv(request', Content, policyVersion)
  <2>1. RequestInv(request, Content, policyVersion)
    BY <1>3, <1>6 DEF NoRequest
  <2>2. request' = Derived(request)
    BY <1>6 DEF Allow, Raise
  <2>3. RequestInv(Derived(request), Content, policyVersion)
    BY <1>6, <2>1, RequestDerives DEF Aid
  <2> QED BY <2>2, <2>3
<1>7. ASSUME request # NoRequest
      PROVE  Content \in request.window /\ Content.assets = assets
             /\ Content.consent = consentState
  BY <1>3, <1>7 DEF RequestInv, WindowInv, Content
<1>8. CASE ResolveAccessTo
  <2>1. /\ request.pc = "resolve" /\ Aid \in DOMAIN assets
        /\ ~Denied(request.user, request.agent, assets[Aid], request.right)
        /\ request # NoRequest
    BY <1>8 DEF ResolveAccessTo, Has, Raise, NoRequest
  <2>2. CASE assets[Aid].consent_required
    <3>1. request' = [request EXCEPT !.pc = "consent"]
      BY <1>8, <2>1, <2>2 DEF ResolveAccessTo
    <3>2. RequestInv(request, Content, policyVersion) /\ IsRequest(request)
      BY <1>3, <2>1
    <3>3. request' = [pc |-> "consent", user |-> request.user,
                      agent |-> request.agent, ids |-> request.ids,
                      right |-> request.right, next |-> request.next,
                      filters |-> request.filters, masked |-> request.masked,
                      asset |-> request.asset, version |-> request.version,
                      window |-> request.window]
      BY <3>1, <3>2, UpdatedFields
    <3>4. CurrentInv(request')
      <4>1. CurrentInv(request)
        BY <3>2 DEF RequestInv
      <4> QED BY <1>7, <2>1, <3>3, <4>1 DEF CurrentInv, Aid
    <3> QED BY <2>1, <3>2, <3>3, <3>4, RequestMoves
  <2>3. CASE ~assets[Aid].consent_required
    <3>1. Allow
      BY <1>8, <2>1, <2>3 DEF ResolveAccessTo
    <3>2. Granted(request, Content, Aid)
      BY <1>7, <2>1, <2>3 DEF Granted, Access, ResolveAccess
    <3> QED BY <1>6, <1>7, <2>1, <3>1, <3>2
  <2> QED BY <2>2, <2>3
<1>9. CASE ResolveConsent
  <2>1. /\ request.pc = "consent" /\ Allow /\ request # NoRequest
        /\ CheckConsent(request.user.user_id, Aid)
    BY <1>9 DEF ResolveConsent, Has, Raise, NoRequest
  <2>2. RequestInv(request, Content, policyVersion)
    BY <1>3, <2>1
  <2>3. PICK c \in request.window :
            /\ Aid \in DOMAIN c.assets
            /\ ~Denied(request.user, request.agent, c.assets[Aid],
                       request.right)
    BY <2>1, <2>2 DEF RequestInv, CurrentInv, Aid
  <2>4. \A d : d.consent = consentState =>
            <<request.user.user_id, Aid>> \in Consents(d.consent)
    BY <2>1 DEF CheckConsent
  <2>5. ASSUME Cardinality(request.window) <= 2
        PROVE  \E d \in request.window : Granted(request, d, Aid)
    <3>1. OneApart(c, Content)
      BY <1>7, <2>1, <2>2, <2>5 DEF RequestInv, WindowInv
    <3>2. CASE c.assets = Content.assets
      <4>1. Granted(request, Content, Aid)
        BY <1>7, <2>1, <2>3, <2>4, <3>2 DEF Granted, Access, ResolveAccess
      <4> QED BY <1>7, <2>1, <4>1
    <3>3. CASE c.consent = Content.consent
      <4>1. Granted(request, c, Aid)
        BY <1>7, <2>1, <2>3, <2>4, <3>3 DEF Granted, Access, ResolveAccess
      <4> QED BY <4>1
    <3> QED BY <3>1, <3>2, <3>3 DEF OneApart
  <2> QED BY <1>6, <2>1, <2>5
<1>10. CASE ReadVersion
  <2>1. /\ request.pc = "version" /\ request # NoRequest
        /\ request' = [request EXCEPT !.pc = "issued",
                                      !.version = policyVersion]
    BY <1>10 DEF ReadVersion, Has, NoRequest
  <2>2. RequestInv(request, Content, policyVersion) /\ IsRequest(request)
    BY <1>3, <2>1
  <2>3. request' = [pc |-> "issued", user |-> request.user,
                    agent |-> request.agent, ids |-> request.ids,
                    right |-> request.right, next |-> request.next,
                    filters |-> request.filters, masked |-> request.masked,
                    asset |-> request.asset, version |-> policyVersion,
                    window |-> request.window]
    <3>1. \A x : request' = [request EXCEPT !.pc = "issued", !.version = x] =>
              request' = [pc |-> "issued", user |-> request.user,
                          agent |-> request.agent, ids |-> request.ids,
                          right |-> request.right, next |-> request.next,
                          filters |-> request.filters,
                          masked |-> request.masked,
                          asset |-> request.asset, version |-> x,
                          window |-> request.window]
      BY <2>2, UpdatedFields, Zenon
    <3> QED BY <2>1, <3>1, Zenon
  <2>4. CurrentInv(request') /\ request'.version \in request'.window
    BY <2>2, <2>3 DEF CurrentInv, RequestInv, WindowInv
  <2> QED BY <2>1, <2>2, <2>3, <2>4, RequestMoves
<1>11. CASE Return
  BY <1>11 DEF Return, Raise
<1> QED BY <1>4, <1>5, <1>8, <1>9, <1>10, <1>11 DEF RequestStep

\* The inductive invariant of a request beside a writer.
THEOREM RequestsInvariant == RequestsSpec => []RequestsInv
<1>1. RequestsInv /\ [RequestsNext]_requestVars => RequestsInv'
  <2> SUFFICES ASSUME RequestsInv, [RequestsNext]_requestVars
               PROVE  RequestsInv'
    OBVIOUS
  <2>1. CASE UNCHANGED requestVars
    <3>1. /\ UNCHANGED <<assets, consentState, policyVersion, writing, request>>
          /\ Content' = Content
      BY <2>1 DEF requestVars, catalogVars, Content
    <3>2. CatalogInv'
      BY <3>1 DEF RequestsInv, CatalogInv, CatalogTypeOK
    <3> QED BY <3>1, <3>2 DEF RequestsInv
  <2> QED BY <2>1, WriterKeeps, RequestKeeps DEF RequestsNext
<1> QED BY InitRequestsInv, <1>1, PTL DEF RequestsSpec

\* Between writes the version is that of the content, and the filters and the
\* columns of a token are of their types.
THEOREM RequestsTyped == RequestsSpec => []RequestsTypeOK
<1>1. RequestsInv => RequestsTypeOK
  BY DEF RequestsInv, CatalogInv, RequestInv, IsRequest, WindowInv,
         RequestsTypeOK, Has, NoRequest
<1> QED BY RequestsInvariant, <1>1, PTL

\* The version of a token was that of the policy at some time during the
\* request, however many writes there were.
THEOREM VersionWitnessed == RequestsSpec => []VersionOfTheTime
<1>1. RequestsInv => VersionOfTheTime
  BY DEF RequestsInv, RequestInv, VersionOfTheTime, Has, NoRequest
<1> QED BY RequestsInvariant, <1>1, PTL

\* What a token hides and filters comes from definitions in force during the
\* request, and no single write can tear it: each asset is granted by the
\* content before the write or by the content after it.
THEOREM TokensAreJustified == RequestsSpec => []RequestJustified
<1>1. ASSUME RequestsInv, Has("issued")
      PROVE  /\ TakenFromWindow(Len(request.ids))
             /\ Cardinality(request.window) <= 2 =>
                   \A i \in DOMAIN request.ids :
                       \E content \in request.window :
                           GrantedBy(content, request.ids[i])
  <2>1. RequestInv(request, Content, policyVersion) /\ request.pc = "issued"
    BY <1>1 DEF RequestsInv, Has, NoRequest
  <2>2. Done(request) = Len(request.ids)
        /\ DOMAIN request.ids = 1..Len(request.ids)
    BY <2>1, RequestTypes DEF Done, RequestInv
  <2>3. TakenFromWindow(Len(request.ids))
    BY <2>1, <2>2 DEF RequestInv, Taken, TakenFrom, TakenFromWindow,
                      MaskFrom, FiltersFrom
  <2>4. \A c, aid : Granted(request, c, aid) => GrantedBy(c, aid)
    BY DEF Granted, GrantedBy
  <2> QED BY <2>1, <2>2, <2>3, <2>4 DEF RequestInv, GrantedInv
<1>2. RequestsInv => RequestJustified
  BY <1>1 DEF RequestJustified
<1> QED BY RequestsInvariant, <1>2, PTL

----------------------------------------------------------------------------
(* handle_tool_call: the inductive invariant                               *)

Run == [token : Tokens, seen : SUBSET Nat, excused : BOOLEAN]

LatePcs == {"clock", "purge", "purging", "measure", "choose", "evicting", "insert"}

EarlyCall == [pc : {"test"}, token : Tokens]
LateCall == [pc : LatePcs, token : Tokens, now : Nat, seen : SUBSET Nat,
             excused : BOOLEAN, victims : SUBSET Tokens, excess : Int]

Call == {NoCall} \cup EarlyCall \cup LateCall

\* What holds of a call when the tokens in ran have run, and of the time.
CallOK(c, ran, now) ==
    /\ c \in Call
    /\ c.pc \in {"purging", "evicting"} => c.victims \subseteq ran
    /\ c.pc = "purging" => \A id \in c.victims : Expiry[id] <= now
    /\ c.pc \in LatePcs => c.now <= now /\ (c.seen # {} => c.excused)

CallsOK ==
    /\ call \in [Threads -> Call]
    /\ \A t \in Threads : CallOK(call[t], Ran, time)

StoreTyped ==
    /\ time \in Nat
    /\ runs \in Seq(Run)
    /\ IsFiniteSet(DOMAIN used)
    /\ used \in [DOMAIN used -> DOMAIN runs]
    /\ \A id \in DOMAIN used : id \in Tokens /\ runs[used[id]].token = id
    /\ forgotten \subseteq Tokens \ DOMAIN used

\* A token that ran is in the cache, was evicted or has expired.
Remembered(id) == id \in DOMAIN used \/ id \in forgotten \/ Expired(id, time)

RunsRemembered == \A n \in DOMAIN runs : Remembered(runs[n].token)

\* A run that had been preceded by one of its token when tested is excused.
RunsExcused == \A n \in DOMAIN runs : runs[n].seen # {} => runs[n].excused

StoreOK == StoreTyped /\ RunsRemembered /\ RunsExcused

IInv == StoreOK /\ CallsOK

----------------------------------------------------------------------------

\* A call stays as it should be when time passes and runs are added.
LEMMA CallStays ==
    ASSUME NEW c, NEW ran, NEW more, ran \subseteq more,
           NEW now \in Nat, NEW later \in Nat, now <= later,
           CallOK(c, ran, now)
    PROVE  CallOK(c, more, later)
<1>1. \A id \in Tokens : Expiry[id] <= now => Expiry[id] <= later
  BY CallsAssumption
<1>2. c.pc = "purging" => c.victims \subseteq Tokens
  BY DEF CallOK, Call, EarlyCall, LateCall, NoCall
<1>3. c.pc \in LatePcs => c.now \in Nat
  BY DEF CallOK, Call, EarlyCall, LateCall, NoCall, LatePcs
<1> QED
  BY <1>1, <1>2, <1>3 DEF CallOK

\* A step that changes the call of one thread, and lets time pass or adds runs,
\* keeps the calls as they should be.
LEMMA OneCallChanges ==
    ASSUME CallsOK, time \in Nat, time' \in Nat, time <= time',
           Ran \subseteq Ran',
           NEW t \in Threads, NEW c, Go(t, c), CallOK(c, Ran', time')
    PROVE  CallsOK'
<1>1. c \in Call
  BY DEF CallOK
<1>2. call' = [call EXCEPT ![t] = c]
  BY DEF Go
<1>3. call' \in [Threads -> Call]
  BY <1>1, <1>2 DEF CallsOK
<1>4. ASSUME NEW u \in Threads PROVE CallOK(call'[u], Ran', time')
  <2>1. CASE u = t
    BY <1>2, <2>1 DEF CallsOK
  <2>2. CASE u # t
    <3>1. call'[u] = call[u] /\ CallOK(call[u], Ran, time)
      BY <1>2, <2>2 DEF CallsOK
    <3> QED BY <3>1, CallStays
  <2> QED BY <2>1, <2>2
<1> QED BY <1>3, <1>4 DEF CallsOK

\* A step that leaves the store alone and changes one call.
LEMMA CallOnly ==
    ASSUME IInv, UNCHANGED <<time, used, runs, forgotten>>,
           NEW t \in Threads, NEW c, Go(t, c), CallOK(c, Ran, time)
    PROVE  IInv'
<1>1. StoreOK'
  BY DEF IInv, StoreOK, StoreTyped, RunsRemembered, Remembered, Expired,
         RunsExcused
<1>2. Ran' = Ran /\ time' = time /\ time \in Nat
  BY DEF Ran, IInv, StoreOK, StoreTyped
<1>3. CallsOK'
  BY <1>2, OneCallChanges DEF IInv
<1> QED BY <1>1, <1>3 DEF IInv

\* A thread may leave at any time.
LEMMA NoCallOK == CallOK(NoCall, Ran, time)
  BY DEF CallOK, NoCall, Call, LatePcs

----------------------------------------------------------------------------

LEMMA InitIInv == CallsInit => IInv
<1> SUFFICES ASSUME CallsInit PROVE IInv
  OBVIOUS
<1>1. DOMAIN used = {} /\ DOMAIN runs = {}
  BY DEF CallsInit
<1>2. StoreOK
  BY <1>1, FS_EmptySet
     DEF CallsInit, StoreOK, StoreTyped, RunsRemembered, RunsExcused
<1>3. CallsOK
  <2>1. NoCall \in Call
    BY DEF Call
  <2> QED BY <2>1, NoCallOK DEF CallsInit, CallsOK
<1> QED BY <1>2, <1>3 DEF IInv

LEMMA TestMembershipIInv ==
    ASSUME IInv, NEW t \in Threads, TestMembership(t)
    PROVE  IInv'
<1>1. CASE call[t].token \in DOMAIN used
  BY <1>1, NoCallOK, CallOnly DEF TestMembership, Leave
<1>2. CASE call[t].token \notin DOMAIN used
  <2> DEFINE token == call[t].token
             c == [pc |-> "clock", token |-> token, now |-> 0,
                   seen |-> RunsOf(token),
                   excused |-> \/ time >= Expiry[token]
                               \/ token \in forgotten,
                   victims |-> {}, excess |-> 0]
  <2>1. token \in Tokens
    BY DEF IInv, CallsOK, TestMembership, At, Call, EarlyCall, LateCall,
           NoCall, LatePcs
  <2>2. RunsOf(token) \in SUBSET Nat
    BY DEF RunsOf, IInv, StoreOK, StoreTyped
  <2>3. c \in LateCall
    BY <2>1, <2>2 DEF LateCall, LatePcs
  <2>4. ASSUME RunsOf(token) # {} PROVE c.excused
    <3>1. Remembered(token)
      BY <2>4 DEF RunsOf, IInv, StoreOK, RunsRemembered
    <3>2. Expired(token, time) => time >= Expiry[token]
      BY <2>1, CallsAssumption DEF Expired, IInv, StoreOK, StoreTyped
    <3> QED BY <1>2, <3>1, <3>2 DEF Remembered
  <2>5. CallOK(c, Ran, time)
    BY <2>3, <2>4 DEF CallOK, Call, IInv, StoreOK, StoreTyped
  <2>6. Go(t, c) /\ UNCHANGED <<time, used, runs, forgotten>>
    BY <1>2 DEF TestMembership
  <2> HIDE DEF c
  <2> QED BY <2>5, <2>6, CallOnly
<1> QED BY <1>1, <1>2

\* What the cache holds has run, and may be removed.
LEMMA UsedRan == StoreTyped => DOMAIN used \subseteq Ran \cap Tokens
<1> SUFFICES ASSUME StoreTyped, NEW id \in DOMAIN used
             PROVE  id \in Ran \cap Tokens
  OBVIOUS
<1>1. used[id] \in DOMAIN runs /\ runs[used[id]].token = id /\ id \in Tokens
  BY DEF StoreTyped
<1> QED BY <1>1 DEF Ran

\* A thread in the middle of _record_proof_use goes on.
LEMMA LateCallOK ==
    ASSUME CallsOK, NEW t \in Threads, call[t].pc \in LatePcs
    PROVE  /\ call[t] \in LateCall
           /\ CallOK(call[t], Ran, time)
BY DEF CallsOK, Call, EarlyCall, LateCall, NoCall, LatePcs

LEMMA ScanIInv ==
    ASSUME IInv, NEW t \in Threads,
           \/ ReadClock(t) \/ CollectExpired(t) \/ CheckCapacity(t)
           \/ Measure(t) \/ ChooseVictims(t) \/ EvictionDone(t)
    PROVE  IInv'
<1>1. /\ call[t] \in LateCall /\ CallOK(call[t], Ran, time)
      /\ time \in Nat /\ call[t].now \in Nat /\ call[t].now <= time
  BY LateCallOK DEF IInv, StoreOK, StoreTyped, LateCall, CallOK, LatePcs,
                    ReadClock, CollectExpired, CheckCapacity, Measure,
                    ChooseVictims, EvictionDone, At
<1>2. CASE CollectExpired(t)
  <2> DEFINE victims == {id \in DOMAIN used : Expired(id, call[t].now)}
             e == [call[t] EXCEPT !.pc = "purging"]
             d == [e EXCEPT !.now = 0]
             c == [d EXCEPT !.victims = victims]
  <2>1. victims \subseteq Ran \cap Tokens
        /\ \A id \in victims : Expiry[id] <= time
    BY <1>1, UsedRan, CallsAssumption DEF IInv, StoreOK, Expired
  <2>2. Go(t, c)
    BY <1>2 DEF CollectExpired
  <2> HIDE DEF victims
  <2>3. c \in LateCall /\ c.pc = "purging" /\ c.victims = victims
        /\ c.now = 0 /\ c.seen = call[t].seen /\ c.excused = call[t].excused
    <3>1. e \in LateCall /\ e.pc = "purging"
          /\ e.seen = call[t].seen /\ e.excused = call[t].excused
      BY <1>1 DEF LateCall, LatePcs
    <3> HIDE DEF e
    <3>2. d \in LateCall /\ d.pc = "purging" /\ d.now = 0
          /\ d.seen = call[t].seen /\ d.excused = call[t].excused
      BY <3>1 DEF LateCall
    <3> HIDE DEF d
    <3> QED BY <2>1, <3>2 DEF LateCall
  <2> HIDE DEF c
  <2>4. CallOK(c, Ran, time)
    BY <1>1, <2>1, <2>3 DEF CallOK, Call, LateCall, LatePcs
  <2> QED BY <1>2, <2>2, <2>4, CallOnly DEF CollectExpired
<1>3. CASE CheckCapacity(t)
  <2> DEFINE c == [call[t] EXCEPT
                     !.pc = IF Size >= MaxCacheSize THEN "measure" ELSE "insert"]
  <2>1. c \in LateCall /\ c.pc \in {"measure", "insert"}
        /\ c.now = call[t].now
        /\ c.seen = call[t].seen /\ c.excused = call[t].excused
    BY <1>1 DEF LateCall, LatePcs
  <2>2. CallOK(c, Ran, time)
    BY <1>1, <2>1 DEF CallOK, Call, LateCall
  <2> QED BY <1>3, <2>2, CallOnly DEF CheckCapacity, GoTo
<1>4. CASE Measure(t)
  <2> DEFINE c == [call[t] EXCEPT !.pc = "choose", !.excess = Excess(Size)]
  <2>1. Excess(Size) \in Int
    BY FS_CardinalityType, CallsAssumption
       DEF Excess, Size, IInv, StoreOK, StoreTyped
  <2>2. c \in LateCall /\ c.pc = "choose" /\ c.now = call[t].now
        /\ c.seen = call[t].seen /\ c.excused = call[t].excused
    BY <1>1, <2>1 DEF LateCall, LatePcs
  <2>3. CallOK(c, Ran, time)
    BY <1>1, <2>2 DEF CallOK, Call, LateCall
  <2> QED BY <1>4, <2>3, CallOnly DEF Measure
<1>5. CASE ChooseVictims(t)
  <2> DEFINE victims == UpTo(call[t].excess)
             e == [call[t] EXCEPT !.pc = "evicting"]
             d == [e EXCEPT !.excess = 0]
             c == [d EXCEPT !.victims = victims]
  <2>1. victims \subseteq Ran \cap Tokens
    BY UsedRan DEF IInv, StoreOK, UpTo, Oldest
  <2> HIDE DEF victims
  <2>2. c \in LateCall /\ c.pc = "evicting" /\ c.victims = victims
        /\ c.now = call[t].now /\ c.seen = call[t].seen /\ c.excused = call[t].excused
    <3>1. e \in LateCall /\ e.pc = "evicting"
          /\ e.now = call[t].now /\ e.seen = call[t].seen /\ e.excused = call[t].excused
      BY <1>1 DEF LateCall, LatePcs
    <3> HIDE DEF e
    <3>2. d \in LateCall /\ d.pc = "evicting"
          /\ d.now = call[t].now /\ d.seen = call[t].seen /\ d.excused = call[t].excused
      BY <3>1 DEF LateCall
    <3> HIDE DEF d
    <3> QED BY <2>1, <3>2 DEF LateCall
  <2>3. CallOK(c, Ran, time)
    BY <1>1, <2>1, <2>2 DEF CallOK, Call, LateCall
  <2> QED BY <1>5, <2>3, CallOnly DEF ChooseVictims, victims
<1>6. CASE EvictionDone(t)
  <2> DEFINE c == [call[t] EXCEPT !.pc = "insert"]
  <2>1. c \in LateCall /\ c.pc = "insert"
        /\ c.now = call[t].now
        /\ c.seen = call[t].seen /\ c.excused = call[t].excused
    BY <1>1 DEF LateCall, LatePcs
  <2>2. CallOK(c, Ran, time)
    BY <1>1, <2>1 DEF CallOK, Call, LateCall
  <2> QED BY <1>6, <2>2, CallOnly DEF EvictionDone, GoTo
<1>7. CASE ReadClock(t)
  <2> DEFINE c == [call[t] EXCEPT !.pc = "purge", !.now = time]
  <2>1. c \in LateCall /\ c.pc = "purge" /\ c.now = time
        /\ c.seen = call[t].seen /\ c.excused = call[t].excused
    BY <1>1 DEF LateCall, LatePcs
  <2>2. CallOK(c, Ran, time)
    BY <1>1, <2>1 DEF CallOK, Call, LateCall, LatePcs
  <2> QED BY <1>7, <2>2, CallOnly DEF ReadClock
<1> QED BY <1>2, <1>3, <1>4, <1>5, <1>6, <1>7

\* A token that is removed has expired or is forgotten.
LEMMA DeleteIInv ==
    ASSUME IInv, NEW t \in Threads, NEW victim \in call[t].victims, NEW lost,
           call[t].pc \in {"purging", "evicting"}, Delete(t, victim, lost),
           \/ lost = {} /\ call[t].pc = "purging"
           \/ lost = {victim}
    PROVE  IInv'
<1>1. CASE victim \notin DOMAIN used
  BY <1>1, NoCallOK, CallOnly DEF Delete, Leave
<1>2. CASE victim \in DOMAIN used
  <2> DEFINE c == [call[t] EXCEPT !.victims = @ \ {victim}]
  <2>1. call[t] \in LateCall /\ CallOK(call[t], Ran, time)
    BY LateCallOK DEF IInv, LatePcs
  <2>2. /\ DOMAIN used' = DOMAIN used \ {victim}
        /\ \A id \in DOMAIN used' : used'[id] = used[id]
        /\ used' \in [DOMAIN used' -> DOMAIN runs]
        /\ forgotten' = forgotten \cup lost
        /\ Go(t, c)
        /\ UNCHANGED <<time, runs>>
    BY <1>2 DEF Delete, Without, Restrict, IInv, StoreOK, StoreTyped
  <2>3. StoreTyped'
    <3>1. IsFiniteSet(DOMAIN used')
      BY <2>2, FS_RemoveElement DEF IInv, StoreOK, StoreTyped
    <3>2. victim \in Tokens
      BY <2>1 DEF LateCall
    <3> QED BY <2>2, <3>1, <3>2 DEF IInv, StoreOK, StoreTyped
  <2>4. RunsRemembered'
    <3>1. Expired(victim, time) \/ victim \in forgotten'
      BY <2>1, <2>2 DEF CallOK, Expired
    <3> QED BY <2>2, <3>1
            DEF IInv, StoreOK, RunsRemembered, Remembered, Expired
  <2>5. RunsExcused'
    BY <2>2 DEF IInv, StoreOK, RunsExcused
  <2>6. CallsOK'
    <3>1. c \in LateCall /\ c.pc = call[t].pc /\ c.victims \subseteq call[t].victims
          /\ c.now = call[t].now /\ c.seen = call[t].seen /\ c.excused = call[t].excused
      BY <2>1 DEF LateCall
    <3>2. CallOK(c, Ran, time)
      BY <2>1, <3>1 DEF CallOK, Call
    <3>3. Ran' = Ran /\ time' = time /\ time \in Nat
      BY <2>2 DEF Ran, IInv, StoreOK, StoreTyped
    <3> HIDE DEF c
    <3> QED BY <2>2, <3>2, <3>3, OneCallChanges DEF IInv
  <2> QED BY <2>3, <2>4, <2>5, <2>6 DEF IInv, StoreOK
<1> QED BY <1>1, <1>2

LEMMA InsertIInv ==
    ASSUME IInv, NEW t \in Threads, InsertAndRun(t)
    PROVE  IInv'
<1> DEFINE token == call[t].token
           run == [token |-> token, seen |-> call[t].seen,
                   excused |-> call[t].excused]
<1>1. call[t] \in LateCall /\ CallOK(call[t], Ran, time)
  BY LateCallOK DEF IInv, LatePcs, InsertAndRun, At
<1>2. /\ used' = Inserted(token)
      /\ forgotten' = forgotten \ {token}
      /\ runs' = Append(runs, run)
      /\ Go(t, NoCall)
      /\ time' = time
  BY DEF InsertAndRun, Leave
<1>3. run \in Run /\ token \in Tokens
  BY <1>1 DEF LateCall, Run
<1>4. runs \in Seq(Run) /\ time \in Nat
  BY DEF IInv, StoreOK, StoreTyped
<1> HIDE DEF run
<1>5. /\ runs' \in Seq(Run)
      /\ DOMAIN runs' = DOMAIN runs \cup {Len(runs) + 1}
      /\ DOMAIN runs \subseteq 1..Len(runs)
      /\ \A n \in DOMAIN runs : runs'[n] = runs[n]
      /\ runs'[Len(runs) + 1] = run
  BY <1>2, <1>3, <1>4
<1>6. run.token = token /\ (run.seen # {} => run.excused)
  BY <1>1 DEF run, CallOK, LateCall, LatePcs, InsertAndRun, At
<1>7. /\ DOMAIN used' = DOMAIN used \cup {token}
      /\ \A id \in DOMAIN used : used'[id] = used[id]
      /\ token \notin DOMAIN used => used'[token] = Len(runs) + 1
      /\ used' = [id \in DOMAIN used' |-> used'[id]]
  BY <1>2 DEF Inserted
<1>8. StoreTyped'
  <2>1. IsFiniteSet(DOMAIN used')
    BY <1>7, FS_AddElement DEF IInv, StoreOK, StoreTyped
  <2>2. ASSUME NEW id \in DOMAIN used'
        PROVE  /\ used'[id] \in DOMAIN runs'
               /\ id \in Tokens /\ runs'[used'[id]].token = id
    <3>1. CASE id \in DOMAIN used
      BY <1>5, <1>7, <3>1 DEF IInv, StoreOK, StoreTyped
    <3>2. CASE id \notin DOMAIN used
      BY <1>3, <1>5, <1>6, <1>7, <3>2
    <3> QED BY <3>1, <3>2
  <2>3. used' \in [DOMAIN used' -> DOMAIN runs']
    BY <1>7, <2>2
  <2>4. forgotten' \subseteq Tokens \ DOMAIN used'
    BY <1>2, <1>7 DEF IInv, StoreOK, StoreTyped
  <2> QED BY <1>2, <1>4, <1>5, <2>1, <2>2, <2>3, <2>4 DEF StoreTyped
<1>9. RunsRemembered'
  <2> SUFFICES ASSUME NEW n \in DOMAIN runs'
               PROVE  Remembered(runs[n].token)'
    BY DEF RunsRemembered
  <2>1. CASE n = Len(runs) + 1
    BY <1>5, <1>6, <1>7, <2>1 DEF Remembered
  <2>2. CASE n \in DOMAIN runs
    <3>1. Remembered(runs[n].token)
      BY <2>2 DEF IInv, StoreOK, RunsRemembered
    <3> QED BY <1>2, <1>5, <1>7, <2>2, <3>1 DEF Remembered, Expired
  <2> QED BY <1>5, <2>1, <2>2
<1>10. RunsExcused'
  BY <1>5, <1>6 DEF IInv, StoreOK, RunsExcused
<1>11. CallsOK'
  <2>1. Ran \subseteq Ran'
    BY <1>5 DEF Ran
  <2>2. CallOK(NoCall, Ran', time')
    BY DEF CallOK, NoCall, Call, LatePcs
  <2> QED BY <1>2, <1>4, <2>1, <2>2, OneCallChanges DEF IInv
<1> QED BY <1>8, <1>9, <1>10, <1>11 DEF IInv, StoreOK

----------------------------------------------------------------------------

LEMMA NextIInv == IInv /\ [CallsNext]_callsVars => IInv'
<1> SUFFICES ASSUME IInv, [CallsNext]_callsVars PROVE IInv'
  OBVIOUS
<1>1. ASSUME NEW t \in Threads, NEW token \in Tokens, Verify(t, token)
      PROVE  IInv'
  <2> DEFINE c == [pc |-> "test", token |-> token]
  <2>1. CallOK(c, Ran, time)
    BY DEF CallOK, Call, EarlyCall, LatePcs
  <2> QED BY <1>1, <2>1, CallOnly DEF Verify
<1>2. ASSUME NEW t \in Threads, CollectRaises(t) PROVE IInv'
  BY <1>2, NoCallOK, CallOnly DEF CollectRaises, Leave
<1>3. ASSUME NEW t \in Threads, Purge(t) PROVE IInv'
  BY <1>3, DeleteIInv DEF Purge, At
<1>4. ASSUME NEW t \in Threads, Evict(t) PROVE IInv'
  BY <1>4, DeleteIInv DEF Evict, At
<1>5. CASE PassTime
  <2>1. time' = time + 1 /\ UNCHANGED <<used, call, runs, forgotten>>
    BY <1>5 DEF PassTime
  <2>2. time \in Nat /\ time' \in Nat /\ time <= time' /\ Ran' = Ran
    BY <2>1 DEF IInv, StoreOK, StoreTyped, Ran
  <2>3. CallsOK'
    BY <2>1, <2>2, CallStays DEF IInv, CallsOK
  <2>4. StoreTyped' /\ RunsExcused'
    BY <2>1, <2>2 DEF IInv, StoreOK, StoreTyped, RunsExcused
  <2>5. RunsRemembered'
    <3>1. \A n \in DOMAIN runs : runs[n].token \in Tokens
      <4>1. \A n \in DOMAIN runs : runs[n] \in Run
        BY DEF IInv, StoreOK, StoreTyped
      <4> QED BY <4>1 DEF Run
    <3>2. \A id \in Tokens : Expired(id, time) => Expired(id, time)'
      BY <2>1, <2>2, CallsAssumption DEF Expired
    <3> QED BY <2>1, <3>1, <3>2
            DEF IInv, StoreOK, RunsRemembered, Remembered
  <2> QED BY <2>3, <2>4, <2>5 DEF IInv, StoreOK
<1>6. CASE UNCHANGED callsVars
  BY <1>6 DEF callsVars, IInv, StoreOK, StoreTyped, RunsRemembered, Remembered,
              Expired, RunsExcused, CallsOK, Ran
<1> QED
  BY <1>1, <1>2, <1>3, <1>4, <1>5, <1>6, TestMembershipIInv, ScanIInv,
     InsertIInv
     DEF CallsNext, CallStep

\* The inductive invariant of the calls.
THEOREM CallsIInv == CallsSpec => []IInv
BY InitIInv, NextIInv, PTL DEF CallsSpec

\* Type correctness of the threads' calls: the cache holds tokens that ran,
\* and a thread removes none but such (_record_proof_use).
THEOREM CallsTypeCorrect == CallsSpec => []CallsTypeOK
<1>1. IInv => CallsTypeOK
  BY DEF IInv, StoreOK, StoreTyped, CallsOK, CallOK, CallsTypeOK
<1> QED BY <1>1, CallsIInv, PTL

\* With any number of threads, tokens and entries, a token runs again only in a
\* race, after an eviction at capacity or past its expiry (_execute_governed).
THEOREM ReplayTakesARace == CallsSpec => []ReplayNeedsARace
<1>1. IInv => ReplayNeedsARace
  BY DEF IInv, StoreOK, RunsExcused, ReplayNeedsARace
<1> QED BY <1>1, CallsIInv, PTL

----------------------------------------------------------------------------
(* handle_tool_call: how far the cache overruns its capacity               *)

\* The call may insert an entry without removing one first.
Free(c) ==
    \/ c.pc = "insert"
    \/ c.pc = "evicting" /\ c.victims = {}
    \/ c.pc = "choose" /\ c.excess <= 0

FreeThreads == {t \in Threads : Free(call[t])}

\* It holds by itself while the cache is below its capacity; a thread that
\* finds it full removes something before it may insert.
OverrunInv ==
    Size + Cardinality(FreeThreads) <= MaxCacheSize + Cardinality(Threads) - 1

LEMMA Sizes ==
    /\ IsFiniteSet(FreeThreads) /\ Cardinality(FreeThreads) \in Nat
    /\ Cardinality(Threads) \in Nat
    /\ Cardinality(FreeThreads) <= Cardinality(Threads)
<1>1. FreeThreads \in SUBSET Threads /\ IsFiniteSet(Threads)
  BY CallsAssumption DEF FreeThreads
<1> QED BY <1>1, FS_Subset, FS_CardinalityType

LEMMA SizeType == StoreTyped => Size \in Nat
BY FS_CardinalityType DEF StoreTyped, Size

LEMMA RoomBelowCapacity ==
    ASSUME StoreTyped, Size < MaxCacheSize
    PROVE  OverrunInv
<1>1. MaxCacheSize \in Nat
  BY CallsAssumption
<1> QED BY <1>1, Sizes, SizeType DEF OverrunInv

\* A step of one thread frees at most that thread.
LEMMA FreeStep ==
    ASSUME IInv, NEW t \in Threads, NEW c, Go(t, c)
    PROVE  /\ Cardinality(FreeThreads') <= Cardinality(FreeThreads) + 1
           /\ Free(call[t]) \/ ~Free(c) =>
                 Cardinality(FreeThreads') <= Cardinality(FreeThreads)
           /\ Free(call[t]) /\ ~Free(c) =>
                 Cardinality(FreeThreads') <= Cardinality(FreeThreads) - 1
<1>1. \A u \in Threads : call'[u] = IF u = t THEN c ELSE call[u]
  BY DEF Go, IInv, CallsOK
<1>2. FreeThreads' = {u \in Threads : Free(call'[u])}
  BY DEF FreeThreads, Free
<1>3. /\ FreeThreads' \in SUBSET (FreeThreads \cup {t})
      /\ Free(call[t]) \/ ~Free(c) => FreeThreads' \in SUBSET FreeThreads
      /\ ~Free(c) => FreeThreads' \in SUBSET (FreeThreads \ {t})
  BY <1>1, <1>2 DEF FreeThreads
<1>4. Free(call[t]) => t \in FreeThreads
  BY DEF FreeThreads
<1>5. /\ IsFiniteSet(FreeThreads \cup {t})
      /\ Cardinality(FreeThreads \cup {t}) <= Cardinality(FreeThreads) + 1
  <2>1. IsFiniteSet(FreeThreads) /\ Cardinality(FreeThreads) \in Nat
    BY Sizes
  <2>2. /\ IsFiniteSet(FreeThreads \cup {t})
        /\ Cardinality(FreeThreads \cup {t}) =
               IF t \in FreeThreads THEN Cardinality(FreeThreads)
               ELSE Cardinality(FreeThreads) + 1
    BY <2>1, FS_AddElement
  <2> QED BY <2>1, <2>2
<1>6. /\ IsFiniteSet(FreeThreads \ {t})
      /\ t \in FreeThreads =>
            Cardinality(FreeThreads \ {t}) = Cardinality(FreeThreads) - 1
  BY Sizes, FS_RemoveElement
<1>7. \A S, T : IsFiniteSet(T) /\ S \in SUBSET T =>
          Cardinality(S) <= Cardinality(T)
  BY FS_Subset
<1>8. Cardinality(FreeThreads') <= Cardinality(FreeThreads) + 1
  <2>1. Cardinality(FreeThreads') <= Cardinality(FreeThreads \cup {t})
    BY <1>3, <1>5, <1>7
  <2>2. /\ Cardinality(FreeThreads \cup {t}) \in Nat
        /\ Cardinality(FreeThreads') \in Nat
    BY <1>3, <1>5, FS_CardinalityType, FS_Subset
  <2> QED BY <1>5, <2>1, <2>2, Sizes
<1> QED BY <1>3, <1>4, <1>6, <1>7, <1>8, Sizes

\* A cache that is not empty has an oldest entry to remove.
LEMMA OldestExists ==
    ASSUME StoreTyped, Size > 0, NEW n \in Nat, n > 0
    PROVE  Oldest(n) # {}
<1>1. DOMAIN used # {}
  BY FS_EmptySet DEF Size
<1>2. \A id \in DOMAIN used : used[id] \in Nat
  BY DEF StoreTyped
<1>3. PICK id \in DOMAIN used : \A o \in DOMAIN used : used[id] <= used[o]
  BY <1>1, <1>2, LeastExists
<1>4. {o \in DOMAIN used : used[o] < used[id]} = {}
  BY <1>2, <1>3
<1>5. Cardinality({o \in DOMAIN used : used[o] < used[id]}) = 0
  BY <1>4, FS_EmptySet
<1> QED BY <1>5 DEF Oldest

\* The history of a call keeps the types that the bound needs.
LEMMA OverrunStep ==
    ASSUME IInv, OverrunInv, NEW t \in Threads, CallStep(t), IInv'
    PROVE  OverrunInv'
<1>1. /\ Size \in Nat /\ Size' \in Nat
      /\ MaxCacheSize \in Nat /\ MaxCacheSize >= 1
      /\ Cardinality(FreeThreads) \in Nat /\ Cardinality(FreeThreads') \in Nat
      /\ Cardinality(Threads) \in Nat
  <2>1. Size' \in Nat
    BY FS_CardinalityType DEF IInv, StoreOK, StoreTyped, Size
  <2>2. IsFiniteSet(FreeThreads')
    BY CallsAssumption, FS_Subset DEF FreeThreads
  <2> QED BY <2>1, <2>2, SizeType, Sizes, CallsAssumption, FS_CardinalityType
          DEF IInv, StoreOK
<1>2. ASSUME Size' < MaxCacheSize
      PROVE  OverrunInv'
  <2>1. Cardinality(FreeThreads') <= Cardinality(Threads)
    BY CallsAssumption, FS_Subset DEF FreeThreads
  <2> QED BY <1>1, <1>2, <2>1 DEF OverrunInv
\* A step that changes the call alone, and frees the thread only if it was.
<1>3. ASSUME NEW c, Go(t, c), Size' <= Size, Free(call[t]) \/ ~Free(c)
      PROVE  OverrunInv'
  <2>1. Cardinality(FreeThreads') <= Cardinality(FreeThreads)
    BY <1>3, FreeStep
  <2> QED BY <1>1, <1>3, <2>1 DEF OverrunInv
<1>4. ~Free(NoCall)
  BY DEF Free, NoCall
<1>5. UNCHANGED used => Size' = Size
  BY DEF Size
<1>6. CASE \E token \in Tokens : Verify(t, token)
  <2>1. PICK token \in Tokens : Verify(t, token)
    BY <1>6
  <2>2. ~Free([pc |-> "test", token |-> token])
    BY DEF Free
  <2> QED BY <1>1, <1>3, <1>5, <2>1, <2>2 DEF Verify
<1>7. CASE TestMembership(t)
  <2>1. PICK c : Go(t, c) /\ (c = NoCall \/ c.pc = "clock")
    BY <1>7 DEF TestMembership, Leave
  <2>2. ~Free(c)
    BY <2>1, <1>4 DEF Free
  <2> QED BY <1>1, <1>3, <1>5, <1>7, <2>1, <2>2 DEF TestMembership
<1>8. ASSUME call[t].pc \in LatePcs
      PROVE  call[t] \in LateCall
  BY <1>8, LateCallOK DEF IInv
<1>9. CASE ReadClock(t) \/ CollectExpired(t) \/ CollectRaises(t)
  <2>1. /\ call[t] \in LateCall
        /\ UNCHANGED used
    BY <1>8, <1>9 DEF ReadClock, CollectExpired, CollectRaises, At, LatePcs
  <2>2. CASE CollectRaises(t)
    BY <1>1, <1>3, <1>4, <1>5, <2>1, <2>2 DEF CollectRaises, Leave
  <2>3. CASE CollectExpired(t)
    <3> DEFINE c == [call[t] EXCEPT
                       !.pc = "purging", !.now = 0,
                       !.victims = {id \in DOMAIN used :
                                        Expired(id, call[t].now)}]
    <3>1. Go(t, c)
      BY <2>3 DEF CollectExpired
    <3>2. c.pc = "purging"
      BY <2>1 DEF LateCall
    <3> HIDE DEF c
    <3>3. ~Free(c)
      BY <3>2 DEF Free
    <3> QED BY <1>1, <1>3, <1>5, <2>1, <3>1, <3>3
  <2>4. CASE ReadClock(t)
    <3> DEFINE c == [call[t] EXCEPT !.pc = "purge", !.now = time]
    <3>1. Go(t, c) /\ ~Free(c)
      BY <2>1, <2>4 DEF ReadClock, Free, LateCall
    <3> QED BY <1>1, <1>3, <1>5, <2>1, <3>1
  <2> QED BY <1>9, <2>2, <2>3, <2>4
<1>10. CASE CheckCapacity(t)
  <2>1. call[t] \in LateCall /\ UNCHANGED used
    BY <1>8, <1>10 DEF CheckCapacity, At, LatePcs
  <2>2. CASE Size < MaxCacheSize
    BY <1>2, <1>5, <2>1, <2>2
  <2>3. CASE ~(Size < MaxCacheSize)
    <3> DEFINE c == [call[t] EXCEPT !.pc = "measure"]
    <3>1. Go(t, c)
      BY <1>1, <1>10, <2>3 DEF CheckCapacity, GoTo
    <3>2. ~Free(c)
      BY <2>1 DEF Free, LateCall
    <3> QED BY <1>1, <1>3, <1>5, <2>1, <3>1, <3>2
  <2> QED BY <2>2, <2>3
<1>11. CASE Measure(t)
  <2>1. call[t] \in LateCall /\ UNCHANGED used
    BY <1>8, <1>11 DEF Measure, At, LatePcs
  <2>2. CASE Size < MaxCacheSize
    BY <1>2, <1>5, <2>1, <2>2
  <2>3. CASE ~(Size < MaxCacheSize)
    <3> DEFINE c == [call[t] EXCEPT !.pc = "choose", !.excess = Excess(Size)]
    <3>1. Go(t, c)
      BY <1>11 DEF Measure
    <3>2. Excess(Size) \in Int /\ Excess(Size) > 0
      BY <1>1, <2>3 DEF Excess
    <3>3. c.pc = "choose" /\ c.excess = Excess(Size)
      BY <2>1 DEF LateCall
    <3> HIDE DEF c
    <3>4. ~Free(c)
      BY <3>2, <3>3 DEF Free
    <3> QED BY <1>1, <1>3, <1>5, <2>1, <3>1, <3>4
  <2> QED BY <2>2, <2>3
<1>12. CASE ChooseVictims(t)
  <2> DEFINE c == [call[t] EXCEPT !.pc = "evicting", !.excess = 0,
                                  !.victims = UpTo(call[t].excess)]
  <2>1. call[t] \in LateCall /\ call[t].pc = "choose" /\ UNCHANGED used
    BY <1>8, <1>12 DEF ChooseVictims, At, LatePcs
  <2>2. CASE Size < MaxCacheSize
    BY <1>2, <1>5, <2>1, <2>2
  <2>3. CASE call[t].excess <= 0
    <3>1. Free(call[t]) /\ Go(t, c)
      BY <1>12, <2>1, <2>3 DEF Free, ChooseVictims
    <3> QED BY <1>1, <1>3, <1>5, <2>1, <3>1
  <2>4. CASE ~(Size < MaxCacheSize) /\ ~(call[t].excess <= 0)
    <3>1. call[t].excess \in Nat /\ call[t].excess > 0 /\ Size > 0
      BY <1>1, <2>1, <2>4 DEF LateCall
    <3>2. UpTo(call[t].excess) # {}
      BY <3>1, OldestExists DEF UpTo, IInv, StoreOK
    <3>3. Go(t, c) /\ c.pc = "evicting" /\ c.victims = UpTo(call[t].excess)
      BY <1>12, <2>1 DEF ChooseVictims, LateCall
    <3> HIDE DEF c
    <3>4. ~Free(c)
      BY <3>2, <3>3 DEF Free
    <3> QED BY <1>1, <1>3, <1>5, <2>1, <3>3, <3>4
  <2> QED BY <2>2, <2>3, <2>4
<1>13. CASE EvictionDone(t)
  <2>1. call[t].pc = "evicting" /\ call[t].victims = {} /\ UNCHANGED used
    BY <1>13 DEF EvictionDone, At
  <2>2. Free(call[t]) /\ Go(t, [call[t] EXCEPT !.pc = "insert"])
    BY <1>13, <2>1 DEF Free, EvictionDone, GoTo
  <2> QED BY <1>1, <1>3, <1>5, <2>1, <2>2
<1>14. CASE Purge(t) \/ Evict(t)
  <2>1. PICK victim \in call[t].victims :
           \E lost : Delete(t, victim, lost)
    BY <1>14 DEF Purge, Evict
  <2>2. CASE victim \notin DOMAIN used
    BY <1>1, <1>3, <1>4, <1>5, <2>1, <2>2 DEF Delete, Leave
  <2>3. CASE victim \in DOMAIN used
    <3> DEFINE c == [call[t] EXCEPT !.victims = @ \ {victim}]
    <3>1. Go(t, c) /\ DOMAIN used' = DOMAIN used \ {victim}
      BY <2>1, <2>3 DEF Delete, Without, Restrict
    <3>2. Size' = Size - 1
      BY <2>3, <3>1, FS_RemoveElement DEF Size, IInv, StoreOK, StoreTyped
    <3>3. Cardinality(FreeThreads') <= Cardinality(FreeThreads) + 1
      BY <3>1, FreeStep
    <3> QED BY <1>1, <3>2, <3>3 DEF OverrunInv
  <2> QED BY <2>2, <2>3
<1>15. CASE InsertAndRun(t)
  <2>1. /\ call[t].pc = "insert" /\ Go(t, NoCall)
        /\ DOMAIN used' = DOMAIN used \cup {call[t].token}
    BY <1>15 DEF InsertAndRun, At, Leave, Inserted
  <2>2. Size' <= Size + 1
    <3>1. IsFiniteSet(DOMAIN used)
      BY DEF IInv, StoreOK, StoreTyped
    <3>2. Cardinality(DOMAIN used \cup {call[t].token}) =
              IF call[t].token \in DOMAIN used THEN Cardinality(DOMAIN used)
              ELSE Cardinality(DOMAIN used) + 1
      BY <3>1, FS_AddElement
    <3> QED BY <1>1, <2>1, <3>2 DEF Size
  <2>3. Cardinality(FreeThreads') <= Cardinality(FreeThreads) - 1
    BY <1>4, <2>1, FreeStep DEF Free
  <2> QED BY <1>1, <2>2, <2>3 DEF OverrunInv
<1> QED BY <1>6, <1>7, <1>9, <1>10, <1>11, <1>12, <1>13, <1>14, <1>15
        DEF CallStep

LEMMA NextOverrun == IInv /\ OverrunInv /\ [CallsNext]_callsVars => OverrunInv'
<1> SUFFICES ASSUME IInv, OverrunInv, [CallsNext]_callsVars PROVE OverrunInv'
  OBVIOUS
<1>1. CASE PassTime \/ UNCHANGED callsVars
  BY <1>1 DEF PassTime, callsVars, OverrunInv, Size, FreeThreads, Free
<1>2. CASE \E t \in Threads : CallStep(t)
  BY <1>2, NextIInv, OverrunStep
<1> QED BY <1>1, <1>2 DEF CallsNext

\* The cache overruns its capacity by less than the number of threads, whatever
\* the capacity and whatever they do to each other (_record_proof_use).
THEOREM OverrunIsBounded == CallsSpec => []OverrunBounded
<1>1. CallsInit => OverrunInv
  <2> SUFFICES ASSUME CallsInit PROVE OverrunInv
    OBVIOUS
  <2>1. Size = 0
    BY FS_EmptySet DEF CallsInit, Size
  <2>2. MaxCacheSize \in Nat /\ MaxCacheSize >= 1
    BY CallsAssumption
  <2> QED BY <2>1, <2>2, Sizes DEF OverrunInv
<1>2. IInv /\ OverrunInv => OverrunBounded
  <2> SUFFICES ASSUME IInv, OverrunInv PROVE OverrunBounded
    OBVIOUS
  <2>1. Size \in Nat /\ MaxCacheSize \in Nat
    BY SizeType, CallsAssumption DEF IInv, StoreOK
  <2> QED BY <2>1, Sizes DEF OverrunInv, OverrunBounded
<1> QED BY <1>1, <1>2, NextOverrun, CallsIInv, PTL DEF CallsSpec

=============================================================================
