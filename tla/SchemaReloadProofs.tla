------------------------- MODULE SchemaReloadProofs -------------------------
(* Theorems about SchemaReload and the schemas of SchemaGenerator, for any    *)
(* catalogs, DDL, reloads and users of the pool.                              *)
EXTENDS SchemaReload, TLAPS, FiniteSetTheorems, SequenceTheorems, WellFoundedInduction

-----------------------------------------------------------------------------
(* Least and greatest; fields merged from parts *)

LEMMA LeastExists ==
  ASSUME NEW S \in SUBSET Nat, S # {}
  PROVE  Min(S) \in S /\ \A n \in S : Min(S) <= n
<1>1. PICK less : less = {ss \in Nat \X Nat : ss[1] < ss[2]} /\ IsWellFoundedOn(less, Nat)
  BY NatLessThanWellFounded DEF OpToRel
<1>2. PICK x \in S : \A y \in S : ~ (<<y, x>> \in less)
  BY <1>1, WFMin
<1>3. \A y \in S : x <= y
  <2>. TAKE y \in S
  <2>. DEFINE pair == <<y, x>>
  <2>1. pair \in Nat \X Nat /\ pair[1] = y /\ pair[2] = x
    OBVIOUS
  <2>. HIDE DEF pair
  <2>2. pair \notin less
    BY <1>2 DEF pair
  <2>. QED  BY <1>1, <2>1, <2>2
<1>. QED  BY <1>3 DEF Min

LEMMA GreatestExists ==
  ASSUME NEW k \in Nat, NEW S \in SUBSET (1..k), S # {}
  PROVE  Max(S) \in S /\ \A n \in S : n <= Max(S)
<1>1. PICK T : T = {k - n : n \in S}
  OBVIOUS
<1>2. T \in SUBSET Nat /\ T # {}
  <2>1. \A n \in S : k - n \in Nat
    OBVIOUS
  <2>. QED  BY <1>1, <2>1
<1>3. Min(T) \in T /\ \A n \in T : Min(T) <= n
  BY <1>2, LeastExists
<1>4. PICK x \in S : Min(T) = k - x
  BY <1>1, <1>3
<1>5. \A n \in S : x >= n
  <2>. TAKE n \in S
  <2>1. k - n \in T
    BY <1>1
  <2>2. Min(T) <= k - n
    BY <1>3, <2>1
  <2>. QED  BY <1>4, <2>2
<1>. QED  BY <1>5 DEF Max

Listed(parts) == \E k \in Nat : DOMAIN parts = 1..k

Agreed(parts, name, value) ==
  \A n \in DOMAIN parts : name \in DOMAIN parts[n] => parts[n][name] = value

LEMMA MergedNames ==
  ASSUME NEW parts, NEW name
  PROVE  name \in DOMAIN Merged(parts) <=> \E n \in DOMAIN parts : name \in DOMAIN parts[n]
  BY DEF Merged

LEMMA MergedFrom ==
  ASSUME NEW parts, Listed(parts), NEW name \in DOMAIN Merged(parts)
  PROVE  \E n \in DOMAIN parts : name \in DOMAIN parts[n] /\ Merged(parts)[name] = parts[n][name]
<1>. DEFINE S == {m \in DOMAIN parts : name \in DOMAIN parts[m]}
<1>1. Max(S) \in S
  BY GreatestExists DEF Merged, Listed
<1>. QED  BY <1>1 DEF Merged

LEMMA MergedValue ==
  ASSUME NEW parts, Listed(parts), NEW n \in DOMAIN parts, NEW name \in DOMAIN parts[n],
         NEW value, Agreed(parts, name, value)
  PROVE  name \in DOMAIN Merged(parts) /\ Merged(parts)[name] = value
<1>1. name \in DOMAIN Merged(parts)
  BY MergedNames
<1>. QED  BY <1>1, MergedFrom DEF Agreed

LEMMA MergedTwo ==
  ASSUME NEW a, NEW b, NEW name
  PROVE  /\ name \in DOMAIN Merged(<<a, b>>) <=> name \in DOMAIN a \/ name \in DOMAIN b
         /\ name \in DOMAIN b => Merged(<<a, b>>)[name] = b[name]
         /\ name \in DOMAIN a /\ name \notin DOMAIN b => Merged(<<a, b>>)[name] = a[name]
<1>. DEFINE parts == <<a, b>>
            S == {m \in DOMAIN parts : name \in DOMAIN parts[m]}
<1>1. DOMAIN parts = 1..2 /\ parts[1] = a /\ parts[2] = b
  OBVIOUS
<1>2. name \in DOMAIN Merged(parts) <=> name \in DOMAIN a \/ name \in DOMAIN b
  BY <1>1, MergedNames
<1>3. ASSUME name \in DOMAIN b PROVE Merged(parts)[name] = b[name]
  <2>1. Max(S) \in S /\ 2 <= Max(S)
    BY <1>1, <1>3, GreatestExists
  <2>2. Max(S) = 2
    BY <1>1, <2>1
  <2>. QED  BY <1>1, <1>3, <2>2 DEF Merged
<1>4. ASSUME name \in DOMAIN a, name \notin DOMAIN b PROVE Merged(parts)[name] = a[name]
  <2>1. Agreed(parts, name, a[name])
    BY <1>1, <1>4 DEF Agreed
  <2>2. 1 \in DOMAIN parts /\ name \in DOMAIN parts[1] /\ Listed(parts)
    BY <1>1, <1>4 DEF Listed
  <2>. HIDE DEF parts
  <2>. QED  BY <2>1, <2>2, MergedValue
<1>. QED  BY <1>2, <1>3, <1>4

-----------------------------------------------------------------------------
(* Names of root fields *)

LEMMA SamePrefix ==
  ASSUME NEW S, NEW a \in Seq(S), NEW b \in Seq(S), NEW c \in Seq(S), NEW d \in Seq(S),
         Len(a) = Len(c), a \o b = c \o d
  PROVE  a = c /\ b = d
<1>1. /\ \A n \in 1..(Len(a) + Len(b)) : (a \o b)[n] = IF n <= Len(a) THEN a[n] ELSE b[n - Len(a)]
      /\ \A n \in 1..(Len(c) + Len(d)) : (c \o d)[n] = IF n <= Len(c) THEN c[n] ELSE d[n - Len(c)]
      /\ Len(a \o b) = Len(a) + Len(b) /\ Len(c \o d) = Len(c) + Len(d)
  BY ConcatProperties
<1>2. Len(a) \in Nat /\ Len(b) \in Nat /\ Len(b) = Len(d)
  BY <1>1
<1>3. a = c
  <2>1. \A n \in 1..Len(a) : a[n] = c[n]
    BY <1>1, <1>2
  <2>. QED  BY <2>1
<1>. QED  BY <1>3, ConcatSimplifications

Words == STRING \cup {"by", "pk", "aggregate", "stream", "one", "insert", "update", "delete"}

LEMMA Short ==
  ASSUME NEW W, NEW a \in W, NEW b \in W
  PROVE  << >> \in Seq(W) /\ <<a>> \in Seq(W) /\ <<a, b>> \in Seq(W)
  OBVIOUS

LEMMA OneWord == ASSUME NEW W, NEW a \in W PROVE Plain \in Seq(W) /\ <<a>> \in Seq(W)
  BY Short DEF Plain

LEMMA EndingsDiffer ==
  /\ Endings \subseteq Seq(Words)
  /\ Plain # Pk /\ Plain # <<"aggregate">> /\ Plain # <<"stream">> /\ Plain # <<"one">>
  /\ Pk # <<"aggregate">> /\ Pk # <<"stream">> /\ Pk # <<"one">>
<1>1. /\ "by" \in Words /\ "pk" \in Words /\ "aggregate" \in Words /\ "stream" \in Words
      /\ "one" \in Words
  BY Zenon DEF Words
<1>2. Plain \in Seq(Words) /\ Pk \in Seq(Words)
  BY <1>1, Short DEF Plain, Pk
<1>3. <<"aggregate">> \in Seq(Words) /\ <<"stream">> \in Seq(Words) /\ <<"one">> \in Seq(Words)
  BY <1>1, OneWord
<1>4. Endings \subseteq Seq(Words)
  BY <1>2, <1>3, Zenon DEF Endings
<1>5. /\ Len(Plain) = 0 /\ Len(Pk) = 2
      /\ Len(<<"aggregate">>) = 1 /\ Len(<<"stream">>) = 1 /\ Len(<<"one">>) = 1
  BY DEF Plain, Pk
<1>. QED  BY <1>4, <1>5

LEMMA RootIs ==
  ASSUME NEW W, NEW t \in Seq(W), NEW v \in Seq(W), NEW x \in Seq(W)
  PROVE  Root(v, t, x) = v \o (t \o x)
  BY ConcatAssociative DEF Root

LEMMA RootSplits ==
  ASSUME NEW t \in Seq(Words), NEW u \in Seq(Words), NEW v \in Seq(Words), NEW w \in Seq(Words),
         Len(v) = Len(w), NEW x \in Endings, NEW y \in Endings, Root(v, t, x) = Root(w, u, y)
  PROVE  v = w /\ t \o x = u \o y
<1>1. x \in Seq(Words) /\ y \in Seq(Words)
  BY EndingsDiffer
<1>2. t \o x \in Seq(Words) /\ u \o y \in Seq(Words)
  BY <1>1, ConcatProperties
<1>3. v \o (t \o x) = w \o (u \o y)
  <2>1. Root(v, t, x) = v \o (t \o x)
    BY <1>1, RootIs
  <2>2. Root(w, u, y) = w \o (u \o y)
    BY <1>1, RootIs
  <2>. QED  BY <2>1, <2>2
<1>. QED  BY <1>2, <1>3, SamePrefix

\* No root field of another name in S has a name of t's.
Apart(t, S) == \A u \in S \ {t} : \A x, y \in Endings : t \o x # u \o y

\* What the root fields of the tables S are made from.
Roots(roots, S, V) ==
  /\ S \subseteq Seq(Words)
  /\ V \subseteq Seq(Words) /\ \A v, w \in V : Len(v) = Len(w)
  /\ \A u \in S : DOMAIN roots[u] \subseteq V \X Endings

LEMMA RootIsOwn ==
  ASSUME NEW S, NEW V, NEW roots, Roots(roots, S, V),
         NEW t \in Seq(Words), Apart(t, S), NEW v \in V, NEW x \in Endings,
         NEW u \in S, NEW r \in DOMAIN roots[u], RootName(u, r) = Root(v, t, x)
  PROVE  u = t /\ r = <<v, x>>
<1>1. r = <<r[1], r[2]>> /\ r[1] \in V /\ r[2] \in Endings
  <2>1. r \in V \X Endings
    BY DEF Roots
  <2>. QED  BY <2>1
<1>2. u \in Seq(Words) /\ v \in Seq(Words) /\ r[1] \in Seq(Words) /\ Len(r[1]) = Len(v)
  BY <1>1 DEF Roots
<1>3. r[1] = v /\ u \o r[2] = t \o x
  BY <1>1, <1>2, RootSplits DEF RootName
<1>4. u = t
  BY <1>1, <1>3 DEF Apart
<1>5. r[2] = x
  BY <1>1, <1>3, <1>4, EndingsDiffer, ConcatSimplifications
<1>. QED  BY <1>1, <1>3, <1>4, <1>5

\* The fields of one table.
Part(u, roots) ==
  [y \in {RootName(u, r) : r \in DOMAIN roots} |->
     roots[CHOOSE r \in DOMAIN roots : RootName(u, r) = y]]

Names(order, S) == \E k \in Nat : order \in [1..k -> S] /\ ToSet(order) = S

LEMMA RootsServed ==
  ASSUME NEW S, NEW order, Names(order, S), NEW V, NEW roots, Roots(roots, S, V),
         NEW t \in Seq(Words), Apart(t, S), NEW v \in V, NEW x \in Endings
  PROVE  /\ Root(v, t, x) \in DOMAIN Rooted(order, roots) <=> t \in S /\ <<v, x>> \in DOMAIN roots[t]
         /\ t \in S /\ <<v, x>> \in DOMAIN roots[t] =>
              Rooted(order, roots)[Root(v, t, x)] = roots[t][<<v, x>>]
<1>1. \A u \in S : \A r \in DOMAIN roots[u] :
        RootName(u, r) = Root(v, t, x) => u = t /\ r = <<v, x>>
  BY RootIsOwn
<1>2. RootName(t, <<v, x>>) = Root(v, t, x)
  BY DEF RootName
<1>3. PICK name : name = Root(v, t, x)
  OBVIOUS
<1>4. ASSUME NEW u \in S, name \in DOMAIN Part(u, roots[u])
      PROVE  u = t /\ <<v, x>> \in DOMAIN roots[t]
  <2>1. PICK r \in DOMAIN roots[u] : name = RootName(u, r)
    BY <1>4 DEF Part
  <2>. QED  BY <1>1, <1>3, <2>1
<1>5. ASSUME t \in S, <<v, x>> \in DOMAIN roots[t]
      PROVE  name \in DOMAIN Part(t, roots[t]) /\ Part(t, roots[t])[name] = roots[t][<<v, x>>]
  <2>1. name \in {RootName(t, r) : r \in DOMAIN roots[t]}
    BY <1>2, <1>3, <1>5
  <2>2. (CHOOSE r \in DOMAIN roots[t] : RootName(t, r) = name) = <<v, x>>
    BY <1>1, <1>2, <1>3, <1>5
  <2>. QED  BY <2>1, <2>2 DEF Part
<1>. DEFINE parts == [n \in DOMAIN order |-> Part(order[n], roots[order[n]])]
<1>6. /\ Listed(parts) /\ DOMAIN parts = DOMAIN order
      /\ \A n \in DOMAIN order : order[n] \in S /\ parts[n] = Part(order[n], roots[order[n]])
  BY DEF Names, Listed
<1>. HIDE DEF parts
<1>7. ASSUME name \in DOMAIN Merged(parts) PROVE t \in S /\ <<v, x>> \in DOMAIN roots[t]
  <2>1. PICK n \in DOMAIN parts : name \in DOMAIN parts[n]
    BY <1>7, MergedNames
  <2>. QED  BY <1>4, <1>6, <2>1
<1>8. ASSUME t \in S, <<v, x>> \in DOMAIN roots[t]
      PROVE  name \in DOMAIN Merged(parts) /\ Merged(parts)[name] = roots[t][<<v, x>>]
  <2>1. PICK n \in DOMAIN order : order[n] = t
    BY <1>8 DEF ToSet, Names
  <2>2. Agreed(parts, name, roots[t][<<v, x>>])
    BY <1>4, <1>5, <1>6 DEF Agreed
  <2>3. n \in DOMAIN parts /\ name \in DOMAIN parts[n]
    BY <1>5, <1>6, <1>8, <2>1
  <2>. QED  BY <1>6, <2>2, <2>3, MergedValue
<1>9. Rooted(order, roots) = Merged(parts)
  BY DEF Rooted, parts, Part
<1>. QED  BY <1>3, <1>7, <1>8, <1>9

-----------------------------------------------------------------------------
(* What each table gives the root objects *)

Verbs == {Insert, Update, Delete}

LEMMA VerbsDiffer ==
  /\ Verbs \subseteq Seq(Words) /\ {Plain} \subseteq Seq(Words)
  /\ \A v, w \in Verbs : Len(v) = Len(w)
  /\ Insert # Update /\ Insert # Delete /\ Update # Delete
<1>1. "insert" \in Words /\ "update" \in Words /\ "delete" \in Words
  BY Zenon DEF Words
<1>2. Insert \in Seq(Words) /\ Update \in Seq(Words) /\ Delete \in Seq(Words) /\ Plain \in Seq(Words)
  BY <1>1, OneWord DEF Insert, Update, Delete
<1>3. /\ Len(Insert) = 1 /\ Len(Update) = 1 /\ Len(Delete) = 1
      /\ Insert[1] = "insert" /\ Update[1] = "update" /\ Delete[1] = "delete"
  BY DEF Insert, Update, Delete
<1>. QED  BY <1>2, <1>3 DEF Verbs

LEMMA PairsDiffer ==
  ASSUME NEW a, NEW b, NEW c, NEW d
  PROVE  <<a, b>> = <<c, d>> <=> a = c /\ b = d
  OBVIOUS

LEMMA QueryRootsAre ==
  ASSUME NEW s, NEW askers, NEW t
  PROVE  LET roots == QueryRoots(s, askers, t)
         IN /\ DOMAIN roots \subseteq {Plain} \X Endings
            /\ <<Plain, Plain>> \in DOMAIN roots
            /\ roots[<<Plain, Plain>>] = ListField(s, t, OrderBy(s, askers, t))
            /\ <<Plain, Pk>> \in DOMAIN roots <=> HasKey(s, t)
            /\ HasKey(s, t) => roots[<<Plain, Pk>>] = ByPkField(s, t)
<1>. DEFINE roots == QueryRoots(s, askers, t)
<1>1. /\ <<Plain, Plain>>[2] = Plain /\ <<Plain, Pk>>[2] = Pk
      /\ <<Plain, Plain>> # <<Plain, Pk>> /\ <<Plain, Pk>> # <<Plain, <<"aggregate">>>>
  BY EndingsDiffer, PairsDiffer
<1>2. DOMAIN roots = {<<Plain, Plain>>, <<Plain, <<"aggregate">>>>}
                     \cup Keyed(s, t, {<<Plain, Pk>>})
  BY DEF QueryRoots
<1>3. DOMAIN roots \subseteq {Plain} \X Endings
  BY <1>2 DEF Keyed, Endings
<1>4. <<Plain, Pk>> \in DOMAIN roots <=> HasKey(s, t)
  BY <1>1, <1>2 DEF Keyed
<1>5. roots[<<Plain, Plain>>] = ListField(s, t, OrderBy(s, askers, t))
  BY <1>1, <1>2 DEF QueryRoots
<1>6. HasKey(s, t) => roots[<<Plain, Pk>>] = ByPkField(s, t)
  BY <1>1, <1>2, <1>4, EndingsDiffer DEF QueryRoots
<1>. QED  BY <1>2, <1>3, <1>4, <1>5, <1>6

LEMMA SubscriptionRootsAre ==
  ASSUME NEW s, NEW askers, NEW t
  PROVE  LET roots == SubscriptionRoots(s, askers, t)
         IN /\ DOMAIN roots \subseteq {Plain} \X Endings
            /\ <<Plain, Plain>> \in DOMAIN roots /\ <<Plain, <<"stream">>>> \in DOMAIN roots
            /\ roots[<<Plain, Plain>>] = ListField(s, t, OrderBy(s, askers, t))
            /\ roots[<<Plain, <<"stream">>>>].args = SetInput(s, t)
            /\ <<Plain, Pk>> \in DOMAIN roots <=> HasKey(s, t)
            /\ HasKey(s, t) => roots[<<Plain, Pk>>] = ByPkField(s, t)
<1>. DEFINE roots == SubscriptionRoots(s, askers, t)
<1>1. /\ <<Plain, Plain>>[2] = Plain /\ <<Plain, Pk>>[2] = Pk
      /\ <<Plain, <<"stream">>>>[2] = <<"stream">>
      /\ <<Plain, Plain>> # <<Plain, Pk>> /\ <<Plain, Pk>> # <<Plain, <<"stream">>>>
  BY EndingsDiffer, PairsDiffer
<1>2. DOMAIN roots = {<<Plain, Plain>>, <<Plain, <<"stream">>>>}
                     \cup Keyed(s, t, {<<Plain, Pk>>})
  BY DEF SubscriptionRoots
<1>3. DOMAIN roots \subseteq {Plain} \X Endings
  BY <1>2 DEF Keyed, Endings
<1>4. <<Plain, Pk>> \in DOMAIN roots <=> HasKey(s, t)
  BY <1>1, <1>2 DEF Keyed
<1>5. roots[<<Plain, Plain>>] = ListField(s, t, OrderBy(s, askers, t))
  BY <1>1, <1>2 DEF SubscriptionRoots
<1>6. HasKey(s, t) => roots[<<Plain, Pk>>] = ByPkField(s, t)
  BY <1>1, <1>2, <1>4, EndingsDiffer DEF SubscriptionRoots
<1>7. roots[<<Plain, <<"stream">>>>] =
        [kind |-> "stream", type |-> TypeOf(s, t), args |-> SetInput(s, t)]
  BY <1>1, <1>2, EndingsDiffer DEF SubscriptionRoots
<1>8. roots[<<Plain, <<"stream">>>>].args = SetInput(s, t)
  BY <1>7
<1>. QED  BY <1>2, <1>3, <1>4, <1>5, <1>6, <1>8

LEMMA MutationRootsAre ==
  ASSUME NEW s, NEW t
  PROVE  LET roots == MutationRoots(s, t)
         IN /\ DOMAIN roots \subseteq Verbs \X Endings
            /\ <<Insert, Plain>> \in DOMAIN roots /\ <<Update, Plain>> \in DOMAIN roots
            /\ roots[<<Insert, Plain>>].args = InsertInput(s, t)
            /\ roots[<<Update, Plain>>].change.set = SetInput(s, t)
            /\ <<Update, Pk>> \in DOMAIN roots <=> HasKey(s, t)
            /\ <<Delete, Pk>> \in DOMAIN roots <=> HasKey(s, t)
            /\ HasKey(s, t) =>
                 /\ roots[<<Update, Pk>>].args = PkColumnsInput(s, t)
                 /\ roots[<<Update, Pk>>].type = TypeOf(s, t)
                 /\ roots[<<Delete, Pk>>].args = PkArgs(s, t)
                 /\ roots[<<Delete, Pk>>].type = TypeOf(s, t)
<1>. DEFINE roots == MutationRoots(s, t)
            ip == <<Insert, Plain>>
            io == <<Insert, <<"one">>>>
            up == <<Update, Plain>>
            dp == <<Delete, Plain>>
            uk == <<Update, Pk>>
            dk == <<Delete, Pk>>
<1>1. /\ ip # io /\ up # ip /\ up # io /\ uk # ip /\ uk # io /\ uk # up /\ uk # dp
      /\ dk # ip /\ dk # io /\ dk # up /\ dk # uk /\ dk # dp
  BY EndingsDiffer, VerbsDiffer, PairsDiffer
<1>2. DOMAIN roots = {ip, io, up, dp} \cup Keyed(s, t, {uk, dk})
  BY DEF MutationRoots
<1>3. DOMAIN roots \subseteq Verbs \X Endings
  BY <1>2 DEF Keyed, Endings, Verbs
<1>. HIDE DEF ip, io, up, dp, uk, dk
<1>4. roots[ip].args = InsertInput(s, t)
  BY <1>1, <1>2 DEF MutationRoots, ip, io, up, dp, uk, dk
<1>5. roots[up].change.set = SetInput(s, t)
  BY <1>1, <1>2 DEF MutationRoots, ip, io, up, dp, uk, dk
<1>6. (uk \in DOMAIN roots <=> HasKey(s, t)) /\ (dk \in DOMAIN roots <=> HasKey(s, t))
  BY <1>1, <1>2 DEF Keyed
<1>7. ASSUME HasKey(s, t)
      PROVE  /\ roots[uk].args = PkColumnsInput(s, t) /\ roots[uk].type = TypeOf(s, t)
             /\ roots[dk].args = PkArgs(s, t) /\ roots[dk].type = TypeOf(s, t)
  <2>1. uk \in DOMAIN roots /\ dk \in DOMAIN roots
    BY <1>6, <1>7
  <2>2. roots[uk].args = PkColumnsInput(s, t) /\ roots[uk].type = TypeOf(s, t)
    BY <1>1, <2>1 DEF MutationRoots, ip, io, up, dp, uk, dk
  <2>3. roots[dk].args = PkArgs(s, t) /\ roots[dk].type = TypeOf(s, t)
    BY <1>1, <2>1 DEF MutationRoots, ip, io, up, dp, uk, dk
  <2>. QED  BY <2>2, <2>3
<1>. QED  BY <1>2, <1>3, <1>4, <1>5, <1>6, <1>7 DEF ip, up, uk, dk

-----------------------------------------------------------------------------
(* What is generated from a schema *)

\* The names of its columns differ and those of the key are marked; foreign keys are in
\* a list.
Shaped(s) ==
  /\ Tables(s) \cup Views(s) \subseteq Seq(Words) /\ Listed(s.fks)
  /\ \A t \in Tables(s) :
       /\ \A a, b \in Columns(s, t) : a.name = b.name => a = b
       /\ \A col \in Columns(s, t) : col.pk <=> col.name \in s.tables[t].key

Ranged(s, typeOrder, rootOrder, viewOrder) ==
  /\ typeOrder \in Orders(Tables(s)) /\ rootOrder \in Orders(Tables(s))
  /\ viewOrder \in Orders(Views(s))

LEMMA OrderIs ==
  ASSUME NEW S, NEW f \in Orders(S)
  PROVE  /\ Names(f, S) /\ Len(f) \in Nat /\ DOMAIN f = 1..Len(f)
         /\ \A n \in DOMAIN f : f[n] \in S
<1>1. f \in Seq(S) /\ ToSet(f) = S
  BY DEF Orders, Lists
<1>. QED  BY <1>1 DEF Names

LEMMA DistinctIs ==
  ASSUME NEW s, Shaped(s), NEW t \in Distinct(s)
  PROVE  /\ t \in Tables(s) /\ t \notin Views(s) /\ t \in Seq(Words)
         /\ Apart(t, Tables(s)) /\ Apart(t, Views(s))
         /\ \A u \in Tables(s) \cup Views(s) : Pascal(u) = Pascal(t) => u = t
  BY DEF Shaped, Distinct, Clash, Apart

LEMMA AskersAre ==
  ASSUME NEW s, Shaped(s), NEW typeOrder, NEW rootOrder, NEW viewOrder,
         Ranged(s, typeOrder, rootOrder, viewOrder)
  PROVE  LET askers == Askers(s, typeOrder, rootOrder, viewOrder)
         IN /\ DOMAIN askers \subseteq Nat
            /\ Len(typeOrder) + 1 \in DOMAIN askers /\ askers[Len(typeOrder) + 1] = rootOrder
            /\ \A m \in DOMAIN askers :
                 /\ DOMAIN askers[m] \subseteq Nat
                 /\ \A n \in DOMAIN askers[m] : askers[m][n] \in Tables(s) \cup Views(s)
<1>. DEFINE askers == Askers(s, typeOrder, rootOrder, viewOrder)
            last == Len(typeOrder) + 1
            arrays(t) == {n \in DOMAIN s.fks : \E rel \in Relations(s, t, s.fks[n]) : rel.array}
<1>1. /\ Len(typeOrder) \in Nat
      /\ DOMAIN rootOrder \subseteq Nat /\ \A n \in DOMAIN rootOrder : rootOrder[n] \in Tables(s)
      /\ DOMAIN viewOrder \subseteq Nat /\ \A n \in DOMAIN viewOrder : viewOrder[n] \in Views(s)
  BY OrderIs DEF Ranged
<1>2. DOMAIN askers = 1..(Len(typeOrder) + 2)
  BY DEF Askers
<1>3. askers[last] = rootOrder
  BY <1>1 DEF Askers
<1>4. askers[last + 1] = viewOrder
  BY <1>1 DEF Askers
<1>5. ASSUME NEW m \in 1..Len(typeOrder)
      PROVE  askers[m] = [n \in arrays(typeOrder[m]) |-> s.fks[n].source]
  BY <1>1 DEF Askers
<1>. HIDE DEF askers
<1>6. ASSUME NEW t, NEW n \in arrays(t) PROVE n \in Nat /\ s.fks[n].source \in Tables(s)
  <2>1. PICK rel \in Relations(s, t, s.fks[n]) : rel.array
    OBVIOUS
  <2>2. rel.to = s.fks[n].source /\ rel.to \in Tables(s)
    BY <2>1 DEF Relations, Relationships
  <2>. QED  BY <2>2 DEF Shaped, Listed
<1>. HIDE DEF arrays
<1>7. ASSUME NEW m \in DOMAIN askers
      PROVE  /\ DOMAIN askers[m] \subseteq Nat
             /\ \A n \in DOMAIN askers[m] : askers[m][n] \in Tables(s) \cup Views(s)
  <2>1. CASE m \in 1..Len(typeOrder)
    <3>1. PICK A : A = arrays(typeOrder[m])
      OBVIOUS
    <3>2. askers[m] = [n \in A |-> s.fks[n].source]
      BY <1>5, <2>1, <3>1
    <3>3. \A n \in A : n \in Nat /\ s.fks[n].source \in Tables(s)
      BY <1>6, <3>1
    <3>. QED  BY <3>2, <3>3
  <2>2. CASE m = last
    BY <1>1, <1>3, <2>2
  <2>3. CASE m = last + 1
    BY <1>1, <1>4, <2>3
  <2>. QED  BY <1>1, <1>2, <2>1, <2>2, <2>3
<1>8. last \in DOMAIN askers /\ DOMAIN askers \subseteq Nat
  BY <1>1, <1>2
<1>. QED  BY <1>3, <1>7, <1>8 DEF askers

\* A table whose name no other has is sorted by its own columns.
LEMMA OwnOrderBy ==
  ASSUME NEW s, Shaped(s), NEW typeOrder, NEW rootOrder, NEW viewOrder,
         Ranged(s, typeOrder, rootOrder, viewOrder), NEW t \in Distinct(s)
  PROVE  OrderBy(s, Askers(s, typeOrder, rootOrder, viewOrder), t) = Named(Columns(s, t))
<1>. DEFINE askers == Askers(s, typeOrder, rootOrder, viewOrder)
            asks(m) == {n \in DOMAIN askers[m] : Pascal(askers[m][n]) = Pascal(t)}
            asked == {m \in DOMAIN askers : asks(m) # {}}
            last == Len(typeOrder) + 1
<1>1. /\ DOMAIN askers \subseteq Nat /\ last \in DOMAIN askers /\ askers[last] = rootOrder
      /\ \A m \in DOMAIN askers :
           /\ DOMAIN askers[m] \subseteq Nat
           /\ \A n \in DOMAIN askers[m] : askers[m][n] \in Tables(s) \cup Views(s)
  BY AskersAre
<1>. HIDE DEF askers
<1>2. PICK n \in DOMAIN rootOrder : rootOrder[n] = t
  BY DistinctIs, OrderIs DEF Ranged, Names, ToSet
<1>3. last \in asked
  BY <1>1, <1>2
<1>4. Min(asked) \in asked
  BY <1>1, <1>3, LeastExists
<1>. DEFINE m == Min(asked)
<1>. HIDE DEF asked
<1>5. m \in DOMAIN askers /\ asks(m) # {} /\ asks(m) \subseteq Nat
  BY <1>1, <1>4 DEF asked
<1>6. Min(asks(m)) \in asks(m)
  BY <1>5, LeastExists
<1>. DEFINE first == askers[m][Min(asks(m))]
<1>7. first = t
  BY <1>1, <1>5, <1>6, DistinctIs
<1>8. OrderBy(s, askers, t) = IF first \in Tables(s) THEN Named(Columns(s, first)) ELSE {}
  BY DEF OrderBy, asked
<1>. QED  BY <1>7, <1>8, DistinctIs DEF askers

\* Each root object has the fields of a table whose name no other has.
Serving(fields, roots, t, V) ==
  \A v \in V, x \in Endings :
    /\ Root(v, t, x) \in DOMAIN fields <=> <<v, x>> \in DOMAIN roots
    /\ <<v, x>> \in DOMAIN roots => fields[Root(v, t, x)] = roots[<<v, x>>]

LEMMA QueryServes ==
  ASSUME NEW s, Shaped(s), NEW typeOrder, NEW rootOrder, NEW viewOrder,
         Ranged(s, typeOrder, rootOrder, viewOrder), NEW t \in Distinct(s), NEW askers
  PROVE  Serving(generateQueryFields(s, askers, rootOrder, viewOrder),
                 QueryRoots(s, askers, t), t, {Plain})
<1>. DEFINE ofTables == [u \in Tables(s) |-> QueryRoots(s, askers, u)]
            ofViews == [v \in Views(s) |->
                          [r \in {<<Plain, Plain>>} |-> ListField(s, v, OrderBy(s, askers, v))]]
            a == Rooted(rootOrder, ofTables)
            b == Rooted(viewOrder, ofViews)
<1>1. /\ t \in Tables(s) /\ t \notin Views(s) /\ t \in Seq(Words)
      /\ Apart(t, Tables(s)) /\ Apart(t, Views(s))
  BY DistinctIs
<1>2. Roots(ofTables, Tables(s), {Plain})
  BY QueryRootsAre, VerbsDiffer DEF Roots, Shaped
<1>3. Roots(ofViews, Views(s), {Plain})
  BY VerbsDiffer DEF Roots, Shaped, Endings
<1>4. Names(rootOrder, Tables(s)) /\ Names(viewOrder, Views(s))
  BY OrderIs DEF Ranged
<1>5. ofTables[t] = QueryRoots(s, askers, t)
  BY <1>1
<1>. HIDE DEF ofTables, ofViews
<1>6. ASSUME NEW x \in Endings
      PROVE  /\ Root(Plain, t, x) \in DOMAIN a <=> <<Plain, x>> \in DOMAIN ofTables[t]
             /\ <<Plain, x>> \in DOMAIN ofTables[t] =>
                  a[Root(Plain, t, x)] = ofTables[t][<<Plain, x>>]
             /\ Root(Plain, t, x) \notin DOMAIN b
  BY <1>1, <1>2, <1>3, <1>4, RootsServed
<1>. HIDE DEF a, b
<1>7. Serving(Merged(<<a, b>>), ofTables[t], t, {Plain})
  BY <1>6, MergedTwo DEF Serving
<1>. QED  BY <1>5, <1>7 DEF generateQueryFields, a, b, ofTables, ofViews

LEMMA SubscriptionServes ==
  ASSUME NEW s, Shaped(s), NEW typeOrder, NEW rootOrder, NEW viewOrder,
         Ranged(s, typeOrder, rootOrder, viewOrder), NEW t \in Distinct(s), NEW askers
  PROVE  Serving(generateSubscriptionFields(s, askers, rootOrder),
                 SubscriptionRoots(s, askers, t), t, {Plain})
<1>. DEFINE roots == [u \in Tables(s) |-> SubscriptionRoots(s, askers, u)]
<1>1. t \in Tables(s) /\ t \in Seq(Words) /\ Apart(t, Tables(s))
  BY DistinctIs
<1>2. Roots(roots, Tables(s), {Plain})
  BY SubscriptionRootsAre, VerbsDiffer DEF Roots, Shaped
<1>3. Names(rootOrder, Tables(s))
  BY OrderIs DEF Ranged
<1>4. roots[t] = SubscriptionRoots(s, askers, t)
  BY <1>1
<1>. HIDE DEF roots
<1>5. Serving(Rooted(rootOrder, roots), roots[t], t, {Plain})
  BY <1>1, <1>2, <1>3, RootsServed DEF Serving
<1>. QED  BY <1>4, <1>5 DEF generateSubscriptionFields, roots

LEMMA MutationServes ==
  ASSUME NEW s, Shaped(s), NEW typeOrder, NEW rootOrder, NEW viewOrder,
         Ranged(s, typeOrder, rootOrder, viewOrder), NEW t \in Distinct(s)
  PROVE  Serving(generateMutationFields(s, rootOrder), MutationRoots(s, t), t, Verbs)
<1>. DEFINE roots == [u \in Tables(s) |-> MutationRoots(s, u)]
<1>1. t \in Tables(s) /\ t \in Seq(Words) /\ Apart(t, Tables(s))
  BY DistinctIs
<1>2. Roots(roots, Tables(s), Verbs)
  BY MutationRootsAre, VerbsDiffer DEF Roots, Shaped
<1>3. Names(rootOrder, Tables(s))
  BY OrderIs DEF Ranged
<1>4. roots[t] = MutationRoots(s, t)
  BY <1>1
<1>. HIDE DEF roots
<1>5. ASSUME NEW v \in Verbs, NEW x \in Endings
      PROVE  /\ Root(v, t, x) \in DOMAIN Rooted(rootOrder, roots) <=> <<v, x>> \in DOMAIN roots[t]
             /\ <<v, x>> \in DOMAIN roots[t] =>
                  Rooted(rootOrder, roots)[Root(v, t, x)] = roots[t][<<v, x>>]
  BY <1>1, <1>2, <1>3, RootsServed
<1>6. Serving(Rooted(rootOrder, roots), roots[t], t, Verbs)
  BY <1>5, Zenon DEF Serving
<1>. QED  BY <1>4, <1>6 DEF generateMutationFields, roots

-----------------------------------------------------------------------------
(* What the arguments of the fields are *)

\* The column with a name.
LEMMA OwnColumn ==
  ASSUME NEW s, Shaped(s), NEW t \in Tables(s), NEW col \in Columns(s, t)
  PROVE  Column(s, t, col.name) = col /\ col.name \in Named(Columns(s, t))
  BY DEF Shaped, Column, Named

LEMMA KeyIsMarked ==
  ASSUME NEW s, Shaped(s), NEW t \in Tables(s)
  PROVE  LET key == Named(Columns(s, t)) \cap s.tables[t].key
         IN /\ Named(Marked(s, t)) = key
            /\ HasKey(s, t) <=> key # {}
<1>1. Marked(s, t) = {col \in Columns(s, t) : col.name \in s.tables[t].key}
  BY DEF Marked, Shaped
<1>2. Named(Marked(s, t)) = Named(Columns(s, t)) \cap s.tables[t].key
  BY <1>1 DEF Named
<1>. QED  BY <1>1, <1>2 DEF HasKey, Named

\* Geometry apart, what is read is what is written.
LEMMA SameType ==
  ASSUME NEW s, NEW col, col.sql \notin Geometric
  PROVE  sqlTypeToGraphQL(s, col) = sqlTypeToGraphQLInput(s, col)
  BY DEF sqlTypeToGraphQL, sqlTypeToGraphQLInput

LEMMA NonNullIs ==
  ASSUME NEW s, NEW col, NEW scalar
  PROVE  LET type == OfColumn(s, col, scalar)
         IN NonNull(type).base = type.base /\ NonNull(type).list = type.list
  BY DEF NonNull, OfColumn

LEMMA KeysServed ==
  ASSUME NEW s, Shaped(s), NEW t \in Tables(s), NEW g, NEW askers,
         Serving(g.query, QueryRoots(s, askers, t), t, {Plain}),
         Serving(g.subscription, SubscriptionRoots(s, askers, t), t, {Plain}),
         Serving(g.mutation, MutationRoots(s, t), t, Verbs)
  PROVE  KeysAgree(s, g, t)
<1>. DEFINE p == Root(Plain, t, Pk)
            u == Root(Update, t, Pk)
            d == Root(Delete, t, Pk)
            key == Named(Columns(s, t)) \cap s.tables[t].key
            plain == {name \in key : Column(s, t, name).sql \notin Geometric}
            there == {f \in KeyedFields(g, t) : f[2] \in DOMAIN f[1]}
<1>1. Pk \in Endings /\ Update \in Verbs /\ Delete \in Verbs /\ Plain \in {Plain}
  BY DEF Endings, Verbs
<1>2. /\ p \in DOMAIN g.query <=> HasKey(s, t)
      /\ HasKey(s, t) => g.query[p] = ByPkField(s, t)
  BY <1>1, QueryRootsAre DEF Serving
<1>3. /\ p \in DOMAIN g.subscription <=> HasKey(s, t)
      /\ HasKey(s, t) => g.subscription[p] = ByPkField(s, t)
  BY <1>1, SubscriptionRootsAre DEF Serving
<1>4. /\ u \in DOMAIN g.mutation <=> HasKey(s, t)
      /\ d \in DOMAIN g.mutation <=> HasKey(s, t)
      /\ HasKey(s, t) =>
           /\ g.mutation[u].args = PkColumnsInput(s, t) /\ g.mutation[u].type = TypeOf(s, t)
           /\ g.mutation[d].args = PkArgs(s, t) /\ g.mutation[d].type = TypeOf(s, t)
  BY <1>1, MutationRootsAre DEF Serving
<1>5. Named(Marked(s, t)) = key /\ (HasKey(s, t) <=> key # {})
  BY KeyIsMarked
<1>6. DOMAIN PkArgs(s, t) = key /\ DOMAIN PkColumnsInput(s, t) = key
  BY <1>5 DEF PkArgs, PkColumnsInput
<1>7. ASSUME NEW name \in plain PROVE PkArgs(s, t)[name] = PkColumnsInput(s, t)[name]
  BY <1>5, SameType DEF PkArgs, PkColumnsInput
<1>8. ByPkField(s, t).args = PkArgs(s, t) /\ ByPkField(s, t).type = TypeOf(s, t)
  BY DEF ByPkField
<1>9. TypeOf(s, t).of = t
  BY DEF TypeOf
<1>. DEFINE pairs == {<<g.query, p>>, <<g.subscription, p>>, <<g.mutation, u>>, <<g.mutation, d>>}
<1>10. KeyedFields(g, t) = pairs
  BY DEF KeyedFields
<1>. HIDE DEF p, u, d, key, plain
<1>11. ASSUME NEW f \in pairs PROVE f[2] \in DOMAIN f[1] <=> key # {}
  BY <1>2, <1>3, <1>4, <1>5
<1>12. there = IF key = {} THEN {} ELSE KeyedFields(g, t)
  BY <1>10, <1>11
<1>13. ASSUME NEW f \in there
       PROVE  /\ f[1][f[2]].args \in {PkArgs(s, t), PkColumnsInput(s, t)}
              /\ f[1][f[2]].type = TypeOf(s, t)
  <2>1. f \in pairs /\ HasKey(s, t)
    BY <1>5, <1>10, <1>11
  <2>. QED  BY <1>2, <1>3, <1>4, <1>8, <2>1
<1>. DEFINE fields == {f[1][f[2]] : f \in there}
<1>14. \A h \in fields : h.args \in {PkArgs(s, t), PkColumnsInput(s, t)} /\ h.type = TypeOf(s, t)
  <2>. HIDE DEF there
  <2>. QED  BY <1>13
<1>15. \A h \in fields : DOMAIN h.args = key /\ h.type.of = t
  <2>. HIDE DEF fields
  <2>. QED  BY <1>6, <1>9, <1>14
<1>16. \A f, h \in fields : \A name \in plain : f.args[name] = h.args[name]
  <2>. HIDE DEF fields
  <2>. QED  BY <1>7, <1>14
<1>. QED  BY <1>12, <1>15, <1>16, Zenon DEF KeysAgree, plain, key

-----------------------------------------------------------------------------
(* The fields of an object type *)

FieldOf(rel) ==
  [kind |-> IF rel.array THEN "array" ELSE "object", type |-> [of |-> rel.to, kind |-> "table"]]

AllRelations(s, t) == Merged([n \in DOMAIN s.fks |-> RelationFields(s, t, s.fks[n])])

LEMMA RelationFieldIs ==
  ASSUME NEW s, NEW t, NEW fk, NEW name \in DOMAIN RelationFields(s, t, fk)
  PROVE  \E rel \in Relations(s, t, fk) :
           rel.name = name /\ RelationFields(s, t, fk)[name] = FieldOf(rel)
<1>. DEFINE rels == Relations(s, t, fk)
            last == CHOOSE rel \in rels :
              rel.name = name /\ \A other \in rels : other.name = name /\ other.array => rel.array
<1>1. name \in {rel.name : rel \in rels}
  BY DEF RelationFields
<1>2. \E rel \in rels :
        rel.name = name /\ \A other \in rels : other.name = name /\ other.array => rel.array
  <2>. HIDE DEF rels
  <2>1. CASE \E rel \in rels : rel.name = name /\ rel.array
    BY <2>1
  <2>2. CASE ~ \E rel \in rels : rel.name = name /\ rel.array
    BY <1>1, <2>2
  <2>. QED  BY <2>1, <2>2
<1>3. last \in rels /\ last.name = name
  <2>. HIDE DEF rels
  <2>. QED  BY <1>2
<1>4. RelationFields(s, t, fk)[name] = FieldOf(last)
  BY <1>1 DEF RelationFields, FieldOf
<1>. QED  BY <1>3, <1>4

LEMMA RelationNames ==
  ASSUME NEW s, NEW t, NEW fk, NEW rel \in Relations(s, t, fk)
  PROVE  rel.name \in DOMAIN RelationFields(s, t, fk)
  BY DEF RelationFields

LEMMA AllRelationsAre ==
  ASSUME NEW s, Shaped(s), NEW t, NEW name \in DOMAIN AllRelations(s, t)
  PROVE  \E rel : rel.to \in Tables(s) /\ AllRelations(s, t)[name] = FieldOf(rel)
<1>. DEFINE parts == [n \in DOMAIN s.fks |-> RelationFields(s, t, s.fks[n])]
<1>1. Listed(parts)
  BY DEF Shaped, Listed
<1>2. PICK n \in DOMAIN parts : name \in DOMAIN parts[n] /\ Merged(parts)[name] = parts[n][name]
  <2>1. name \in DOMAIN Merged(parts)
    BY DEF AllRelations
  <2>. HIDE DEF parts
  <2>. QED  BY <1>1, <2>1, MergedFrom
<1>3. PICK rel \in Relations(s, t, s.fks[n]) : RelationFields(s, t, s.fks[n])[name] = FieldOf(rel)
  BY <1>2, RelationFieldIs
<1>. QED  BY <1>2, <1>3 DEF AllRelations, Relations

\* The only relationship of its name is a field, if its target has a type.
LEMMA OnlyRelation ==
  ASSUME NEW s, Shaped(s), NEW t, NEW n \in DOMAIN s.fks, NEW rel \in Relations(s, t, s.fks[n]),
         \A m \in DOMAIN s.fks : \A other \in Relationships(t, s.fks[m]) :
           other.name = rel.name => other = rel
  PROVE  rel.name \in DOMAIN AllRelations(s, t) /\ AllRelations(s, t)[rel.name] = FieldOf(rel)
<1>. DEFINE parts == [m \in DOMAIN s.fks |-> RelationFields(s, t, s.fks[m])]
            name == rel.name
<1>1. Listed(parts) /\ DOMAIN parts = DOMAIN s.fks
  BY DEF Shaped, Listed
<1>2. ASSUME NEW m \in DOMAIN s.fks, name \in DOMAIN RelationFields(s, t, s.fks[m])
      PROVE  RelationFields(s, t, s.fks[m])[name] = FieldOf(rel)
  <2>1. PICK other \in Relations(s, t, s.fks[m]) :
          other.name = name /\ RelationFields(s, t, s.fks[m])[name] = FieldOf(other)
    BY <1>2, RelationFieldIs
  <2>2. other = rel
    BY <2>1 DEF Relations
  <2>. QED  BY <2>1, <2>2
<1>3. Agreed(parts, name, FieldOf(rel))
  BY <1>1, <1>2 DEF Agreed
<1>4. n \in DOMAIN parts /\ name \in DOMAIN parts[n]
  BY RelationNames
<1>. HIDE DEF parts, name
<1>5. name \in DOMAIN Merged(parts) /\ Merged(parts)[name] = FieldOf(rel)
  BY <1>1, <1>3, <1>4, MergedValue
<1>. QED  BY <1>5 DEF AllRelations, parts, name

LEMMA FieldsAre ==
  ASSUME NEW s, NEW t, NEW name
  PROVE  /\ name \in DOMAIN AllRelations(s, t) => TableFields(s, t)[name] = AllRelations(s, t)[name]
         /\ name \in DOMAIN TableFields(s, t) /\ name \notin DOMAIN AllRelations(s, t) =>
              /\ name \in Named(Columns(s, t))
              /\ TableFields(s, t)[name] = ColumnFields(s, t)[name]
         /\ name \in Named(Columns(s, t)) => name \in DOMAIN TableFields(s, t)
<1>1. DOMAIN ColumnFields(s, t) = Named(Columns(s, t))
  BY DEF ColumnFields
<1>2. TableFields(s, t) = Merged(<<ColumnFields(s, t), AllRelations(s, t)>>)
  BY DEF TableFields, AllRelations
<1>. QED  BY <1>1, <1>2, MergedTwo

LEMMA ColumnFieldIs ==
  ASSUME NEW s, Shaped(s), NEW t \in Tables(s), NEW col \in Columns(s, t)
  PROVE  LET field == ColumnFields(s, t)[col.name]
         IN /\ field.kind = "column"
            /\ field.type.base = sqlTypeToGraphQL(s, col).base
            /\ field.type.list = sqlTypeToGraphQL(s, col).list
<1>1. PICK type : type = sqlTypeToGraphQL(s, col)
  OBVIOUS
<1>2. NonNull(type).base = type.base /\ NonNull(type).list = type.list
  BY <1>1, NonNullIs DEF sqlTypeToGraphQL
<1>3. ColumnFields(s, t)[col.name] =
        [kind |-> "column", type |-> IF col.nullable THEN type ELSE NonNull(type)]
  BY <1>1, OwnColumn DEF ColumnFields
<1>. QED  BY <1>1, <1>2, <1>3

LEMMA ColumnsServed ==
  ASSUME NEW s, Shaped(s), NEW t \in Tables(s), NEW g, NEW askers,
         g.objects[t] = TableFields(s, t),
         Serving(g.subscription, SubscriptionRoots(s, askers, t), t, {Plain}),
         Serving(g.mutation, MutationRoots(s, t), t, Verbs)
  PROVE  ColumnsAgree(s, g, t)
<1>1. /\ Plain \in Endings /\ <<"stream">> \in Endings
      /\ Insert \in Verbs /\ Update \in Verbs /\ Plain \in {Plain}
  BY DEF Endings, Verbs
<1>2. g.mutation[Root(Insert, t, Plain)].args = InsertInput(s, t)
  BY <1>1, MutationRootsAre DEF Serving
<1>3. g.mutation[Root(Update, t, Plain)].change.set = SetInput(s, t)
  BY <1>1, MutationRootsAre DEF Serving
<1>4. g.subscription[Root(Plain, t, <<"stream">>)].args = SetInput(s, t)
  BY <1>1, SubscriptionRootsAre DEF Serving
<1>5. ASSUME NEW col \in Columns(s, t), NEW field, field = TableFields(s, t)[col.name],
             field.kind = "column", col.sql \notin Geometric,
             NEW input \in {InsertInput(s, t)[col.name], SetInput(s, t)[col.name]}
      PROVE  input.base = field.type.base /\ input.list = field.type.list
  <2>1. PICK type : type = sqlTypeToGraphQL(s, col) /\ type = sqlTypeToGraphQLInput(s, col)
    BY <1>5, SameType
  <2>2. Column(s, t, col.name) = col /\ col.name \in Named(Columns(s, t))
    BY OwnColumn
  <2>3. NonNull(type).base = type.base /\ NonNull(type).list = type.list
    BY <2>1, NonNullIs DEF sqlTypeToGraphQL
  <2>4. input = type \/ input = NonNull(type)
    BY <1>5, <2>1, <2>2 DEF InsertInput, SetInput
  <2>5. col.name \notin DOMAIN AllRelations(s, t)
    <3>1. ASSUME col.name \in DOMAIN AllRelations(s, t) PROVE FALSE
      <4>1. PICK rel : field = FieldOf(rel)
        BY <1>5, <3>1, AllRelationsAre, FieldsAre
      <4>. QED  BY <1>5, <4>1 DEF FieldOf
    <3>. QED  BY <3>1
  <2>6. field = ColumnFields(s, t)[col.name]
    BY <1>5, <2>2, <2>5, FieldsAre
  <2>7. field.type.base = type.base /\ field.type.list = type.list
    BY <2>1, <2>6, ColumnFieldIs
  <2>. QED  BY <2>3, <2>4, <2>7
<1>. QED  BY <1>2, <1>3, <1>4, <1>5, Zenon DEF ColumnsAgree

\* All the relationships of t that have one name.
Claims(s, t, name) ==
  {rel \in UNION {Relationships(t, fk) : fk \in ToSet(s.fks)} : rel.name = name}

LEMMA RelationLeads ==
  ASSUME NEW s, Shaped(s), NEW t, NEW fk \in ToSet(s.fks), NEW rel \in Relations(s, t, fk),
         Claims(s, t, rel.name) = {rel}
  PROVE  TableFields(s, t)[rel.name] = FieldOf(rel)
<1>1. PICK n \in DOMAIN s.fks : fk = s.fks[n]
  BY DEF ToSet
<1>2. \A m \in DOMAIN s.fks : \A other \in Relationships(t, s.fks[m]) :
        other.name = rel.name => other = rel
  BY DEF Claims, ToSet
<1>. QED  BY <1>1, <1>2, OnlyRelation, FieldsAre

LEMMA RelationsServed ==
  ASSUME NEW s, Shaped(s), NEW t \in Tables(s), NEW g, DOMAIN g.objects = Tables(s),
         g.objects[t] = TableFields(s, t)
  PROVE  RelationsLead(s, g, t)
<1>1. ASSUME NEW fk \in ToSet(s.fks), fk.target \in Tables(s), fk.source = t, NEW name,
             name = generateRelationshipName(fk.target, fk.column), NEW rel,
             rel = [name |-> name, array |-> FALSE, to |-> fk.target], Claims(s, t, name) = {rel}
      PROVE  g.objects[t][name] = [kind |-> "object", type |-> [of |-> fk.target, kind |-> "table"]]
  <2>1. rel \in Relations(s, t, fk)
    BY <1>1 DEF Relations, Relationships
  <2>2. rel.name = name /\ Claims(s, t, rel.name) = {rel}
    BY <1>1
  <2>3. TableFields(s, t)[rel.name] = FieldOf(rel)
    BY <2>1, <2>2, RelationLeads
  <2>. QED  BY <1>1, <2>2, <2>3 DEF FieldOf
<1>2. ASSUME NEW fk \in ToSet(s.fks), fk.source \in Tables(s), fk.target = t, NEW name,
             name = Plural(fk.source), NEW rel,
             rel = [name |-> name, array |-> TRUE, to |-> fk.source], Claims(s, t, name) = {rel}
      PROVE  g.objects[t][name] = [kind |-> "array", type |-> [of |-> fk.source, kind |-> "table"]]
  <2>1. rel \in Relations(s, t, fk)
    BY <1>2 DEF Relations, Relationships
  <2>2. rel.name = name /\ Claims(s, t, rel.name) = {rel}
    BY <1>2
  <2>3. TableFields(s, t)[rel.name] = FieldOf(rel)
    BY <2>1, <2>2, RelationLeads
  <2>. QED  BY <1>2, <2>2, <2>3 DEF FieldOf
<1>3. ASSUME NEW name \in DOMAIN g.objects[t], g.objects[t][name].kind # "column"
      PROVE  g.objects[t][name].type.of \in DOMAIN g.objects
  <2>1. CASE name \in DOMAIN AllRelations(s, t)
    <3>1. PICK rel : rel.to \in Tables(s) /\ AllRelations(s, t)[name] = FieldOf(rel)
      BY <2>1, AllRelationsAre
    <3>. QED  BY <2>1, <3>1, FieldsAre DEF FieldOf
  <2>2. CASE name \notin DOMAIN AllRelations(s, t)
    <3>1. PICK col \in Columns(s, t) : col.name = name
      BY <2>2, FieldsAre DEF Named
    <3>. QED  BY <1>3, <2>2, <3>1, FieldsAre, ColumnFieldIs
  <2>. QED  BY <2>1, <2>2
<1>4. ASSUME NEW fk \in ToSet(s.fks), {fk.source, fk.target} \subseteq Tables(s)
      PROVE  /\ fk.source = t =>
                  (Claims(s, t, generateRelationshipName(fk.target, fk.column)) =
                     {[name |-> generateRelationshipName(fk.target, fk.column),
                       array |-> "object" = "array", to |-> fk.target]} =>
                   g.objects[t][generateRelationshipName(fk.target, fk.column)] =
                     [kind |-> "object", type |-> [of |-> fk.target, kind |-> "table"]])
             /\ fk.target = t =>
                  (Claims(s, t, Plural(fk.source)) =
                     {[name |-> Plural(fk.source), array |-> "array" = "array", to |-> fk.source]} =>
                   g.objects[t][Plural(fk.source)] =
                     [kind |-> "array", type |-> [of |-> fk.source, kind |-> "table"]])
  <2>1. ("object" = "array") = FALSE /\ ("array" = "array") = TRUE
    OBVIOUS
  <2>. QED  BY <1>1, <1>2, <1>4, <2>1
<1>. QED  BY <1>3, <1>4, Zenon DEF RelationsLead, Claims

\* What a table gets whose field names no other claims.
LEMMA TableServed ==
  ASSUME NEW s, Shaped(s), NEW typeOrder, NEW rootOrder, NEW viewOrder,
         Ranged(s, typeOrder, rootOrder, viewOrder), NEW t \in Distinct(s)
  PROVE  Serves(s, Generate(s, typeOrder, rootOrder, viewOrder), t)
<1>. DEFINE askers == Askers(s, typeOrder, rootOrder, viewOrder)
            g == Generate(s, typeOrder, rootOrder, viewOrder)
<1>1. /\ g.query = generateQueryFields(s, askers, rootOrder, viewOrder)
      /\ g.subscription = generateSubscriptionFields(s, askers, rootOrder)
      /\ g.mutation = generateMutationFields(s, rootOrder)
      /\ g.objects = [u \in Tables(s) |-> TableFields(s, u)]
  BY DEF Generate
<1>2. OrderBy(s, askers, t) = Named(Columns(s, t))
  BY OwnOrderBy
<1>3. t \in Tables(s) /\ t \in Seq(Words)
  BY DistinctIs
<1>. HIDE DEF askers, g
<1>4. Serving(g.query, QueryRoots(s, askers, t), t, {Plain})
  BY <1>1, QueryServes
<1>5. Serving(g.subscription, SubscriptionRoots(s, askers, t), t, {Plain})
  BY <1>1, SubscriptionServes
<1>6. Serving(g.mutation, MutationRoots(s, t), t, Verbs)
  BY <1>1, MutationServes
<1>7. DOMAIN g.objects = Tables(s) /\ g.objects[t] = TableFields(s, t)
  BY <1>1, <1>3
<1>8. Root(Plain, t, Plain) = t /\ Plain \in Endings
  BY <1>3, ConcatEmptySeq DEF Root, Plain, Endings
<1>9. g.query[t] = ListField(s, t, OrderBy(s, askers, t))
  BY <1>4, <1>8, QueryRootsAre DEF Serving
<1>10. g.subscription[t] = ListField(s, t, OrderBy(s, askers, t))
  BY <1>5, <1>8, SubscriptionRootsAre DEF Serving
<1>11. /\ g.query[t].orderBy = Named(Columns(s, t))
       /\ g.subscription[t].orderBy = Named(Columns(s, t))
  BY <1>2, <1>9, <1>10 DEF ListField
<1>12. KeysAgree(s, g, t)
  BY <1>3, <1>4, <1>5, <1>6, KeysServed
<1>13. ColumnsAgree(s, g, t)
  BY <1>3, <1>5, <1>6, <1>7, ColumnsServed
<1>14. RelationsLead(s, g, t)
  BY <1>3, <1>7, RelationsServed
<1>. QED  BY <1>11, <1>12, <1>13, <1>14 DEF Serves, g

-----------------------------------------------------------------------------
(* The inductive invariant *)

TableQueries == {"columns", "key", "indexes"}
Queries == {"enums", "tables", "views", "viewColumns", "fks", "functions", "sequences"}
           \cup TableQueries

\* e.mu: one reload at a time is at a query.
OneReload ==
  /\ reload \in [Reloads -> {"idle", "asking", "running"}]
  /\ \A q, r \in Reloads : reload[q] = "running" /\ reload[r] = "running" => q = r
  /\ at \in Queries \cup {"none", "generate"}
  /\ at = "none" <=> \A r \in Reloads : reload[r] # "running"

\* A reload has begun when its first query has been answered.
Begun ==
  /\ catalog \in DOMAIN Catalogs
  /\ begun \in DOMAIN Catalogs \cup {"none", "torn"}
  /\ installed \in DOMAIN Catalogs \cup {"torn"}
  /\ begun = "none" <=> at \in {"none", "enums"}
  /\ at \in {"none", "enums"} => work = Nothing

Table(db, t) == Mark(Unkeyed(ReadColumns(db, t)), ReadKey(db, t))

\* Tables whose columns have not been read.
Ahead == IF at = "columns" THEN ToSet(todo) ELSE ToSet(Tail(todo))

TablesSoFar(db) ==
  /\ Lists(todo, ToSet(todo)) /\ ToSet(todo) \subseteq DOMAIN db.tables
  /\ at # "columns" => todo # << >>
  /\ work.tables = [t \in DOMAIN db.tables \ Ahead |->
                      IF at = "key" /\ t = Head(todo) THEN Unkeyed(ReadColumns(db, t))
                      ELSE Table(db, t)]

ViewsSoFar(db) ==
  /\ Lists(todo, ToSet(todo)) /\ ToSet(todo) \subseteq DOMAIN db.views
  /\ work.views = [v \in DOMAIN db.views \ ToSet(todo) |-> ReadColumns(db, v)]

AllTables(db) == [t \in DOMAIN db.tables |-> Table(db, t)]
AllViews(db) == [v \in DOMAIN db.views |-> ReadColumns(db, v)]

\* What a reload has built when all its queries have seen db.
SoFar(db) ==
  /\ work = [tables |-> work.tables, views |-> work.views, fks |-> work.fks, enums |-> db.enums]
  /\ at = "tables" => work.tables = << >>
  /\ at \in TableQueries => TablesSoFar(db)
  /\ at \in {"tables", "views"} \cup TableQueries => work.views = << >>
  /\ at \notin {"tables"} \cup TableQueries => work.tables = AllTables(db)
  /\ at = "viewColumns" => ViewsSoFar(db)
  /\ at \in {"fks", "functions", "sequences"} => work.views = AllViews(db)
  /\ at \in {"functions", "sequences"} => work.fks \in ReadForeign(db)

Reading == begun \in DOMAIN Catalogs /\ at # "generate" => SoFar(Catalogs[begun])

\* The parts of the engine, and the database they were made from.
Installed ==
  /\ installed # "torn" => dbSchema \in Schemas(Catalogs[installed])
  /\ resolver = dbSchema
  /\ graphqlSchema = dbSchema \/ at = "generate" \/ refused

Inv == OneReload /\ Begun /\ Reading /\ Installed

LEMMA InvInit == Init => Inv
<1>. SUFFICES ASSUME Init PROVE Inv
  OBVIOUS
<1>1. catalog \in DOMAIN Catalogs /\ {"none", "torn"} \cap DOMAIN Catalogs = {}
  BY CatalogsAssumption DEF CatalogsAssumption, Init
<1>2. OneReload
  BY DEF Init, OneReload
<1>3. Begun /\ Reading
  BY <1>1 DEF Init, Begun, Reading
<1>4. Installed
  BY <1>1 DEF Init, Installed, Db
<1>. QED  BY <1>2, <1>3, <1>4 DEF Inv

-----------------------------------------------------------------------------
(* Lists of names *)

LEMMA SeqOfItsElements ==
  ASSUME NEW S, NEW s \in Seq(S), NEW T, \A n \in 1..Len(s) : s[n] \in T
  PROVE  s \in Seq(T)
  OBVIOUS

LEMMA TailOfList ==
  ASSUME NEW s, Lists(s, ToSet(s)), s # << >>
  PROVE  /\ Head(s) \in ToSet(s) /\ Lists(Tail(s), ToSet(Tail(s)))
         /\ ToSet(Tail(s)) = ToSet(s) \ {Head(s)}
<1>. DEFINE S == ToSet(s)
<1>1. s \in Seq(S) /\ \A m, n \in DOMAIN s : s[m] = s[n] => m = n
  BY DEF Lists
<1>2. S = {s[n] : n \in 1..Len(s)} /\ Len(s) \in Nat \ {0} /\ DOMAIN s = 1..Len(s)
  BY <1>1 DEF ToSet
<1>. HIDE DEF S
<1>3. /\ Tail(s) \in Seq(S) /\ Len(Tail(s)) = Len(s) - 1 /\ Head(s) = s[1]
      /\ \A n \in 1..(Len(s) - 1) : Tail(s)[n] = s[n + 1]
  BY <1>1, <1>2
<1>4. DOMAIN Tail(s) = 1..(Len(s) - 1)
  BY <1>3
<1>5. ToSet(Tail(s)) = {Tail(s)[n] : n \in 1..(Len(s) - 1)}
  BY <1>4 DEF ToSet
<1>6. Head(s) \in S
  BY <1>2, <1>3
<1>7. ASSUME NEW x \in ToSet(Tail(s)) PROVE x \in S \ {Head(s)}
  <2>1. PICK n \in 1..(Len(s) - 1) : x = s[n + 1]
    BY <1>3, <1>5
  <2>2. n + 1 \in 1..Len(s) /\ 1 \in 1..Len(s) /\ n + 1 # 1
    BY <1>2
  <2>. QED  BY <1>1, <1>2, <1>3, <2>1, <2>2
<1>8. ASSUME NEW x \in S \ {Head(s)} PROVE x \in ToSet(Tail(s))
  <2>1. PICK n \in 1..Len(s) : x = s[n]
    BY <1>2
  <2>2. n # 1 /\ n - 1 \in 1..(Len(s) - 1) /\ (n - 1) + 1 = n
    BY <1>2, <1>3, <1>8, <2>1
  <2>. QED  BY <1>3, <1>5, <2>1, <2>2
<1>9. \A m, n \in DOMAIN Tail(s) : Tail(s)[m] = Tail(s)[n] => m = n
  BY <1>1, <1>2, <1>3, <1>4
<1>10. Tail(s) \in Seq(ToSet(Tail(s)))
  <2>1. \A n \in 1..Len(Tail(s)) : Tail(s)[n] \in ToSet(Tail(s))
    BY <1>3, <1>5
  <2>. QED  BY <1>3, <2>1, SeqOfItsElements
<1>. QED  BY <1>6, <1>7, <1>8, <1>9, <1>10 DEF S, Lists

LEMMA ListedByOrder ==
  ASSUME NEW name \in DOMAIN Catalogs,
         NEW names \in {DOMAIN Catalogs[name].tables, DOMAIN Catalogs[name].views,
                        ForeignNames(Catalogs[name])}
  PROVE  Lists(Sorted[names], names) /\ ToSet(Sorted[names]) = names
  BY CatalogsAssumption DEF CatalogsAssumption, WellFormed, Lists

-----------------------------------------------------------------------------
(* Inv is preserved: steps outside the queries *)

LEMMA InvElsewhere ==
  ASSUME Inv, AlterDatabase \/ PoolUsers
  PROVE  Inv'
<1>1. UNCHANGED <<reload, reading, engine>> /\ catalog' \in DOMAIN Catalogs
  BY CatalogsAssumption DEF CatalogsAssumption, AlterDatabase, PoolUsers, OnlyPool, Inv, Begun
<1>2. OneReload' /\ Begun'
  BY <1>1 DEF reading, engine, Inv, OneReload, Begun
<1>3. Reading'
  BY <1>1 DEF reading, engine, Inv, Reading, SoFar, TablesSoFar, ViewsSoFar, Ahead
<1>4. Installed'
  BY <1>1 DEF reading, engine, Inv, Installed
<1>. QED  BY <1>2, <1>3, <1>4 DEF Inv

LEMMA InvAsks ==
  ASSUME Inv, NEW r \in Reloads, Reload(r) \/ Lock(r)
  PROVE  Inv'
<1>1. UNCHANGED <<catalog, todo, work, begun, engine>>
  BY DEF Reload, Lock, reading
<1>2. OneReload'
  BY DEF Reload, Lock, reading, Inv, OneReload, Queries
<1>3. CASE Reload(r)
  <2>1. at' = at
    BY <1>3 DEF Reload, reading
  <2>2. Begun' /\ Installed'
    BY <1>1, <2>1 DEF Inv, Begun, Installed, engine
  <2>3. Reading'
    BY <1>1, <2>1 DEF Inv, Reading, SoFar, TablesSoFar, ViewsSoFar, Ahead
  <2>. QED  BY <1>2, <2>2, <2>3 DEF Inv
<1>4. CASE Lock(r)
  <2>1. at = "none" /\ at' = "enums"
    BY <1>4 DEF Lock, Inv, OneReload
  <2>2. Begun' /\ Installed' /\ Reading'
    BY <1>1, <2>1, CatalogsAssumption
    DEF CatalogsAssumption, Inv, Begun, Installed, Reading, engine
  <2>. QED  BY <1>2, <2>2 DEF Inv
<1>. QED  BY <1>3, <1>4

LEMMA InvEnds ==
  ASSUME Inv, NEW r \in Reloads, QueryFails(r) \/ \E ok \in BOOLEAN : GenerateSchema(r, ok)
  PROVE  Inv'
<1>1. /\ reload[r] = "running" /\ reload' = [reload EXCEPT ![r] = "idle"]
      /\ at' = "none" /\ work' = Nothing /\ begun' = "none"
      /\ UNCHANGED <<catalog, dbSchema, resolver, installed>>
      /\ \/ at # "generate" /\ UNCHANGED <<graphqlSchema, refused>>
         \/ graphqlSchema' = dbSchema
         \/ refused'
  BY DEF QueryFails, GenerateSchema, Ends, Makes, Elsewhere, engine
<1>2. OneReload'
  BY <1>1 DEF Inv, OneReload
<1>3. Begun' /\ Reading' /\ Installed'
  BY <1>1, CatalogsAssumption DEF CatalogsAssumption, Inv, Begun, Reading, Installed
<1>. QED  BY <1>2, <1>3 DEF Inv

-----------------------------------------------------------------------------
(* Queries *)

\* What all the queries but the last have in common.
Answered(r) ==
  /\ reload[r] = "running" /\ at \in Queries /\ at' \in Queries \ {"enums"}
  /\ Sees /\ UNCHANGED <<catalog, reload, engine>>

\* What is left to show of one: if the database is the one the reload began with, what
\* it has built is right.
LEMMA InvQuery ==
  ASSUME Inv, NEW r \in Reloads, Answered(r),
         begun \in {"none", catalog} => SoFar(Db)'
  PROVE  Inv'
<1>1. OneReload'
  BY DEF Answered, Inv, OneReload, Queries, TableQueries
<1>2. /\ catalog \in DOMAIN Catalogs /\ "torn" # catalog /\ "none" # catalog
      /\ begun' = IF begun \in {"none", catalog} THEN catalog ELSE "torn"
  BY CatalogsAssumption DEF CatalogsAssumption, Answered, Sees, Inv, Begun
<1>3. Begun'
  BY <1>2 DEF Answered, Inv, Begun, engine, Queries, TableQueries
<1>4. Reading'
  <2>1. ASSUME begun' \in DOMAIN Catalogs PROVE SoFar(Catalogs[begun])'
    <3>1. begun \in {"none", catalog} /\ begun' = catalog'
      BY <1>2, <2>1, CatalogsAssumption DEF CatalogsAssumption, Answered
    <3>2. SoFar(Db)'
      BY <3>1
    <3>3. Db' = Catalogs[begun']
      BY <3>1 DEF Db
    <3>. QED  BY <3>2, <3>3 DEF SoFar, TablesSoFar, ViewsSoFar
  <2>. QED  BY <2>1 DEF Reading
<1>5. Installed'
  BY DEF Answered, Inv, Installed, engine, Queries, TableQueries
<1>. QED  BY <1>1, <1>3, <1>4, <1>5 DEF Inv

\* The database that the next answer shows is the one seen so far.
LEMMA SeenSoFar ==
  ASSUME Inv, begun \in {"none", catalog}, at \in Queries \ {"enums"}
  PROVE  SoFar(Db) /\ WellFormed(Db) /\ catalog \in DOMAIN Catalogs
<1>1. begun = catalog /\ catalog \in DOMAIN Catalogs /\ at # "generate"
  BY DEF Inv, Begun, Queries, TableQueries
<1>2. SoFar(Db)
  BY <1>1 DEF Inv, Reading, Db
<1>3. WellFormed(Db)
  BY <1>1, CatalogsAssumption DEF CatalogsAssumption, Db
<1>. QED  BY <1>1, <1>2, <1>3

LEMMA InvReadEnums == ASSUME Inv, NEW r \in Reloads, ReadEnums(r) PROVE Inv'
<1>1. Answered(r) /\ at = "enums" /\ at' = "tables"
  BY DEF ReadEnums, Makes, Proceeds, Elsewhere, Answered, Queries
<1>2. work = Nothing /\ work' = [work EXCEPT !.enums = Db.enums] /\ Db' = Db
  BY <1>1 DEF ReadEnums, Inv, Begun, Db, Answered
<1>3. SoFar(Db)'
  BY <1>1, <1>2 DEF SoFar, Nothing, TableQueries
<1>. QED  BY <1>1, <1>3, InvQuery

LEMMA InvReadTables == ASSUME Inv, NEW r \in Reloads, ReadTables(r) PROVE Inv'
<1>1. /\ Answered(r) /\ at = "tables" /\ at' = "columns" /\ work' = work /\ Db' = Db
      /\ todo' = Sorted[DOMAIN Db.tables]
  BY DEF ReadTables, Makes, Proceeds, Elsewhere, Answered, Queries, TableQueries, Db
<1>2. ASSUME begun \in {"none", catalog} PROVE SoFar(Db)'
  <2>1. SoFar(Db) /\ catalog \in DOMAIN Catalogs
    BY <1>1, <1>2, SeenSoFar DEF Queries
  <2>2. Lists(todo', DOMAIN Db.tables) /\ ToSet(todo') = DOMAIN Db.tables
    BY <1>1, <2>1, ListedByOrder DEF Db
  <2>3. work.tables = << >> /\ DOMAIN Db.tables \ Ahead' = {}
    BY <1>1, <2>1, <2>2 DEF SoFar, Ahead
  <2>4. TablesSoFar(Db)'
    BY <1>1, <2>2, <2>3 DEF TablesSoFar
  <2>. QED  BY <1>1, <2>1, <2>4 DEF SoFar, TableQueries
<1>. QED  BY <1>1, <1>2, InvQuery

LEMMA InvReadTableColumns == ASSUME Inv, NEW r \in Reloads, ReadTableColumns(r) PROVE Inv'
<1>. DEFINE t == Head(todo)
<1>1. /\ Answered(r) /\ at = "columns" /\ at' = "key" /\ todo # << >> /\ UNCHANGED todo /\ Db' = Db
      /\ work' = [work EXCEPT !.tables = Stored(@, t, Unkeyed(ReadColumns(Db, t)))]
  BY DEF ReadTableColumns, Makes, Proceeds, Elsewhere, Answered, Queries, TableQueries, Db
<1>2. ASSUME begun \in {"none", catalog} PROVE SoFar(Db)'
  <2>1. SoFar(Db)
    BY <1>1, <1>2, SeenSoFar DEF Queries, TableQueries
  <2>2. TablesSoFar(Db) /\ work.tables = [u \in DOMAIN Db.tables \ ToSet(todo) |-> Table(Db, u)]
    BY <1>1, <2>1 DEF SoFar, TableQueries, TablesSoFar, Ahead
  <2>3. t \in ToSet(todo) /\ ToSet(Tail(todo)) = ToSet(todo) \ {t} /\ t \in DOMAIN Db.tables
    BY <1>1, <2>2, TailOfList DEF TablesSoFar
  <2>4. /\ work'.tables = Stored(work.tables, t, Unkeyed(ReadColumns(Db, t)))
        /\ work'.views = work.views /\ work'.fks = work.fks /\ work'.enums = Db.enums
        /\ work' = [tables |-> work'.tables, views |-> work'.views, fks |-> work'.fks,
                    enums |-> work'.enums]
    BY <1>1, <2>1 DEF SoFar
  <2>5. Ahead' = ToSet(Tail(todo))
    BY <1>1 DEF Ahead
  <2>6. work'.tables = [u \in DOMAIN Db.tables \ ToSet(Tail(todo)) |->
                         IF u = t THEN Unkeyed(ReadColumns(Db, u)) ELSE Table(Db, u)]
    BY <2>2, <2>3, <2>4 DEF Stored
  <2>7. TablesSoFar(Db)'
    BY <1>1, <2>2, <2>5, <2>6 DEF TablesSoFar
  <2>. QED  BY <1>1, <2>1, <2>4, <2>7 DEF SoFar, TableQueries
<1>. QED  BY <1>1, <1>2, InvQuery

LEMMA InvReadTableKey == ASSUME Inv, NEW r \in Reloads, ReadTableKey(r) PROVE Inv'
<1>. DEFINE t == Head(todo)
<1>1. /\ Answered(r) /\ at = "key" /\ at' = "indexes" /\ UNCHANGED todo /\ Db' = Db
      /\ work' = [work EXCEPT !.tables[t] = Mark(@, ReadKey(Db, t))]
  BY DEF ReadTableKey, Makes, Proceeds, Elsewhere, Answered, Queries, TableQueries, Db
<1>2. ASSUME begun \in {"none", catalog} PROVE SoFar(Db)'
  <2>1. SoFar(Db)
    BY <1>1, <1>2, SeenSoFar DEF Queries, TableQueries
  <2>2. /\ TablesSoFar(Db) /\ Ahead = ToSet(Tail(todo)) /\ Ahead' = ToSet(Tail(todo))
        /\ work.tables = [u \in DOMAIN Db.tables \ ToSet(Tail(todo)) |->
                            IF u = t THEN Unkeyed(ReadColumns(Db, u)) ELSE Table(Db, u)]
    BY <1>1, <2>1 DEF SoFar, TableQueries, TablesSoFar, Ahead
  <2>3. t \in DOMAIN Db.tables \ ToSet(Tail(todo))
    BY <1>1, <2>2, TailOfList DEF TablesSoFar
  <2>4. /\ work'.tables = [work.tables EXCEPT ![t] = Mark(@, ReadKey(Db, t))]
        /\ work'.views = work.views /\ work'.fks = work.fks /\ work'.enums = Db.enums
        /\ work' = [tables |-> work'.tables, views |-> work'.views, fks |-> work'.fks,
                    enums |-> work'.enums]
    BY <1>1, <2>1 DEF SoFar
  <2>5. work'.tables = [u \in DOMAIN Db.tables \ ToSet(Tail(todo)) |-> Table(Db, u)]
    BY <2>2, <2>3, <2>4 DEF Table
  <2>6. TablesSoFar(Db)'
    BY <1>1, <2>2, <2>5 DEF TablesSoFar
  <2>. QED  BY <1>1, <2>1, <2>4, <2>6 DEF SoFar, TableQueries
<1>. QED  BY <1>1, <1>2, InvQuery

LEMMA InvReadTableIndexes == ASSUME Inv, NEW r \in Reloads, ReadTableIndexes(r) PROVE Inv'
<1>1. /\ Answered(r) /\ at = "indexes" /\ at' = "columns" /\ todo' = Tail(todo) /\ Db' = Db
      /\ UNCHANGED work
  BY DEF ReadTableIndexes, Makes, Proceeds, Elsewhere, Answered, Queries, TableQueries, Db
<1>2. ASSUME begun \in {"none", catalog} PROVE SoFar(Db)'
  <2>1. SoFar(Db)
    BY <1>1, <1>2, SeenSoFar DEF Queries, TableQueries
  <2>2. /\ TablesSoFar(Db) /\ Ahead' = ToSet(Tail(todo))
        /\ work.tables = [u \in DOMAIN Db.tables \ ToSet(Tail(todo)) |-> Table(Db, u)]
    BY <1>1, <2>1 DEF SoFar, TableQueries, TablesSoFar, Ahead
  <2>3. Lists(Tail(todo), ToSet(Tail(todo))) /\ ToSet(Tail(todo)) \subseteq DOMAIN Db.tables
    BY <1>1, <2>2, TailOfList DEF TablesSoFar
  <2>4. TablesSoFar(Db)'
    BY <1>1, <2>2, <2>3 DEF TablesSoFar
  <2>. QED  BY <1>1, <2>1, <2>4 DEF SoFar, TableQueries
<1>. QED  BY <1>1, <1>2, InvQuery

LEMMA InvReadViews == ASSUME Inv, NEW r \in Reloads, ReadViews(r) PROVE Inv'
<1>1. /\ Answered(r) /\ at = "views" /\ at' = "viewColumns" /\ work' = work /\ Db' = Db
      /\ todo' = Sorted[DOMAIN Db.views]
  BY DEF ReadViews, Makes, Proceeds, Elsewhere, Answered, Queries, TableQueries, Db
<1>2. ASSUME begun \in {"none", catalog} PROVE SoFar(Db)'
  <2>1. SoFar(Db) /\ catalog \in DOMAIN Catalogs
    BY <1>1, <1>2, SeenSoFar DEF Queries
  <2>2. Lists(todo', DOMAIN Db.views) /\ ToSet(todo') = DOMAIN Db.views
    BY <1>1, <2>1, ListedByOrder DEF Db
  <2>3. work.views = << >>
    BY <1>1, <2>1 DEF SoFar
  <2>4. ViewsSoFar(Db)'
    BY <1>1, <2>2, <2>3 DEF ViewsSoFar
  <2>. QED  BY <1>1, <2>1, <2>4 DEF SoFar, TableQueries
<1>. QED  BY <1>1, <1>2, InvQuery

LEMMA InvReadViewColumns == ASSUME Inv, NEW r \in Reloads, ReadViewColumns(r) PROVE Inv'
<1>. DEFINE v == Head(todo)
<1>1. /\ Answered(r) /\ at = "viewColumns" /\ at' = at /\ todo # << >> /\ todo' = Tail(todo)
      /\ Db' = Db /\ work' = [work EXCEPT !.views = Stored(@, v, ReadColumns(Db, v))]
  BY DEF ReadViewColumns, Makes, Proceeds, Elsewhere, Answered, Queries, TableQueries, Db
<1>2. ASSUME begun \in {"none", catalog} PROVE SoFar(Db)'
  <2>1. SoFar(Db)
    BY <1>1, <1>2, SeenSoFar DEF Queries, TableQueries
  <2>2. ViewsSoFar(Db)
    BY <1>1, <2>1 DEF SoFar
  <2>3. /\ v \in ToSet(todo) /\ v \in DOMAIN Db.views
        /\ ToSet(Tail(todo)) = ToSet(todo) \ {v} /\ Lists(Tail(todo), ToSet(Tail(todo)))
    BY <1>1, <2>2, TailOfList DEF ViewsSoFar
  <2>4. /\ work'.views = Stored(work.views, v, ReadColumns(Db, v))
        /\ work'.tables = work.tables /\ work'.fks = work.fks /\ work'.enums = Db.enums
        /\ work' = [tables |-> work'.tables, views |-> work'.views, fks |-> work'.fks,
                    enums |-> work'.enums]
    BY <1>1, <2>1 DEF SoFar
  <2>5. work'.views = [u \in DOMAIN Db.views \ ToSet(Tail(todo)) |-> ReadColumns(Db, u)]
    BY <2>2, <2>3, <2>4 DEF ViewsSoFar, Stored
  <2>6. ViewsSoFar(Db)'
    BY <1>1, <2>2, <2>3, <2>5 DEF ViewsSoFar
  <2>. QED  BY <1>1, <2>1, <2>4, <2>6 DEF SoFar, TableQueries
<1>. QED  BY <1>1, <1>2, InvQuery

\* The rows have been read to their end, which is no query.
LEMMA InvRowsEnd == ASSUME Inv, NEW r \in Reloads, RowsEnd(r) PROVE Inv'
<1>1. /\ reload[r] = "running" /\ todo = << >>
      /\ \/ at = "columns" /\ at' = "views"
         \/ at = "viewColumns" /\ at' = "fks"
      /\ UNCHANGED <<catalog, reload, todo, work, begun, engine>>
  BY DEF RowsEnd, Elsewhere
<1>2. OneReload' /\ Begun' /\ Installed'
  BY <1>1 DEF Inv, OneReload, Begun, Installed, Queries, engine
<1>3. ASSUME begun \in DOMAIN Catalogs PROVE SoFar(Catalogs[begun])'
  <2>1. PICK db : db = Catalogs[begun]
    OBVIOUS
  <2>2. SoFar(db) /\ ToSet(todo) = {}
    BY <1>1, <1>3, <2>1 DEF Inv, Reading, ToSet
  <2>3. CASE at = "columns"
    <3>1. work.tables = AllTables(db)
      BY <2>2, <2>3 DEF SoFar, TableQueries, TablesSoFar, Ahead, AllTables
    <3>2. SoFar(db)'
      BY <1>1, <2>2, <2>3, <3>1 DEF SoFar, TableQueries
    <3>. QED  BY <1>1, <2>1, <3>2
  <2>4. CASE at = "viewColumns"
    <3>1. work.views = AllViews(db)
      BY <2>2, <2>4 DEF SoFar, ViewsSoFar, AllViews
    <3>2. SoFar(db)'
      BY <1>1, <2>2, <2>4, <3>1 DEF SoFar, TableQueries
    <3>. QED  BY <1>1, <2>1, <3>2
  <2>. QED  BY <1>1, <2>3, <2>4
<1>. QED  BY <1>1, <1>2, <1>3 DEF Inv, Reading

LEMMA InvReadForeignKeys == ASSUME Inv, NEW r \in Reloads, ReadForeignKeys(r) PROVE Inv'
<1>1. /\ Answered(r) /\ at = "fks" /\ at' = "functions" /\ UNCHANGED todo /\ Db' = Db
      /\ \E fks \in ReadForeign(Db) : work' = [work EXCEPT !.fks = fks]
  BY DEF ReadForeignKeys, Makes, Proceeds, Elsewhere, Answered, Queries, TableQueries, Db
<1>2. ASSUME begun \in {"none", catalog} PROVE SoFar(Db)'
  <2>1. SoFar(Db)
    BY <1>1, <1>2, SeenSoFar DEF Queries, TableQueries
  <2>2. /\ work'.fks \in ReadForeign(Db)
        /\ work'.tables = work.tables /\ work'.views = work.views /\ work'.enums = Db.enums
        /\ work' = [tables |-> work'.tables, views |-> work'.views, fks |-> work'.fks,
                    enums |-> work'.enums]
    BY <1>1, <2>1 DEF SoFar
  <2>. QED  BY <1>1, <2>1, <2>2 DEF SoFar, TableQueries
<1>. QED  BY <1>1, <1>2, InvQuery

LEMMA InvReadFunctions == ASSUME Inv, NEW r \in Reloads, ReadFunctions(r) PROVE Inv'
<1>1. /\ Answered(r) /\ at = "functions" /\ at' = "sequences" /\ UNCHANGED <<todo, work>>
      /\ Db' = Db
  BY DEF ReadFunctions, Makes, Proceeds, Elsewhere, Answered, Queries, TableQueries, Db
<1>2. ASSUME begun \in {"none", catalog} PROVE SoFar(Db)'
  <2>1. SoFar(Db)
    BY <1>1, <1>2, SeenSoFar DEF Queries, TableQueries
  <2>. QED  BY <1>1, <2>1 DEF SoFar, TableQueries
<1>. QED  BY <1>1, <1>2, InvQuery

\* The last query installs what was built.
LEMMA InvReadSequences == ASSUME Inv, NEW r \in Reloads, ReadSequences(r) PROVE Inv'
<1>1. /\ reload[r] = "running" /\ at = "sequences" /\ at' = "generate" /\ Sees
      /\ dbSchema' = work /\ resolver' = work /\ installed' = begun'
      /\ UNCHANGED <<catalog, reload, todo, work>>
  BY DEF ReadSequences, Makes, Elsewhere
<1>2. OneReload'
  BY <1>1 DEF Inv, OneReload
<1>3. /\ catalog \in DOMAIN Catalogs /\ "torn" # catalog /\ "none" # catalog
      /\ begun' = IF begun \in {"none", catalog} THEN catalog ELSE "torn"
  BY <1>1, CatalogsAssumption DEF CatalogsAssumption, Sees, Inv, Begun
<1>4. Begun' /\ Reading'
  BY <1>1, <1>3 DEF Inv, Begun, Reading
<1>5. ASSUME installed' # "torn" PROVE work \in Schemas(Catalogs[installed'])
  <2>1. begun \in {"none", catalog} /\ installed' = catalog
    BY <1>1, <1>3, <1>5
  <2>2. SoFar(Db) /\ Db = Catalogs[installed']
    BY <1>1, <2>1, SeenSoFar DEF Queries, Db
  <2>3. /\ work = [tables |-> AllTables(Db), views |-> AllViews(Db), fks |-> work.fks,
                   enums |-> Db.enums]
        /\ work.fks \in ReadForeign(Db)
    BY <1>1, <2>2 DEF SoFar, TableQueries
  <2>. QED  BY <2>2, <2>3 DEF Schemas, AllTables, AllViews, Table
<1>6. Installed'
  BY <1>1, <1>5 DEF Installed
<1>. QED  BY <1>2, <1>4, <1>6 DEF Inv

LEMMA InvAlways == Spec => []Inv
<1>1. Inv /\ UNCHANGED vars => Inv'
  <2>. SUFFICES ASSUME Inv, UNCHANGED vars PROVE Inv'
    OBVIOUS
  <2>1. OneReload' /\ Begun' /\ Installed'
    BY DEF vars, reading, engine, Inv, OneReload, Begun, Installed
  <2>2. Reading'
    BY DEF vars, reading, engine, Inv, Reading, SoFar, TablesSoFar, ViewsSoFar, Ahead
  <2>. QED  BY <2>1, <2>2 DEF Inv
<1>2. Inv /\ Next => Inv'
  BY InvElsewhere, InvAsks, InvEnds, InvReadEnums, InvReadTables, InvReadTableColumns,
     InvReadTableKey, InvReadTableIndexes, InvReadViews, InvReadViewColumns, InvRowsEnd,
     InvReadForeignKeys, InvReadFunctions, InvReadSequences DEF Next, ReloadRuns
<1>. QED  BY <1>1, <1>2, InvInit, PTL DEF Spec
-----------------------------------------------------------------------------
(* What was read of a database that did not change is faithful to it *)

LEMMA OneOrTwo ==
  ASSUME NEW S, NEW u \in Seq(S), Len(u) \in 1..2
  PROVE  u = IF Len(u) = 2 THEN <<Head(u), u[Len(u)]>> ELSE <<u[Len(u)]>>
<1>1. CASE Len(u) = 1
  BY <1>1
<1>2. CASE Len(u) = 2
  <2>1. u = <<u[1], u[2]>> /\ Head(u) = u[1]
    BY <1>2
  <2>. QED  BY <1>2, <2>1
<1>. QED  BY <1>1, <1>2

Typed(udt) ==
  udt \in Seq(STRING) /\ Len(udt) \in 1..2 /\ (Head(udt) = "_" <=> Len(udt) = 2)

LEMMA TypeRead ==
  ASSUME NEW udt, Typed(udt)
  PROVE  udt = IF Head(udt) = "_" THEN <<"_", Last(udt)>> ELSE <<Last(udt)>>
  BY OneOrTwo DEF Typed, Last

\* What Faithful asks of the columns of a table or a view.
Same(read, cols) ==
  /\ DOMAIN read = DOMAIN cols
  /\ \A n \in DOMAIN cols :
       /\ read[n].name = cols[n].name /\ read[n].nullable = cols[n].nullable
       /\ read[n].default = cols[n].default
       /\ cols[n].udt = IF read[n].array THEN <<"_", read[n].sql>> ELSE <<read[n].sql>>

Whole(read) == IF read.array THEN <<"_", read.sql>> ELSE <<read.sql>>

Cols(db, name) == IF name \in DOMAIN db.tables THEN db.tables[name] ELSE db.views[name]

LEMMA ColumnsRead ==
  ASSUME NEW db, WellFormed(db), NEW name \in DOMAIN db.tables \cup DOMAIN db.views
  PROVE  Same(ReadColumns(db, name), Cols(db, name))
<1>. DEFINE cols == Cols(db, name)
            read == ReadColumns(db, name)
<1>1. read = [n \in DOMAIN cols |->
                [name |-> cols[n].name, array |-> Head(cols[n].udt) = "_",
                 sql |-> Last(cols[n].udt), nullable |-> cols[n].nullable,
                 default |-> cols[n].default, pk |-> FALSE]]
  BY DEF ReadColumns, Cols
<1>2. \A n \in DOMAIN cols : Typed(cols[n].udt)
  <2>1. cols \in {db.tables[t] : t \in DOMAIN db.tables} \cup {db.views[v] : v \in DOMAIN db.views}
    BY DEF Cols
  <2>. HIDE DEF cols
  <2>. QED  BY <2>1 DEF WellFormed, Typed
<1>. HIDE DEF cols, read
<1>3. ASSUME NEW n \in DOMAIN cols
      PROVE  cols[n].udt = Whole(read[n])
  <2>1. cols[n].udt = IF Head(cols[n].udt) = "_" THEN <<"_", Last(cols[n].udt)>>
                      ELSE <<Last(cols[n].udt)>>
    BY <1>2, TypeRead
  <2>2. read[n].array = (Head(cols[n].udt) = "_") /\ read[n].sql = Last(cols[n].udt)
    BY <1>1
  <2>. QED  BY <2>1, <2>2 DEF Whole
<1>4. Same(read, cols)
  BY <1>1, <1>3 DEF Same, Whole
<1>. QED  BY <1>4 DEF cols, read

ColumnParts == {"name", "array", "sql", "nullable", "default", "pk"}

LEMMA ColumnMarked ==
  ASSUME NEW read, DOMAIN read = ColumnParts, NEW v, NEW col, col = [read EXCEPT !.pk = v]
  PROVE  /\ col.name = read.name /\ col.nullable = read.nullable /\ col.default = read.default
         /\ col.array = read.array /\ col.sql = read.sql /\ col.pk = v
  BY DEF ColumnParts

LEMMA TableRead ==
  ASSUME NEW db, WellFormed(db), NEW t \in DOMAIN db.tables
  PROVE  /\ Same(Table(db, t).columns, db.tables[t])
         /\ Table(db, t).key = ReadKey(db, t)
         /\ DOMAIN Table(db, t).columns = DOMAIN db.tables[t]
         /\ \A n \in DOMAIN db.tables[t] :
              /\ Table(db, t).columns[n].name = db.tables[t][n].name
              /\ Table(db, t).columns[n].pk <=> db.tables[t][n].name \in ReadKey(db, t)
<1>. DEFINE cols == db.tables[t]
            read == ReadColumns(db, t)
<1>1. Same(read, cols) /\ \A n \in DOMAIN read : DOMAIN read[n] = ColumnParts
  BY ColumnsRead DEF Cols, ReadColumns, ColumnParts
<1>2. /\ Table(db, t).columns = [n \in DOMAIN read |->
                                   [read[n] EXCEPT !.pk = read[n].name \in ReadKey(db, t)]]
      /\ Table(db, t).key = ReadKey(db, t)
  BY DEF Table, Mark, Unkeyed
<1>. HIDE DEF cols, read
<1>3. \A n \in DOMAIN read :
        /\ Table(db, t).columns[n].name = read[n].name
        /\ Table(db, t).columns[n].nullable = read[n].nullable
        /\ Table(db, t).columns[n].default = read[n].default
        /\ Table(db, t).columns[n].array = read[n].array
        /\ Table(db, t).columns[n].sql = read[n].sql
        /\ Table(db, t).columns[n].pk = (read[n].name \in ReadKey(db, t))
  <2>. TAKE n \in DOMAIN read
  <2>1. PICK v : v = (read[n].name \in ReadKey(db, t))
    OBVIOUS
  <2>2. Table(db, t).columns[n] = [read[n] EXCEPT !.pk = v]
    BY <1>2, <2>1, Zenon
  <2>. QED  BY <1>1, <2>1, <2>2, ColumnMarked
<1>4. DOMAIN read = DOMAIN cols /\ \A n \in DOMAIN cols : read[n].name = cols[n].name
  BY <1>1 DEF Same
<1>5. DOMAIN Table(db, t).columns = DOMAIN read
  BY <1>2
<1>6. \A n \in DOMAIN cols : Whole(Table(db, t).columns[n]) = Whole(read[n])
  BY <1>3, <1>4 DEF Whole
<1>7. Same(Table(db, t).columns, cols)
  <2>1. \A n \in DOMAIN cols : cols[n].udt = Whole(read[n])
    BY <1>1 DEF Same, Whole
  <2>2. \A n \in DOMAIN cols : cols[n].udt = Whole(Table(db, t).columns[n])
    BY <1>6, <2>1
  <2>3. \A n \in DOMAIN cols :
          /\ Table(db, t).columns[n].name = cols[n].name
          /\ Table(db, t).columns[n].nullable = cols[n].nullable
          /\ Table(db, t).columns[n].default = cols[n].default
    BY <1>1, <1>3, <1>4 DEF Same
  <2>. QED  BY <1>4, <1>5, <2>2, <2>3, Zenon DEF Same, Whole
<1>8. \A n \in DOMAIN cols : Table(db, t).columns[n].pk <=> cols[n].name \in ReadKey(db, t)
  BY <1>3, <1>4
<1>. QED  BY <1>2, <1>3, <1>4, <1>5, <1>7, <1>8 DEF cols

Alone(db) == {c \in db.constraints : \A d \in db.constraints : d.name = c.name => d = c}
KeysOf(db, t) == {c \in db.constraints : c.kind = "key" /\ c.table = t}

LEMMA KeyRead ==
  ASSUME NEW db, WellFormed(db), NEW s \in Schemas(db), NEW t \in DOMAIN db.tables,
         KeysOf(db, t) \subseteq Alone(db)
  PROVE  /\ s.tables[t].key = UNION {ToSet(c.columns) : c \in KeysOf(db, t)}
         /\ s.tables[t].key = Named(Marked(s, t))
<1>1. s.tables[t] = Table(db, t)
  BY DEF Schemas, Table
<1>. DEFINE key == ReadKey(db, t)
            cols == db.tables[t]
            read == Table(db, t).columns
<1>2. Table(db, t).key = key /\ DOMAIN read = DOMAIN cols
      /\ \A n \in DOMAIN cols : read[n].name = cols[n].name /\ (read[n].pk <=> cols[n].name \in key)
  BY TableRead
<1>3. \A k \in KeysOf(db, t) : Sharing(db, k.name) = {k}
  BY DEF Alone, Sharing, KeysOf
<1>4. UNION {Sharing(db, k.name) : k \in KeysOf(db, t)} = KeysOf(db, t)
  BY <1>3
<1>5. key = UNION {ToSet(c.columns) : c \in KeysOf(db, t)}
  BY <1>4 DEF ReadKey, KeysOf
<1>6. ASSUME NEW x \in key PROVE \E n \in DOMAIN cols : cols[n].name = x
  <2>1. PICK c \in KeysOf(db, t) : x \in ToSet(c.columns)
    BY <1>5, <1>6
  <2>2. ToSet(c.columns) \subseteq {col.name : col \in ToSet(cols)}
    BY <2>1 DEF WellFormed, KeysOf
  <2>. QED  BY <2>1, <2>2 DEF ToSet
<1>7. Marked(s, t) = {read[n] : n \in {m \in DOMAIN cols : cols[m].name \in key}}
  <2>1. Columns(s, t) = {read[n] : n \in DOMAIN read}
    BY <1>1 DEF Columns, ToSet
  <2>. HIDE DEF read, key, cols
  <2>. QED  BY <1>2, <2>1 DEF Marked
<1>. HIDE DEF read, key, cols
<1>8. Named(Marked(s, t)) = {cols[n].name : n \in {m \in DOMAIN cols : cols[m].name \in key}}
  BY <1>2, <1>7 DEF Named
<1>9. Named(Marked(s, t)) = key
  BY <1>6, <1>8
<1>. QED  BY <1>1, <1>2, <1>5, <1>9 DEF read, key

LEMMA ForeignRead ==
  ASSUME NEW db, WellFormed(db), NEW s \in Schemas(db),
         NEW c \in Alone(db), c.kind = "foreign"
  PROVE  \E fk \in ToSet(s.fks) :
           /\ {other \in ToSet(s.fks) : other.name = c.name} = {fk}
           /\ fk.source = c.table /\ fk.target = c.target /\ fk.column = Head(c.columns)
           /\ fk.targetColumn \in ToSet(c.targetColumns)
<1>. DEFINE names == Sorted[ForeignNames(db)]
            fks == s.fks
<1>1. ToSet(names) = ForeignNames(db) /\ \A m, n \in DOMAIN names : names[m] = names[n] => m = n
  BY DEF WellFormed, Lists
<1>2. DOMAIN fks = DOMAIN names /\ \A n \in DOMAIN names : fks[n] \in FirstRows(db, names[n])
  BY DEF Schemas, ReadForeign
<1>. HIDE DEF names, fks
<1>3. \A n \in DOMAIN names : fks[n].name = names[n]
  BY <1>2 DEF FirstRows
<1>4. c.name \in ForeignNames(db) /\ Foreign(db, c.name) = {c} /\ Sharing(db, c.name) = {c}
  BY DEF Alone, ForeignNames, Foreign, Sharing
<1>5. PICK n \in DOMAIN names : names[n] = c.name
  BY <1>1, <1>4 DEF ToSet
<1>6. PICK col \in ToSet(c.targetColumns) :
        fks[n] = [name |-> c.name, source |-> c.table, column |-> Head(c.columns),
                  target |-> c.target, targetColumn |-> col]
  BY <1>2, <1>4, <1>5 DEF FirstRows
<1>7. ToSet(fks) = {fks[m] : m \in DOMAIN names}
  BY <1>2 DEF ToSet
<1>8. {other \in ToSet(fks) : other.name = c.name} = {fks[n]}
  BY <1>1, <1>3, <1>5, <1>7
<1>9. fks[n] \in ToSet(fks) /\ fks[n].source = c.table /\ fks[n].target = c.target
      /\ fks[n].column = Head(c.columns) /\ fks[n].targetColumn \in ToSet(c.targetColumns)
  BY <1>6, <1>7
<1>. QED  BY <1>8, <1>9 DEF fks

LEMMA ReadFaithfully ==
  ASSUME NEW db, WellFormed(db), NEW s \in Schemas(db)
  PROVE  Faithful(s, db)
<1>1. /\ DOMAIN s.tables = DOMAIN db.tables /\ DOMAIN s.views = DOMAIN db.views
      /\ s.enums = db.enums
      /\ \A t \in DOMAIN db.tables : s.tables[t] = Table(db, t)
      /\ \A v \in DOMAIN db.views : s.views[v] = ReadColumns(db, v)
  BY DEF Schemas, Table
<1>2. \A t \in DOMAIN db.tables : Same(s.tables[t].columns, db.tables[t])
  BY <1>1, TableRead
<1>3. \A v \in DOMAIN db.views : Same(s.views[v], db.views[v])
  <2>1. \A v \in DOMAIN db.views : Cols(db, v) = db.views[v]
    BY DEF WellFormed, Cols
  <2>. QED  BY <1>1, <2>1, ColumnsRead
<1>4. \A t \in DOMAIN db.tables : KeysOf(db, t) \subseteq Alone(db) =>
        /\ s.tables[t].key = UNION {ToSet(c.columns) : c \in KeysOf(db, t)}
        /\ s.tables[t].key = Named(Marked(s, t))
  BY KeyRead
<1>5. \A c \in {d \in Alone(db) : d.kind = "foreign"} :
        \E fk \in ToSet(s.fks) :
          /\ {other \in ToSet(s.fks) : other.name = c.name} = {fk}
          /\ fk.source = c.table /\ fk.target = c.target /\ fk.column = Head(c.columns)
          /\ fk.targetColumn \in ToSet(c.targetColumns)
  BY ForeignRead
<1>. QED  BY <1>1, <1>2, <1>3, <1>4, <1>5, Zenon DEF Faithful, Same, KeysOf, Alone

\* Whatever DDL, failing queries and other reloads come between the queries of a reload:
\* what it installs is the database it saw, if all its queries saw one, and the parts of
\* the engine were made from the same reading.
THEOREM InstallsWhatItSaw == Spec => []ReloadIsFaithful
<1>1. Inv => ReloadIsFaithful
  <2>. SUFFICES ASSUME Inv PROVE ReloadIsFaithful
    OBVIOUS
  <2>1. ASSUME installed # "torn" PROVE Faithful(dbSchema, Catalogs[installed])
    <3>1. WellFormed(Catalogs[installed])
      BY <2>1, CatalogsAssumption DEF CatalogsAssumption, Inv, Begun
    <3>2. dbSchema \in Schemas(Catalogs[installed])
      BY <2>1 DEF Inv, Installed
    <3>. QED  BY <3>1, <3>2, ReadFaithfully
  <2>. QED  BY <2>1 DEF Inv, Installed, ReloadIsFaithful
<1>. QED  BY <1>1, InvAlways, PTL

-----------------------------------------------------------------------------
(* Every schema that is built can be generated from, also one that is torn *)

Parts == {"tables", "views", "fks", "enums"}

Formed(columns) ==
  /\ \A a, b \in ToSet(columns) : a.name = b.name => a = b
  /\ \A col \in ToSet(columns) : DOMAIN col = ColumnParts

Own(table) ==
  /\ Formed(table.columns)
  /\ \A col \in ToSet(table.columns) : col.pk <=> col.name \in table.key

Built(s) ==
  /\ DOMAIN s = Parts
  /\ Tables(s) \cup Views(s) \subseteq Seq(Words) /\ Listed(s.fks)
  /\ \A t \in Tables(s) : Own(s.tables[t])

AllBuilt ==
  /\ Built(work) /\ Built(dbSchema)
  /\ todo \in Seq(Seq(Words)) /\ (at \in {"key", "indexes"} => todo # << >>)

LEMMA BuiltIsShaped == ASSUME NEW s, Built(s) PROVE Shaped(s)
  BY DEF Built, Shaped, Own, Formed, Columns

LEMMA ColumnsFormed ==
  ASSUME NEW db, WellFormed(db), NEW name
  PROVE  /\ Formed(ReadColumns(db, name))
         /\ \A col \in ToSet(ReadColumns(db, name)) : col.pk = FALSE
<1>. DEFINE cols == IF name \in DOMAIN db.tables THEN db.tables[name]
                    ELSE IF name \in DOMAIN db.views THEN db.views[name] ELSE << >>
            read == ReadColumns(db, name)
<1>1. read = [n \in DOMAIN cols |->
                [name |-> cols[n].name, array |-> Head(cols[n].udt) = "_",
                 sql |-> Last(cols[n].udt), nullable |-> cols[n].nullable,
                 default |-> cols[n].default, pk |-> FALSE]]
  BY DEF ReadColumns
<1>2. \A m, n \in DOMAIN cols : cols[m].name = cols[n].name => m = n
  <2>1. CASE name \in DOMAIN db.tables \cup DOMAIN db.views
    <3>1. cols \in {db.tables[t] : t \in DOMAIN db.tables} \cup {db.views[v] : v \in DOMAIN db.views}
      BY <2>1
    <3>. HIDE DEF cols
    <3>. QED  BY <3>1 DEF WellFormed
  <2>2. CASE name \notin DOMAIN db.tables \cup DOMAIN db.views
    BY <2>2
  <2>. QED  BY <2>1, <2>2
<1>. HIDE DEF cols, read
<1>3. \A n \in DOMAIN read : /\ n \in DOMAIN cols /\ DOMAIN read[n] = ColumnParts
                             /\ read[n].name = cols[n].name /\ read[n].pk = FALSE
  BY <1>1 DEF ColumnParts
<1>4. \A m, n \in DOMAIN read : read[m].name = read[n].name => read[m] = read[n]
  BY <1>2, <1>3
<1>. QED  BY <1>3, <1>4 DEF Formed, ToSet, read

LEMMA MarkOwns ==
  ASSUME NEW table, Formed(table.columns), NEW key
  PROVE  Own(Mark(table, key))
<1>. DEFINE columns == Mark(table, key).columns
<1>1. /\ columns = [n \in DOMAIN table.columns |->
                      [table.columns[n] EXCEPT !.pk = table.columns[n].name \in key]]
      /\ Mark(table, key).key = key
  BY DEF Mark
<1>. HIDE DEF columns
<1>2. ASSUME NEW n \in DOMAIN table.columns
      PROVE  /\ DOMAIN columns[n] = ColumnParts
             /\ columns[n].name = table.columns[n].name
             /\ columns[n].pk = (table.columns[n].name \in key)
  <2>1. PICK v : v = (table.columns[n].name \in key)
    OBVIOUS
  <2>2. columns[n] = [table.columns[n] EXCEPT !.pk = v]
    BY <1>1, <2>1, Zenon
  <2>3. DOMAIN table.columns[n] = ColumnParts
    BY DEF Formed, ToSet
  <2>4. DOMAIN columns[n] = ColumnParts
    BY <2>2, <2>3
  <2>. QED  BY <2>1, <2>2, <2>3, <2>4, ColumnMarked
<1>3. ASSUME NEW m \in DOMAIN table.columns, NEW n \in DOMAIN table.columns,
             columns[m].name = columns[n].name
      PROVE  columns[m] = columns[n]
  <2>1. table.columns[m] = table.columns[n]
    BY <1>2, <1>3 DEF Formed, ToSet
  <2>. QED  BY <1>1, <2>1
<1>4. DOMAIN columns = DOMAIN table.columns
  BY <1>1
<1>5. Formed(columns)
  BY <1>2, <1>3, <1>4 DEF Formed, ToSet
<1>6. \A col \in ToSet(columns) : col.pk <=> col.name \in key
  BY <1>2, <1>4 DEF ToSet
<1>. QED  BY <1>1, <1>5, <1>6 DEF Own, columns

LEMMA UnkeyedOwns ==
  ASSUME NEW db, WellFormed(db), NEW name
  PROVE  Own(Unkeyed(ReadColumns(db, name)))
  BY ColumnsFormed DEF Own, Unkeyed

LEMMA NamesAreWords ==
  ASSUME NEW db, WellFormed(db)
  PROVE  DOMAIN db.tables \cup DOMAIN db.views \subseteq Seq(Words)
<1>1. STRING \subseteq Words
  BY DEF Words
<1>2. \A t \in Seq(STRING) : t \in Seq(Words)
  <2>1. ASSUME NEW S \in SUBSET Words, NEW t \in Seq(S) PROVE t \in Seq(Words)
    <3>1. \A n \in 1..Len(t) : t[n] \in S
      OBVIOUS
    <3>. QED  BY <3>1, SeqOfItsElements
  <2>2. PICK S \in SUBSET Words : S = STRING
    BY <1>1
  <2>. QED  BY <2>1, <2>2
<1>3. DOMAIN db.tables \cup DOMAIN db.views \subseteq Seq(STRING)
  BY DEF WellFormed
<1>. QED  BY <1>2, <1>3

LEMMA ForeignListed ==
  ASSUME NEW db, WellFormed(db), NEW fks \in ReadForeign(db)
  PROVE  Listed(fks)
<1>. DEFINE names == Sorted[ForeignNames(db)]
<1>1. names \in Seq(ForeignNames(db))
  BY DEF WellFormed, Lists
<1>2. DOMAIN fks = DOMAIN names
  BY DEF ReadForeign
<1>. HIDE DEF names
<1>3. DOMAIN names = 1..Len(names) /\ Len(names) \in Nat
  BY <1>1
<1>. QED  BY <1>2, <1>3 DEF Listed

LEMMA SchemasBuilt ==
  ASSUME NEW db, WellFormed(db), NEW s \in Schemas(db)
  PROVE  Built(s)
<1>1. /\ DOMAIN s = Parts /\ Tables(s) = DOMAIN db.tables /\ Views(s) = DOMAIN db.views
      /\ s.fks \in ReadForeign(db) /\ \A t \in DOMAIN db.tables : s.tables[t] = Table(db, t)
  BY DEF Schemas, Table, Tables, Views, Parts
<1>2. \A t \in DOMAIN db.tables : Own(Table(db, t))
  <2>. TAKE t \in DOMAIN db.tables
  <2>1. Formed(Unkeyed(ReadColumns(db, t)).columns)
    BY ColumnsFormed DEF Unkeyed
  <2>. QED  BY <2>1, MarkOwns DEF Table
<1>. QED  BY <1>1, <1>2, NamesAreWords, ForeignListed DEF Built

LEMMA NothingBuilt == Built(Nothing) /\ << >> \in Seq(Seq(Words))
<1>1. /\ DOMAIN Nothing = Parts /\ Tables(Nothing) = {} /\ Views(Nothing) = {}
      /\ Nothing.fks = << >>
  BY DEF Nothing, Parts, Tables, Views
<1>2. Listed(<< >>)
  <2>1. 0 \in Nat /\ DOMAIN << >> = 1..0
    OBVIOUS
  <2>. QED  BY <2>1 DEF Listed
<1>. QED  BY <1>1, <1>2 DEF Built

LEMMA OrderedWords ==
  ASSUME NEW db, WellFormed(db), NEW names \in {DOMAIN db.tables, DOMAIN db.views}
  PROVE  Sorted[names] \in Seq(Seq(Words))
<1>1. names \subseteq Seq(Words)
  BY NamesAreWords
<1>2. Sorted[names] \in Seq(names)
  BY DEF WellFormed, Lists
<1>. QED  BY <1>1, <1>2

\* What a step that changes one part leaves.
LEMMA TablesChange ==
  ASSUME NEW s, Built(s), NEW tables, NEW r, r = [s EXCEPT !.tables = tables],
         DOMAIN tables \subseteq Seq(Words), \A t \in DOMAIN tables : Own(tables[t])
  PROVE  Built(r)
  BY DEF Built, Tables, Views, Parts

LEMMA AllBuiltInit == Init => AllBuilt
<1>. SUFFICES ASSUME Init PROVE AllBuilt
  OBVIOUS
<1>1. WellFormed(Db) /\ dbSchema \in Schemas(Db) /\ work = Nothing /\ todo = << >> /\ at = "none"
  BY CatalogsAssumption DEF CatalogsAssumption, Init, Db
<1>. QED  BY <1>1, SchemasBuilt, NothingBuilt DEF AllBuilt

LEMMA AllBuiltReadTableColumns ==
  ASSUME AllBuilt, WellFormed(Db), NEW r \in Reloads, ReadTableColumns(r)
  PROVE  AllBuilt'
<1>. DEFINE t == Head(todo)
            tables == Stored(work.tables, t, Unkeyed(ReadColumns(Db, t)))
<1>1. work' = [work EXCEPT !.tables = tables] /\ UNCHANGED <<todo, dbSchema>> /\ todo # << >>
  BY DEF ReadTableColumns, Proceeds, engine
<1>2. t \in Seq(Words)
  BY <1>1 DEF AllBuilt
<1>3. /\ DOMAIN tables = DOMAIN work.tables \cup {t}
      /\ \A u \in DOMAIN tables :
           tables[u] = IF u = t THEN Unkeyed(ReadColumns(Db, t)) ELSE work.tables[u]
  BY DEF Stored
<1>. HIDE DEF tables, t
<1>4. DOMAIN tables \subseteq Seq(Words) /\ \A u \in DOMAIN tables : Own(tables[u])
  BY <1>2, <1>3, UnkeyedOwns DEF AllBuilt, Built, Tables
<1>5. Built(work')
  BY <1>1, <1>4, TablesChange DEF AllBuilt
<1>. QED  BY <1>1, <1>5 DEF AllBuilt

LEMMA AllBuiltReadTableKey ==
  ASSUME AllBuilt, NEW r \in Reloads, ReadTableKey(r)
  PROVE  AllBuilt'
<1>. DEFINE t == Head(todo)
            tables == [work.tables EXCEPT ![t] = Mark(@, ReadKey(Db, t))]
<1>1. work' = [work EXCEPT !.tables = tables] /\ UNCHANGED <<todo, dbSchema>> /\ at = "key"
  BY DEF ReadTableKey, Makes, Proceeds, engine
<1>2. /\ DOMAIN tables = DOMAIN work.tables
      /\ \A u \in DOMAIN tables :
           tables[u] = IF u = t THEN Mark(work.tables[t], ReadKey(Db, t)) ELSE work.tables[u]
  OBVIOUS
<1>. HIDE DEF tables, t
<1>3. \A u \in DOMAIN tables : Own(work.tables[u]) /\ Formed(work.tables[u].columns)
  BY <1>2 DEF AllBuilt, Built, Tables, Own
<1>4. DOMAIN tables \subseteq Seq(Words) /\ \A u \in DOMAIN tables : Own(tables[u])
  BY <1>2, <1>3, MarkOwns DEF AllBuilt, Built, Tables
<1>5. Built(work')
  BY <1>1, <1>4, TablesChange DEF AllBuilt
<1>. QED  BY <1>1, <1>5 DEF AllBuilt

LEMMA AllBuiltReadViewColumns ==
  ASSUME AllBuilt, NEW r \in Reloads, ReadViewColumns(r)
  PROVE  AllBuilt'
<1>1. /\ work' = [work EXCEPT !.views = Stored(@, Head(todo), ReadColumns(Db, Head(todo)))]
      /\ todo # << >> /\ todo' = Tail(todo) /\ UNCHANGED dbSchema /\ at' = "viewColumns"
  BY DEF ReadViewColumns, Makes, Proceeds, engine
<1>2. Head(todo) \in Seq(Words) /\ todo' \in Seq(Seq(Words))
  BY <1>1 DEF AllBuilt
<1>3. /\ DOMAIN work' = Parts /\ work'.tables = work.tables /\ work'.fks = work.fks
      /\ DOMAIN work'.views = DOMAIN work.views \cup {Head(todo)}
  BY <1>1 DEF AllBuilt, Built, Parts, Stored
<1>4. Built(work')
  BY <1>2, <1>3 DEF AllBuilt, Built, Tables, Views
<1>. QED  BY <1>1, <1>2, <1>4 DEF AllBuilt

LEMMA AllBuiltReadForeignKeys ==
  ASSUME AllBuilt, WellFormed(Db), NEW r \in Reloads, ReadForeignKeys(r)
  PROVE  AllBuilt'
<1>1. PICK fks \in ReadForeign(Db) : work' = [work EXCEPT !.fks = fks]
  BY DEF ReadForeignKeys
<1>2. UNCHANGED <<todo, dbSchema>> /\ at' = "functions"
  BY DEF ReadForeignKeys, Proceeds, engine
<1>3. Listed(fks)
  BY ForeignListed
<1>4. /\ DOMAIN work' = Parts /\ work'.tables = work.tables /\ work'.fks = fks
      /\ work'.views = work.views
  BY <1>1 DEF AllBuilt, Built, Parts
<1>5. Built(work')
  BY <1>3, <1>4 DEF AllBuilt, Built, Tables, Views
<1>. QED  BY <1>2, <1>5 DEF AllBuilt

\* The other queries, and what is no query.
LEMMA AllBuiltElsewhere ==
  ASSUME AllBuilt, WellFormed(Db),
         \/ AlterDatabase \/ PoolUsers
         \/ \E r \in Reloads :
              \/ Reload(r) \/ Lock(r) \/ QueryFails(r) \/ \E ok \in BOOLEAN : GenerateSchema(r, ok)
              \/ ReadEnums(r) \/ ReadTables(r) \/ ReadTableIndexes(r) \/ ReadViews(r)
              \/ RowsEnd(r) \/ ReadFunctions(r) \/ ReadSequences(r)
  PROVE  AllBuilt'
<1>1. CASE UNCHANGED <<todo, work, dbSchema>> /\ (at' = at \/ at' \notin {"key", "indexes"})
  BY <1>1 DEF AllBuilt
<1>2. CASE \E r \in Reloads : QueryFails(r) \/ \E ok \in BOOLEAN : GenerateSchema(r, ok)
  <2>1. work' = Nothing /\ todo' = << >> /\ at' = "none" /\ UNCHANGED dbSchema
    BY <1>2 DEF QueryFails, GenerateSchema, Ends, engine
  <2>. QED  BY <2>1, NothingBuilt DEF AllBuilt
<1>3. ASSUME NEW r \in Reloads, ReadEnums(r) PROVE AllBuilt'
  <2>1. work' = [work EXCEPT !.enums = Db.enums] /\ UNCHANGED <<todo, dbSchema>> /\ at' = "tables"
    BY <1>3 DEF ReadEnums, Proceeds, engine
  <2>2. /\ DOMAIN work' = Parts /\ work'.tables = work.tables /\ work'.fks = work.fks
        /\ work'.views = work.views
    BY <2>1 DEF AllBuilt, Built, Parts
  <2>3. Built(work')
    BY <2>2 DEF AllBuilt, Built, Tables, Views
  <2>. QED  BY <2>1, <2>3 DEF AllBuilt
<1>4. ASSUME NEW r \in Reloads, ReadTables(r) \/ ReadViews(r) PROVE AllBuilt'
  <2>1. /\ todo' = Sorted[DOMAIN Db.tables] \/ todo' = Sorted[DOMAIN Db.views]
        /\ at' \in {"columns", "viewColumns"} /\ UNCHANGED <<work, dbSchema>>
    BY <1>4 DEF ReadTables, ReadViews, Proceeds, engine
  <2>2. todo' \in Seq(Seq(Words))
    BY <2>1, OrderedWords
  <2>. QED  BY <2>1, <2>2 DEF AllBuilt
<1>5. ASSUME NEW r \in Reloads, ReadTableIndexes(r) PROVE AllBuilt'
  <2>1. at = "indexes" /\ at' = "columns" /\ todo' = Tail(todo) /\ UNCHANGED <<work, dbSchema>>
    BY <1>5 DEF ReadTableIndexes, Makes, Proceeds, engine
  <2>2. todo' \in Seq(Seq(Words))
    BY <2>1 DEF AllBuilt
  <2>. QED  BY <2>1, <2>2 DEF AllBuilt
<1>6. ASSUME NEW r \in Reloads, ReadSequences(r) PROVE AllBuilt'
  BY <1>6 DEF ReadSequences, AllBuilt
<1>7. ASSUME NEW r \in Reloads, Reload(r) \/ Lock(r) \/ RowsEnd(r) \/ ReadFunctions(r)
      PROVE  UNCHANGED <<todo, work, dbSchema>> /\ (at' = at \/ at' \notin {"key", "indexes"})
  BY <1>7 DEF Reload, Lock, RowsEnd, ReadFunctions, Proceeds, reading, engine
<1>8. ASSUME AlterDatabase \/ PoolUsers PROVE UNCHANGED <<at, todo, work, dbSchema>>
  BY <1>8 DEF AlterDatabase, PoolUsers, OnlyPool, reading, engine
<1>. QED  BY <1>1, <1>2, <1>3, <1>4, <1>5, <1>6, <1>7, <1>8

LEMMA AllBuiltAlways == Spec => []AllBuilt
<1>1. ASSUME Inv, AllBuilt, Next PROVE AllBuilt'
  <2>1. WellFormed(Db)
    BY <1>1, CatalogsAssumption DEF CatalogsAssumption, Inv, Begun, Db
  <2>. QED
    BY <1>1, <2>1, AllBuiltElsewhere, AllBuiltReadTableColumns, AllBuiltReadTableKey,
       AllBuiltReadViewColumns, AllBuiltReadForeignKeys DEF Next, ReloadRuns
<1>2. AllBuilt /\ UNCHANGED vars => AllBuilt'
  BY DEF vars, reading, engine, AllBuilt
<1>. QED  BY <1>1, <1>2, AllBuiltInit, InvAlways, PTL DEF Spec

\* Whatever order Go ranges over its maps in, and whatever DDL came between the queries
\* of the introspection: generate...Fields give each table whose field names no other
\* claims its own columns to sort by, the same types to read and to write, its
\* relationships, and one key for reading, watching, updating and deleting a row.
THEOREM TablesServed == Spec => []RootsServeTables
<1>1. AllBuilt => RootsServeTables
  <2>. SUFFICES ASSUME AllBuilt PROVE RootsServeTables
    OBVIOUS
  <2>1. Shaped(dbSchema)
    BY BuiltIsShaped DEF AllBuilt
  <2>2. ASSUME NEW typeOrder \in Orders(Tables(dbSchema)),
               NEW rootOrder \in Orders(Tables(dbSchema)),
               NEW viewOrder \in Orders(Views(dbSchema)), NEW t \in Distinct(dbSchema)
        PROVE  Serves(dbSchema, Generate(dbSchema, typeOrder, rootOrder, viewOrder), t)
    BY <2>1, TableServed DEF Ranged
  <2>. QED  BY <2>2 DEF RootsServeTables
<1>. QED  BY <1>1, AllBuiltAlways, PTL

-----------------------------------------------------------------------------
(* Who keeps a connection *)

\* The reload whose rows are open.
Ranging == {r \in Reloads : reload[r] = "running" /\ at \in TableQueries \cup {"viewColumns"}}
Open == {c \in Callers : tx[c] = "open"}

Keepers ==
  /\ IsFiniteSet(held) /\ held \subseteq Pollers \cup Ranging \cup Open
  /\ DOMAIN tx = Callers

LEMMA TakeGive ==
  ASSUME IsFiniteSet(held), NEW u, Take(u) \/ Give(u) \/ UNCHANGED held
  PROVE  IsFiniteSet(held')
  BY FS_AddElement, FS_RemoveElement DEF Take, Give

LEMMA KeepersInit == Init => Keepers
  BY FS_EmptySet DEF Init, PoolInit, Keepers

LEMMA KeepersPool ==
  ASSUME Keepers, PoolUsers
  PROVE  Keepers'
<1>1. Ranging' = Ranging
  BY DEF PoolUsers, OnlyPool, reading, Ranging
<1>2. ASSUME NEW p \in Pollers, Tick(p) \/ PollRuns(p) \/ PollBreaks(p)
      PROVE  Keepers'
  <2>1. (Take(p) \/ Give(p) \/ UNCHANGED held) /\ UNCHANGED tx
    BY <1>2 DEF Tick, PollRuns, PollQuery, PollRow, QueueFull, PollEnds, PollBreaks, Statement
  <2>2. IsFiniteSet(held')
    BY <2>1, TakeGive DEF Keepers
  <2>3. held' \subseteq held \cup {p} /\ Open' = Open
    BY <2>1 DEF Take, Give, Open
  <2>. QED  BY <1>1, <2>1, <2>2, <2>3 DEF Keepers
<1>3. ASSUME NEW c \in Callers, Transaction(c) \/ Begin(c)
      PROVE  Keepers'
  <2>1. /\ UNCHANGED held \/ (Take(c) /\ tx' = [tx EXCEPT ![c] = "open"])
        /\ DOMAIN tx' = Callers
        /\ \A d \in Callers : tx[d] = "open" => tx'[d] = "open"
    BY <1>3 DEF Transaction, Begin, Keepers
  <2>2. IsFiniteSet(held')
    BY <2>1, TakeGive DEF Keepers
  <2>3. Open \subseteq Open'
    BY <2>1 DEF Open
  <2>4. CASE UNCHANGED held
    BY <1>1, <2>1, <2>2, <2>3, <2>4 DEF Keepers
  <2>5. CASE Take(c) /\ tx' = [tx EXCEPT ![c] = "open"]
    <3>1. c \in Open'
      BY <2>5 DEF Open, Keepers
    <3>. QED  BY <1>1, <2>1, <2>2, <2>3, <2>5, <3>1 DEF Keepers, Take
  <2>. QED  BY <2>1, <2>4, <2>5
<1>4. ASSUME NEW c \in Callers, NEW outcome, FnEnds(c, outcome)
      PROVE  Keepers'
  <2>1. held' = held \ {c} /\ Open \subseteq Open' \cup {c} /\ DOMAIN tx' = Callers
    BY <1>4 DEF FnEnds, Give, Open, Keepers
  <2>2. IsFiniteSet(held')
    BY <1>4, TakeGive DEF Keepers, FnEnds
  <2>. QED  BY <1>1, <2>1, <2>2 DEF Keepers
<1>. QED  BY <1>2, <1>3, <1>4 DEF PoolUsers, PoolNext, TransactionRuns

LEMMA KeepersReload ==
  ASSUME Keepers, OneReload, NEW r \in Reloads, Reload(r) \/ ReloadRuns(r) \/ QueryFails(r)
  PROVE  Keepers'
<1>1. /\ Take(r) \/ Give(r) \/ UNCHANGED held
      /\ tx' = tx
  BY DEF Reload, ReloadRuns, QueryFails, Lock, ReadEnums, ReadTables, ReadTableColumns,
         ReadTableKey, ReadTableIndexes, ReadViews, ReadViewColumns, RowsEnd, ReadForeignKeys,
         ReadFunctions, ReadSequences, GenerateSchema, Proceeds, Elsewhere, Statement, pool
<1>2. IsFiniteSet(held') /\ Open' = Open
  BY <1>1, TakeGive DEF Keepers, Open
<1>. SUFFICES held' \subseteq Pollers \cup Ranging' \cup Open
  BY <1>1, <1>2 DEF Keepers
<1>3. CASE UNCHANGED held /\ Ranging \subseteq Ranging'
  BY <1>3 DEF Keepers
<1>4. CASE Give(r) /\ Ranging \subseteq {r}
  BY <1>4 DEF Keepers, Give
<1>5. CASE Take(r) /\ r \in Ranging' /\ Ranging = {}
  BY <1>5 DEF Keepers, Take
<1>6. reload[r] = "running" => Ranging \subseteq {r}
  BY DEF OneReload, Ranging
<1>7. CASE Reload(r) \/ Lock(r)
  <2>1. UNCHANGED held /\ Ranging \subseteq Ranging'
    BY <1>7 DEF Reload, Lock, pool, reading, Ranging, OneReload
  <2>. QED  BY <1>3, <2>1
<1>8. CASE RowsEnd(r) \/ QueryFails(r)
  BY <1>4, <1>6, <1>8 DEF RowsEnd, QueryFails
<1>9. CASE ReadTables(r) \/ ReadViews(r)
  <2>1. reload[r] = "running" /\ at \in {"tables", "views"} /\ Take(r)
        /\ at' \in {"columns", "viewColumns"} /\ reload' = reload
    BY <1>9 DEF ReadTables, ReadViews, Makes, Proceeds
  <2>. QED  BY <1>5, <2>1 DEF Ranging, TableQueries
<1>10. CASE \/ ReadTableColumns(r) \/ ReadTableKey(r) \/ ReadTableIndexes(r)
            \/ ReadViewColumns(r)
  <2>1. UNCHANGED <<held, reload>> /\ at' \in TableQueries \cup {"viewColumns"}
    BY <1>10 DEF ReadTableColumns, ReadTableKey, ReadTableIndexes, ReadViewColumns, Makes,
                 Proceeds, Statement, TableQueries
  <2>. QED  BY <1>3, <2>1 DEF Ranging
<1>11. CASE \/ ReadEnums(r) \/ ReadForeignKeys(r) \/ ReadFunctions(r) \/ ReadSequences(r)
            \/ \E ok \in BOOLEAN : GenerateSchema(r, ok)
  <2>1. UNCHANGED held /\ at \in {"enums", "fks", "functions", "sequences", "generate"}
    BY <1>11 DEF ReadEnums, ReadForeignKeys, ReadFunctions, ReadSequences, GenerateSchema,
                 Makes, Statement
  <2>. QED  BY <1>3, <2>1 DEF Ranging, TableQueries
<1>. QED  BY <1>7, <1>8, <1>9, <1>10, <1>11 DEF ReloadRuns

LEMMA KeepersAlways == Spec => []Keepers
<1>1. ASSUME Inv, Keepers, Next PROVE Keepers'
  <2>1. CASE AlterDatabase
    BY <1>1, <2>1 DEF AlterDatabase, pool, reading, Keepers, Ranging, Open
  <2>. QED  BY <1>1, <2>1, KeepersPool, KeepersReload DEF Next, Inv
<1>2. Keepers /\ UNCHANGED vars => Keepers'
  BY DEF vars, pool, reading, Keepers, Ranging, Open
<1>. QED  BY <1>1, <1>2, KeepersInit, InvAlways, PTL DEF Spec

\* More connections than pollers and one: of the reloads, mu lets one in at a time.
Roomy == IsFiniteSet(Pollers) /\ Cardinality(Pollers) + 1 < MaxConns

\* However many goroutines reload and begin transactions: those who range over rows, and may
\* ask for a second connection meanwhile, never fill the pool by themselves.  A full pool has
\* an open transaction; that this one ends is up to its function (see ConnectionPool).
THEOREM SomebodyGives ==
  ASSUME Roomy
  PROVE  Spec => [](Free \/ \E c \in Callers : tx[c] = "open")
<1>1. ASSUME Inv, Keepers, Open = {} PROVE Free
  <2>1. PICK r : Ranging \subseteq {r}
    BY <1>1 DEF Inv, OneReload, Ranging
  <2>2. held \in SUBSET (Pollers \cup {r})
    BY <1>1, <2>1 DEF Keepers
  <2>3. /\ IsFiniteSet(Pollers \cup {r}) /\ Cardinality(Pollers) \in Nat
        /\ Cardinality(Pollers \cup {r}) <= Cardinality(Pollers) + 1
        /\ Cardinality(Pollers \cup {r}) \in Nat
    <3>1. /\ IsFiniteSet(Pollers \cup {r}) /\ Cardinality(Pollers) \in Nat
          /\ Cardinality(Pollers \cup {r}) =
               IF r \in Pollers THEN Cardinality(Pollers) ELSE Cardinality(Pollers) + 1
      BY FS_AddElement, FS_CardinalityType DEF Roomy
    <3>. QED  BY <3>1
  <2>4. Cardinality(held) \in Nat /\ Cardinality(held) <= Cardinality(Pollers \cup {r})
    BY <1>1, <2>2, <2>3, FS_Subset, FS_CardinalityType DEF Keepers
  <2>5. MaxConns \in Nat
    BY PoolAssumption DEF PoolAssumption, MaxConns
  <2>. QED  BY <2>3, <2>4, <2>5 DEF Free, Roomy
<1>2. Inv /\ Keepers => Free \/ \E c \in Callers : tx[c] = "open"
  BY <1>1 DEF Open
<1>. QED  BY <1>2, InvAlways, KeepersAlways, PTL
=============================================================================
