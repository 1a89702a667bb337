-------------------------- MODULE SchemaGenerator --------------------------
(***************************************************************************)
(* The GraphQL schema of a database: internal/schema/generator.go, with    *)
(* queries, mutations and subscriptions enabled as in the default.         *)
(*                                                                         *)
(* A database schema is a record [tables, views, fks, enums] as            *)
(* SchemaReload reads it.  The name of a table or a column is the sequence *)
(* of the words between its underscores.  The code ranges over Go maps, in *)
(* an order of its own each time, and a later field overwrites an earlier  *)
(* one of its name: an object's fields are merged from parts in an order.  *)
(* Wording, resolvers (there are none), limits and the empty placeholders  *)
(* of "where" are left out.                                                *)
(***************************************************************************)
EXTENDS Integers, Sequences, FiniteSets, SequencesExt

\* A type is [base, list, nonNull].
NonNull(type) == [type EXCEPT !.nonNull = TRUE]

Ints == {"int2", "int4", "smallint", "integer", "smallserial", "serial"}
BigInts == {"int8", "bigint", "bigserial"}
Floats == {"float4", "float8", "real", "double precision", "numeric", "decimal", "money"}
Numeric == Ints \cup BigInts \cup Floats
Comparable == Numeric \cup {"date", "time", "timetz", "timestamp", "timestamptz",
                            "varchar", "char", "text", "uuid"}
Geometric == {"point", "line", "lseg", "box", "path", "polygon", "circle"}

\* What both switch statements say alike.
Scalar(sql) ==
  CASE sql \in Ints -> "Int"
    [] sql \in BigInts -> "BigInt"
    [] sql \in Floats -> "Float"
    [] sql \in {"bool", "boolean"} -> "Boolean"
    [] sql = "uuid" -> "UUID"
    [] sql \in {"json", "jsonb"} -> "JSON"
    [] sql = "date" -> "Date"
    [] sql \in {"time", "timetz"} -> "Time"
    [] sql \in {"timestamp", "timestamptz"} -> "Timestamp"
    [] OTHER -> "String"

OfColumn(s, col, scalar) ==
  [base |-> IF col.sql \in s.enums THEN <<"enum", col.sql>> ELSE <<"scalar", scalar>>,
   list |-> col.array, nonNull |-> FALSE]

sqlTypeToGraphQL(s, col) ==
  OfColumn(s, col, IF col.sql \in Geometric THEN "JSON" ELSE Scalar(col.sql))

sqlTypeToGraphQLInput(s, col) == OfColumn(s, col, Scalar(col.sql))

-----------------------------------------------------------------------------
(* Tables, columns and names *)

Tables(s) == DOMAIN s.tables
Views(s) == DOMAIN s.views
Columns(s, t) == ToSet(s.tables[t].columns)
Marked(s, t) == {col \in Columns(s, t) : col.pk}
Named(cols) == {col.name : col \in cols}

\* toPascalCase: separators go, and empty words with them.
Pascal(name) == SelectSeq(name, LAMBDA word : word # "")

Plural(t) == Front(t) \o <<Last(t) \o "s">>

\* strings.TrimSuffix(sourceColumn, "_id")
generateRelationshipName(target, column) ==
  IF Len(column) > 1 /\ Last(column) = "id" THEN Front(column) ELSE target

\* buildRelationships: what a foreign key gives the table t.
Relationships(t, fk) ==
  (IF fk.source = t
   THEN {[name |-> generateRelationshipName(fk.target, fk.column), array |-> FALSE,
          to |-> fk.target]}
   ELSE {})
  \cup (IF fk.target = t
        THEN {[name |-> Plural(fk.source), array |-> TRUE, to |-> fk.source]}
        ELSE {})

\* fields[name] = field, for the fields of each part in turn: the last one stays.
Merged(parts) ==
  [name \in UNION {DOMAIN parts[n] : n \in DOMAIN parts} |->
     parts[Max({n \in DOMAIN parts : name \in DOMAIN parts[n]})][name]]

-----------------------------------------------------------------------------
(* Object types *)

\* Faulty variant: a relationship is made whether or not its target has a type.
Relations_Unchecked(s, t, fk) == Relationships(t, fk)

\* if targetType, ok := g.types[rel.TargetTable]; ok
Relations(s, t, fk) == {rel \in Relationships(t, fk) : rel.to \in Tables(s)}

\* The object type made for a table or, later, for a view: it takes the place of a
\* table's of that name.
TypeOf(s, name) ==
  [of |-> name, kind |-> IF name \in Views(s) THEN "view" ELSE "table"]

Column(s, t, name) == CHOOSE col \in Columns(s, t) : col.name = name

ColumnFields(s, t) ==
  [name \in Named(Columns(s, t)) |->
     LET col == Column(s, t, name)
         type == sqlTypeToGraphQL(s, col)
     IN [kind |-> "column", type |-> IF col.nullable THEN type ELSE NonNull(type)]]

\* The array relationship of a foreign key comes after the object one.  No view has
\* its type yet.
RelationFields(s, t, fk) ==
  LET rels == Relations(s, t, fk)
      last(name) == CHOOSE rel \in rels :
        rel.name = name /\ \A other \in rels : other.name = name /\ other.array => rel.array
  IN [name \in {rel.name : rel \in rels} |->
        [kind |-> IF last(name).array THEN "array" ELSE "object",
         type |-> [of |-> last(name).to, kind |-> "table"]]]

\* generateTableTypes: columns, then relationships.
TableFields(s, t) ==
  Merged(<<ColumnFields(s, t),
           Merged([n \in DOMAIN s.fks |-> RelationFields(s, t, s.fks[n])])>>)

-----------------------------------------------------------------------------
(* Input types *)

\* getOrderByInputType keeps the input it makes under its Pascal name: the first
\* table or view that asks for it gives it its columns, a view none.  Those that ask
\* are the targets of each table's array relationships, then the tables, then the views.
Askers(s, typeOrder, rootOrder, viewOrder) ==
  LET arrays(t) == {n \in DOMAIN s.fks : \E rel \in Relations(s, t, s.fks[n]) : rel.array}
  IN [m \in 1..(Len(typeOrder) + 2) |->
        CASE m <= Len(typeOrder) -> [n \in arrays(typeOrder[m]) |-> s.fks[n].source]
          [] m = Len(typeOrder) + 1 -> rootOrder
          [] OTHER -> viewOrder]

OrderBy(s, askers, name) ==
  LET asks(m) == {n \in DOMAIN askers[m] : Pascal(askers[m][n]) = Pascal(name)}
      m == Min({k \in DOMAIN askers : asks(k) # {}})
      first == askers[m][Min(asks(m))]
  IN IF first \in Tables(s) THEN Named(Columns(s, first)) ELSE {}

\* The arguments of tableName_by_pk and delete_tableName_by_pk.
PkArgs(s, t) ==
  [name \in Named(Marked(s, t)) |-> NonNull(sqlTypeToGraphQL(s, Column(s, t, name)))]

\* tableName_pk_columns_input
PkColumnsInput(s, t) ==
  [name \in Named(Marked(s, t)) |-> NonNull(sqlTypeToGraphQLInput(s, Column(s, t, name)))]

InsertInput(s, t) ==
  [name \in Named(Columns(s, t)) |->
     LET col == Column(s, t, name)
         type == sqlTypeToGraphQLInput(s, col)
     IN IF ~col.default /\ col.pk THEN NonNull(type) ELSE type]

\* tableName_set_input, and the values a stream's cursor begins with
SetInput(s, t) ==
  [name \in Named(Columns(s, t)) |-> sqlTypeToGraphQLInput(s, Column(s, t, name))]

\* Without a numeric column the argument _inc has no type.
IncInput(s, t) == Named({col \in Columns(s, t) : col.sql \in Numeric})

-----------------------------------------------------------------------------
(* Root fields *)

HasKey(s, t) == s.tables[t].key # {} /\ Marked(s, t) # {}

ListField(s, t, orderBy) == [kind |-> "list", type |-> TypeOf(s, t), orderBy |-> orderBy]

AggregateField(s, t, orderBy) ==
  [kind |-> "aggregate", type |-> TypeOf(s, t), orderBy |-> orderBy,
   sum |-> Named({col \in Columns(s, t) : col.sql \in Numeric}),
   max |-> Named({col \in Columns(s, t) : col.sql \in Comparable})]

\* A root field is named by what comes before the table's name and what comes after it.
Root(before, t, after) == before \o t \o after
Plain == << >>
Pk == <<"by", "pk">>

RootName(t, r) == Root(r[1], t, r[2])

\* The fields of each table or view, in the order in which they are ranged over.
Rooted(order, roots) ==
  Merged([n \in DOMAIN order |->
    LET t == order[n] IN
    [name \in {RootName(t, r) : r \in DOMAIN roots[t]} |->
       roots[t][CHOOSE r \in DOMAIN roots[t] : RootName(t, r) = name]]])

Keyed(s, t, names) == IF HasKey(s, t) THEN names ELSE {}

ByPkField(s, t) == [kind |-> "by_pk", type |-> TypeOf(s, t), args |-> PkArgs(s, t)]

QueryRoots(s, askers, t) ==
  LET orderBy == OrderBy(s, askers, t) IN
  [r \in {<<Plain, Plain>>, <<Plain, <<"aggregate">>>>} \cup Keyed(s, t, {<<Plain, Pk>>}) |->
     CASE r[2] = Plain -> ListField(s, t, orderBy)
       [] r[2] = Pk -> ByPkField(s, t)
       [] OTHER -> AggregateField(s, t, orderBy)]

generateQueryFields(s, askers, rootOrder, viewOrder) ==
  Merged(<<Rooted(rootOrder, [t \in Tables(s) |-> QueryRoots(s, askers, t)]),
           Rooted(viewOrder, [v \in Views(s) |->
             [r \in {<<Plain, Plain>>} |-> ListField(s, v, OrderBy(s, askers, v))]])>>)

SubscriptionRoots(s, askers, t) ==
  [r \in {<<Plain, Plain>>, <<Plain, <<"stream">>>>} \cup Keyed(s, t, {<<Plain, Pk>>}) |->
     CASE r[2] = Plain -> ListField(s, t, OrderBy(s, askers, t))
       [] r[2] = Pk -> ByPkField(s, t)
       [] OTHER -> [kind |-> "stream", type |-> TypeOf(s, t), args |-> SetInput(s, t)]]

generateSubscriptionFields(s, askers, rootOrder) ==
  Rooted(rootOrder, [t \in Tables(s) |-> SubscriptionRoots(s, askers, t)])

Insert == <<"insert">>
Update == <<"update">>
Delete == <<"delete">>

MutationRoots(s, t) ==
  LET type == TypeOf(s, t)
      change == [set |-> SetInput(s, t), inc |-> IncInput(s, t)]
      all == {<<Insert, Plain>>, <<Insert, <<"one">>>>, <<Update, Plain>>, <<Delete, Plain>>}
  IN [r \in all \cup Keyed(s, t, {<<Update, Pk>>, <<Delete, Pk>>}) |->
        CASE r = <<Insert, Plain>> -> [kind |-> "insert", type |-> type, args |-> InsertInput(s, t)]
          [] r = <<Insert, <<"one">>>> ->
               [kind |-> "insert_one", type |-> type, args |-> InsertInput(s, t)]
          [] r = <<Update, Plain>> -> [kind |-> "update", type |-> type, change |-> change]
          [] r = <<Update, Pk>> -> [kind |-> "update_by_pk", type |-> type,
                                    args |-> PkColumnsInput(s, t), change |-> change]
          [] r = <<Delete, Pk>> -> [kind |-> "delete_by_pk", type |-> type, args |-> PkArgs(s, t)]
          [] OTHER -> [kind |-> "delete", type |-> type]]

generateMutationFields(s, rootOrder) ==
  Rooted(rootOrder, [t \in Tables(s) |-> MutationRoots(s, t)])

\* typeOrder, rootOrder and viewOrder are the orders in which the maps are ranged over.
Generate(s, typeOrder, rootOrder, viewOrder) ==
  LET askers == Askers(s, typeOrder, rootOrder, viewOrder) IN
  [objects |-> [t \in Tables(s) |-> TableFields(s, t)],
   query |-> generateQueryFields(s, askers, rootOrder, viewOrder),
   mutation |-> generateMutationFields(s, rootOrder),
   subscription |-> generateSubscriptionFields(s, askers, rootOrder)]

\* s names each of them once.
Lists(s, names) ==
  /\ s \in Seq(names) /\ ToSet(s) = names
  /\ \A m, n \in DOMAIN s : s[m] = s[n] => m = n

\* The orders in which a map with the keys S may be ranged over.
Orders(S) == {f \in [1..Cardinality(S) -> S] : Lists(f, S)}

-----------------------------------------------------------------------------
(* What a generated schema g owes to a table of the schema s *)

Endings == {Plain, Pk, <<"aggregate">>, <<"stream">>, <<"one">>}

\* Some field of one table has the name of a field of the other, or one type name
\* stands for both.
Clash(t, u) ==
  \/ \E x, y \in Endings : t \o x = u \o y
  \/ Pascal(t) = Pascal(u)

Distinct(s) ==
  {t \in Tables(s) \ Views(s) :
     \A u \in (Tables(s) \cup Views(s)) \ {t} : ~Clash(t, u)}

KeyedFields(g, t) ==
  {<<g.query, Root(Plain, t, Pk)>>, <<g.subscription, Root(Plain, t, Pk)>>,
   <<g.mutation, Root(Update, t, Pk)>>, <<g.mutation, Root(Delete, t, Pk)>>}

\* One row can be read, watched, updated and deleted by the same arguments, geometry
\* apart, the columns of the key that were read; without one by no root field at all.
KeysAgree(s, g, t) ==
  LET there == {f \in KeyedFields(g, t) : f[2] \in DOMAIN f[1]}
      fields == {f[1][f[2]] : f \in there}
      key == Named(Columns(s, t)) \cap s.tables[t].key
      plain == {name \in key : Column(s, t, name).sql \notin Geometric}
  IN /\ there = IF key = {} THEN {} ELSE KeyedFields(g, t)
     /\ \A f \in fields : DOMAIN f.args = key /\ f.type.of = t
     /\ \A f, h \in fields : \A name \in plain : f.args[name] = h.args[name]

\* What a column is read as is what it is written as, geometry apart.
ColumnsAgree(s, g, t) ==
  \A col \in Columns(s, t) :
    LET field == g.objects[t][col.name]
        inputs == {g.mutation[Root(Insert, t, Plain)].args[col.name],
                   g.mutation[Root(Update, t, Plain)].change.set[col.name],
                   g.subscription[Root(Plain, t, <<"stream">>)].args[col.name]}
    IN field.kind = "column" /\ col.sql \notin Geometric =>
         \A input \in inputs : input.base = field.type.base /\ input.list = field.type.list

\* Both ends of a foreign key are fields, unless another claims their names, and
\* every relationship leads to a type.
RelationsLead(s, g, t) ==
  LET claims(name) == {rel \in UNION {Relationships(t, fk) : fk \in ToSet(s.fks)} : rel.name = name}
      leads(name, kind, to) ==
        claims(name) = {[name |-> name, array |-> kind = "array", to |-> to]} =>
          g.objects[t][name] = [kind |-> kind, type |-> [of |-> to, kind |-> "table"]]
  IN /\ \A fk \in ToSet(s.fks) : {fk.source, fk.target} \subseteq Tables(s) =>
          /\ fk.source = t =>
               leads(generateRelationshipName(fk.target, fk.column), "object", fk.target)
          /\ fk.target = t => leads(Plural(fk.source), "array", fk.source)
     /\ \A name \in DOMAIN g.objects[t] :
          g.objects[t][name].kind # "column" => g.objects[t][name].type.of \in DOMAIN g.objects

Serves(s, g, t) ==
  /\ g.query[t].orderBy = Named(Columns(s, t))
  /\ g.subscription[t].orderBy = Named(Columns(s, t))
  /\ KeysAgree(s, g, t) /\ ColumnsAgree(s, g, t) /\ RelationsLead(s, g, t)
=============================================================================
