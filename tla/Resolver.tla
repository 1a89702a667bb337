------------------------------ MODULE Resolver ------------------------------
(***************************************************************************)
(* internal/resolver/resolver.go: GraphQL arguments to numbered SQL, and   *)
(* the statements on one table that carry the operations out.              *)
(*                                                                         *)
(* Go ranges over its maps in any order.  A map is therefore the sequence  *)
(* in which `range` yields its entries, and both orders of a filter are    *)
(* among Filters.  SQL text is a tree in which [arg |-> n] stands for $n;  *)
(* what PostgreSQL makes of it is Eval and Run.                            *)
(*                                                                         *)
(* A filter is a sequence of entries                                       *)
(*   [key |-> "_and", subs |-> <<filter, ...>>]      (also "_or")          *)
(*   [key |-> "_not", sub |-> filter]                                      *)
(*   [key |-> "col", col |-> c, ops |-> <<[op |-> o, val |-> v], ...>>]    *)
(* "_eq", "_neq" and "_gt" stand for all the operators of one argument,    *)
(* "_in" and "_nin" take a sequence, "_is_null" a Boolean.                 *)
(***************************************************************************)
EXTENDS Integers, Sequences, FiniteSets, SequencesExt

CONSTANTS Clients,    \* goroutines that resolve aggregates
          Ids,        \* values of the primary key "id"
          Numbers,    \* values of the nullable column "n"
          Filters,    \* the arguments explored: where,
          Pages,      \*   <<limit, offset>>, each <<>> or a sequence of one,
          Keys,       \*   primary keys, as sequences of [col, val],
          Edits,      \*   <<_set, _inc>>, two such sequences,
          Batches,    \*   and sequences of objects, which are such sequences
          Questions,  \* the <<where, page>> of aggregates
          NoCall, Torn

\* SQL's NULL.
Null == -1

Columns == {"id", "n"}
Rows == [id : Ids, n : Numbers \cup {Null}]

ASSUME ResolverAssumption ==
  /\ Ids \subseteq Nat /\ Numbers \subseteq Nat
  /\ IsFiniteSet(Ids) /\ IsFiniteSet(Numbers) /\ IsFiniteSet(Clients)

VARIABLES table,      \* the rows, no two with one id
          aggregate   \* client -> its latest ResolveAggregate, or NoCall

resolverVars == <<table, aggregate>>

-----------------------------------------------------------------------------
(* The builders.  Each returns the tree and the arguments it appended;     *)
(* the next placeholder is start + the number of arguments so far.         *)

Nothing == [conds |-> <<>>, args |-> <<>>]

\* One operator of a column.  A list that is empty, adds no condition.
Condition(col, o, next) ==
  CASE o.op \in {"_eq", "_neq", "_gt"} ->
         [conds |-> <<[k |-> o.op, col |-> col, arg |-> next]>>, args |-> <<o.val>>]
    [] o.op \in {"_in", "_nin"} /\ o.val # <<>> ->
         [conds |-> <<[k |-> o.op, col |-> col,
                       list |-> [i \in DOMAIN o.val |-> next + i - 1]]>>,
          args |-> o.val]
    [] o.op = "_is_null" ->
         [conds |-> <<[k |-> IF o.val THEN "null" ELSE "notnull", col |-> col]>>,
          args |-> <<>>]
    [] OTHER -> Nothing

ColumnConditions(col, ops, start) ==
  FoldLeft(LAMBDA acc, o :
             LET c == Condition(col, o, start + Len(acc.args))
             IN [conds |-> acc.conds \o c.conds, args |-> acc.args \o c.args],
           Nothing, ops)

RECURSIVE WhereClause(_, _)

\* Faulty variant: every part is numbered from the beginning.
Parts_NotAdvanced(subs, start) ==
  FoldLeft(LAMBDA acc, f :
             LET c == WhereClause(f, start)
             IN IF c.conds = <<>> THEN acc
                ELSE [conds |-> Append(acc.conds, [k |-> "and", parts |-> c.conds]),
                      args |-> acc.args \o c.args],
           Nothing, subs)

\* The parts of an _and or an _or that are not empty, numbered one after the other.
Parts(subs, start) ==
  FoldLeft(LAMBDA acc, f :
             LET c == WhereClause(f, start + Len(acc.args))
             IN IF c.conds = <<>> THEN acc
                ELSE [conds |-> Append(acc.conds, [k |-> "and", parts |-> c.conds]),
                      args |-> acc.args \o c.args],
           Nothing, subs)

\* `key` joins the parts, unless there is none.
Junction(key, p) ==
  IF p.conds = <<>> THEN Nothing
  ELSE [conds |-> <<[k |-> IF key = "_and" THEN "and" ELSE "or", parts |-> p.conds]>>,
        args |-> p.args]

Negation(c) ==
  IF c.conds = <<>> THEN Nothing
  ELSE [conds |-> <<[k |-> "not", part |-> [k |-> "and", parts |-> c.conds]]>>,
        args |-> c.args]

Entry(e, next) ==
  CASE e.key \in {"_and", "_or"} -> Junction(e.key, Parts(e.subs, next))
    [] e.key = "_not" -> Negation(WhereClause(e.sub, next))
    [] OTHER -> ColumnConditions(e.col, e.ops, next)

WhereClause(where, start) ==
  FoldLeft(LAMBDA acc, e :
             LET c == Entry(e, start + Len(acc.args))
             IN [conds |-> acc.conds \o c.conds, args |-> acc.args \o c.args],
           Nothing, where)

\* "col = $n" for every entry of a map of column values.
Equalities(pairs, start) ==
  [i \in DOMAIN pairs |-> [k |-> "_eq", col |-> pairs[i].col, arg |-> start + i - 1]]

ArgsOf(pairs) == [i \in DOMAIN pairs |-> pairs[i].val]

\* limit and offset are <<>> or the one value given.
SelectQuery(where, limit, offset) ==
  LET w == WhereClause(where, 1) IN
  LET l == Len(w.args) + 1 IN
  [verb |-> "select", where |-> w.conds,
   limit |-> IF limit = <<>> THEN 0 ELSE l,
   offset |-> IF offset = <<>> THEN 0 ELSE l + Len(limit),
   args |-> w.args \o limit \o offset]

\* Faulty variant: the filter is forgotten.
CountQuery_All(where) ==
  [verb |-> "select", where |-> <<>>, limit |-> 0, offset |-> 0, args |-> <<>>]

CountQuery(where) ==
  LET w == WhereClause(where, 1)
  IN [verb |-> "select", where |-> w.conds, limit |-> 0, offset |-> 0, args |-> w.args]

ByPKQuery(pk) ==
  [verb |-> "select", where |-> Equalities(pk, 1), limit |-> 0, offset |-> 0,
   args |-> ArgsOf(pk)]

DeleteQuery(where) ==
  LET w == WhereClause(where, 1)
  IN [verb |-> "delete", where |-> w.conds, args |-> w.args]

DeleteByPKQuery(pk) ==
  [verb |-> "delete", where |-> Equalities(pk, 1), args |-> ArgsOf(pk)]

\* "col = $n" for _set, "col = col + $n" for _inc.
Assignments(set, inc) ==
  [i \in 1 .. Len(set) + Len(inc) |->
     IF i <= Len(set) THEN [col |-> set[i].col, add |-> FALSE, arg |-> i]
     ELSE [col |-> inc[i - Len(set)].col, add |-> TRUE, arg |-> i]]

\* Faulty variant: the filter's placeholders follow those of _set, not those of _inc.
UpdateQuery_AfterSet(where, set, inc) ==
  LET w == WhereClause(where, Len(set) + 1)
  IN [verb |-> "update", set |-> Assignments(set, inc), where |-> w.conds,
      args |-> ArgsOf(set) \o ArgsOf(inc) \o w.args]

UpdateQuery(where, set, inc) ==
  LET w == WhereClause(where, Len(set) + Len(inc) + 1)
  IN [verb |-> "update", set |-> Assignments(set, inc), where |-> w.conds,
      args |-> ArgsOf(set) \o ArgsOf(inc) \o w.args]

UpdateByPKQuery(pk, set, inc) ==
  [verb |-> "update", set |-> Assignments(set, inc),
   where |-> Equalities(pk, Len(set) + Len(inc) + 1),
   args |-> ArgsOf(set) \o ArgsOf(inc) \o ArgsOf(pk)]

\* The value of a column in an object: nil, that is NULL, where it is not given.
Given(object, col) ==
  IF \E i \in DOMAIN object : object[i].col = col
  THEN (CHOOSE p \in {object[i] : i \in DOMAIN object} : p.col = col).val
  ELSE Null

\* The columns are those of the first object, whatever the others hold.
BatchInsertQuery(objects) ==
  LET cols == [i \in DOMAIN objects[1] |-> objects[1][i].col]
  IN [verb |-> "insert", cols |-> cols,
      values |-> [o \in DOMAIN objects |->
                    [i \in DOMAIN cols |-> (o - 1) * Len(cols) + i]],
      args |-> FlattenSeq([o \in DOMAIN objects |->
                 [i \in DOMAIN cols |-> Given(objects[o], cols[i])]])]

InsertQuery(object) ==
  [verb |-> "insert", cols |-> [i \in DOMAIN object |-> object[i].col],
   values |-> <<[i \in DOMAIN object |-> i]>>, args |-> ArgsOf(object)]

-----------------------------------------------------------------------------
(* PostgreSQL: conditions in three-valued logic, and the outcomes of a     *)
(* statement.                                                              *)

\* No < Unknown < Yes: AND is the least, OR the greatest, NOT the mirror image.
Yes == 2
Unknown == 1
No == 0

Truth(b) == IF b THEN Yes ELSE No
Conj(s) == Min({Yes} \cup s)
Disj(s) == Max({No} \cup s)

Compare(op, x, y) ==
  IF x = Null \/ y = Null THEN Unknown
  ELSE Truth(CASE op = "_eq" -> x = y [] op = "_neq" -> x # y [] op = "_gt" -> x > y)

Among(x, values) == Disj({Compare("_eq", x, v) : v \in values})

RECURSIVE Eval(_, _, _)
Eval(e, row, args) ==
  CASE e.k = "and" -> Conj({Eval(p, row, args) : p \in Range(e.parts)})
    [] e.k = "or" -> Disj({Eval(p, row, args) : p \in Range(e.parts)})
    [] e.k = "not" -> Yes - Eval(e.part, row, args)
    [] e.k = "null" -> Truth(row[e.col] = Null)
    [] e.k = "notnull" -> Truth(row[e.col] # Null)
    [] e.k = "_in" -> Among(row[e.col], {args[i] : i \in Range(e.list)})
    [] e.k = "_nin" -> Yes - Among(row[e.col], {args[i] : i \in Range(e.list)})
    [] OTHER -> Compare(e.k, row[e.col], args[e.arg])

\* The placeholders of a condition.
RECURSIVE Marks(_)
Marks(e) ==
  CASE e.k \in {"and", "or"} -> UNION {Marks(p) : p \in Range(e.parts)}
    [] e.k = "not" -> Marks(e.part)
    [] e.k \in {"null", "notnull"} -> {}
    [] e.k \in {"_in", "_nin"} -> Range(e.list)
    [] OTHER -> {e.arg}

Placeholders(q) ==
  UNION ({Marks(c) : c \in IF q.verb = "insert" THEN {} ELSE Range(q.where)}
         \cup CASE q.verb = "select" -> {{q.limit, q.offset} \ {0}}
                [] q.verb = "update" -> {{s.arg : s \in Range(q.set)}}
                [] q.verb = "insert" -> {Range(v) : v \in Range(q.values)}
                [] OTHER -> {})

Selected(t, q) ==
  {r \in t : Conj({Eval(c, r, q.args) : c \in Range(q.where)}) = Yes}

\* A row after the assignments, all of which read the old row.
Assigned(r, q) ==
  [c \in Columns |->
     LET s == {a \in Range(q.set) : a.col = c}
     IN IF s = {} THEN r[c]
        ELSE LET a == CHOOSE a \in s : TRUE
             IN IF ~a.add THEN q.args[a.arg]
                ELSE IF r[c] = Null \/ q.args[a.arg] = Null THEN Null
                ELSE r[c] + q.args[a.arg]]

Inserted(q, v) ==
  [c \in Columns |-> IF \E i \in DOMAIN v : q.cols[i] = c
                     THEN q.args[v[CHOOSE i \in DOMAIN v : q.cols[i] = c]]
                     ELSE Null]

Failure(t) == [error |-> TRUE, rows |-> {}, after |-> t]
Success(rows, after) == [error |-> FALSE, rows |-> rows, after |-> after]

\* A statement refused by the server changes nothing; so does one of wrong
\* syntax, or with other arguments than its placeholders.
Changed(t, q) ==
  LET old == Selected(t, q)
      new == {Assigned(r, q) : r \in old}
  IN IF /\ q.set # <<>>
        /\ Cardinality(new) = Cardinality(old)
        /\ \A r \in new : r.id # Null /\ \A s \in (t \ old) \cup (new \ {r}) : s.id # r.id
     THEN Success(new, (t \ old) \cup new) ELSE Failure(t)

Added(t, q) ==
  LET new == [i \in DOMAIN q.values |-> Inserted(q, q.values[i])]
  IN IF /\ q.cols # <<>>
        /\ \A i \in DOMAIN new : new[i].id # Null /\ \A r \in t : r.id # new[i].id
        /\ \A i, j \in DOMAIN new : i # j => new[i].id # new[j].id
     THEN Success(Range(new), t \cup Range(new)) ELSE Failure(t)

Limited(t, q) ==
  LET m == Selected(t, q)
      skip == IF q.offset = 0 THEN 0 ELSE q.args[q.offset]
      left == Max({0, Cardinality(m) - skip})
      size == IF q.limit = 0 THEN left ELSE Min({left, q.args[q.limit]})
  IN {Success(s, t) : s \in {x \in SUBSET m : Cardinality(x) = size}}

\* What the statement may return and leave behind.
Run(t, q) ==
  IF Placeholders(q) # 1 .. Len(q.args) THEN {Failure(t)}
  ELSE CASE q.verb = "select" -> Limited(t, q)
         [] q.verb = "delete" -> {Success(Selected(t, q), t \ Selected(t, q))}
         [] q.verb = "update" -> {Changed(t, q)}
         [] q.verb = "insert" -> {Added(t, q)}

-----------------------------------------------------------------------------
(* What a filter means, without SQL: an entry that constrains nothing      *)
(* (an empty list, an empty _and or _or) is as if it were not there.       *)

EmptyList(o) == o.op \in {"_in", "_nin"} /\ o.val = <<>>

RECURSIVE Vacuous(_)
Vacuous(where) ==
  \A e \in Range(where) :
    CASE e.key \in {"_and", "_or"} -> \A f \in Range(e.subs) : Vacuous(f)
      [] e.key = "_not" -> Vacuous(e.sub)
      [] OTHER -> \A o \in Range(e.ops) : EmptyList(o)

\* `env` gives session variables their values, where a filter still holds some.
Says(o, x, env) ==
  LET v == IF "var" \in DOMAIN o THEN env[o.var] ELSE o.val IN
  IF EmptyList(o) THEN Yes
  ELSE CASE o.op = "_in" -> Among(x, Range(v))
         [] o.op = "_nin" -> Yes - Among(x, Range(v))
         [] o.op = "_is_null" -> Truth(v = (x = Null))
         [] OTHER -> Compare(o.op, x, v)

RECURSIVE Meaning(_, _, _)
Meaning(where, row, env) ==
  Conj({CASE e.key = "_and" -> Conj({Meaning(f, row, env) : f \in Range(e.subs)})
         [] e.key = "_or" ->
              Disj({Meaning(f, row, env) : f \in {g \in Range(e.subs) : ~Vacuous(g)}})
         [] e.key = "_not" -> Yes - Meaning(e.sub, row, env)
         [] OTHER -> Conj({Says(o, row[e.col], env) : o \in Range(e.ops)})
       : e \in {x \in Range(where) : ~Vacuous(<<x>>)}})

Matching(t, where) == {r \in t : Meaning(where, r, <<>>) = Yes}

-----------------------------------------------------------------------------
(* The operations.  Each but ResolveAggregate is one statement, and any    *)
(* goroutine may send it at any time; every statement may also fail for a  *)
(* reason of the server's.                                                 *)

ResolverInit ==
  /\ table = {}
  /\ aggregate = [c \in Clients |-> NoCall]

Outcomes(q) == Run(table, q) \cup {Failure(table)}

\* The bound on the model: no number leaves Numbers.
InBounds(t) == t \subseteq Rows

Execute(q) ==
  /\ \E o \in Outcomes(q) : InBounds(o.after) /\ table' = o.after
  /\ UNCHANGED aggregate

ResolveQuery(where, page) == Execute(SelectQuery(where, page[1], page[2]))

ResolveQueryByPK(pk) == Execute(ByPKQuery(pk))

ResolveInsertOne(object) == Execute(InsertQuery(object))

\* No object, no statement.
ResolveInsert(objects) ==
  IF objects = <<>> THEN UNCHANGED resolverVars ELSE Execute(BatchInsertQuery(objects))

ResolveUpdate(where, edit) == Execute(UpdateQuery(where, edit[1], edit[2]))

ResolveUpdateByPK(pk, edit) == Execute(UpdateByPKQuery(pk, edit[1], edit[2]))

ResolveDelete(where) == Execute(DeleteQuery(where))

ResolveDeleteByPK(pk) == Execute(DeleteByPKQuery(pk))

\* The count, the nodes and the minima are three statements, in no
\* transaction.  `saw` is the table they all saw, or Torn.
At(c, step) == aggregate[c] # NoCall /\ aggregate[c].step = step

Seen(a) == IF a.saw = table THEN table ELSE Torn

Idle(c) == aggregate[c] = NoCall \/ At(c, "answered")

Fails(c) == aggregate' = [aggregate EXCEPT ![c] = NoCall]

ResolveAggregate(c, where, page) ==
  /\ Idle(c)
  /\ \E o \in Outcomes(CountQuery(where)) :
       IF o.error THEN Fails(c)
       ELSE aggregate' = [aggregate EXCEPT ![c] =
              [step |-> "nodes", where |-> where, page |-> page, saw |-> table,
               count |-> Cardinality(o.rows), nodes |-> {}, fields |-> NoCall]]
  /\ UNCHANGED table

ResolveNodes(c) ==
  LET a == aggregate[c] IN
  /\ At(c, "nodes")
  /\ \E o \in Outcomes(SelectQuery(a.where, a.page[1], a.page[2])) :
       IF o.error THEN Fails(c)
       ELSE aggregate' = [aggregate EXCEPT ![c].step = "fields",
              ![c].nodes = o.rows, ![c].saw = Seen(a)]
  /\ UNCHANGED table

\* MIN(n) and MAX(n) ignore NULLs, and are NULL where nothing is left.
FieldsOf(rows) ==
  LET ns == {r.n : r \in rows} \ {Null}
  IN [min |-> IF ns = {} THEN Null ELSE Min(ns),
      max |-> IF ns = {} THEN Null ELSE Max(ns)]

\* An error of the last statement is dropped: the answer has no fields.
ResolveAggregateFields(c) ==
  LET a == aggregate[c] IN
  /\ At(c, "fields")
  /\ \E o \in Outcomes(CountQuery(a.where)) :
       aggregate' = [aggregate EXCEPT ![c].step = "answered", ![c].saw = Seen(a),
         ![c].fields = IF o.error THEN NoCall ELSE FieldsOf(o.rows)]
  /\ UNCHANGED table

Statement ==
  \/ \E f \in Filters, p \in Pages : ResolveQuery(f, p)
  \/ \E k \in Keys : ResolveQueryByPK(k)
  \/ \E b \in Batches : ResolveInsert(b)
  \/ \E o \in UNION {Range(b) : b \in Batches} : ResolveInsertOne(o)
  \/ \E f \in Filters, e \in Edits : ResolveUpdate(f, e)
  \/ \E k \in Keys, e \in Edits : ResolveUpdateByPK(k, e)
  \/ \E f \in Filters : ResolveDelete(f)
  \/ \E k \in Keys : ResolveDeleteByPK(k)

ResolverNext ==
  \/ Statement
  \/ \E c \in Clients :
       \/ \E q \in Questions : ResolveAggregate(c, q[1], q[2])
       \/ ResolveNodes(c)
       \/ ResolveAggregateFields(c)

-----------------------------------------------------------------------------
(* Properties *)

\* The rows of a page of the matches: as many as are left, and no more than asked for.
IsPage(rows, matches, page) ==
  LET left == Max({0, Cardinality(matches) - (IF page[2] = <<>> THEN 0 ELSE page[2][1])})
  IN /\ rows \subseteq matches
     /\ Cardinality(rows) = IF page[1] = <<>> THEN left ELSE Min({left, page[1][1]})

\* However conditions are nested and wherever LIMIT and OFFSET follow them, each
\* argument stands behind its own placeholder: a query returns a page of exactly the
\* rows its filter means, and never fails for what buildSelectQuery made of it.
QueryAnswersFilter ==
  /\ \A f \in Filters, p \in Pages :
       \A o \in Run(table, SelectQuery(f, p[1], p[2])) :
         ~o.error /\ IsPage(o.rows, Matching(table, f), p)
  /\ \A k \in Keys : \A o \in Run(table, ByPKQuery(k)) :
       ~o.error /\ o.rows = {r \in table : \A i \in DOMAIN k : r[k[i].col] = k[i].val}

\* What an edit makes of a row, and the edits PostgreSQL has no reason to refuse.
Edited(r, edit) ==
  [c \in Columns |->
     CASE \E p \in Range(edit[1]) : p.col = c -> Given(edit[1], c)
       [] \E p \in Range(edit[2]) : p.col = c /\ r[c] # Null -> r[c] + Given(edit[2], c)
       [] OTHER -> r[c]]

Plain(edit) ==
  LET cols == [i \in 1 .. Len(edit[1]) + Len(edit[2]) |-> (edit[1] \o edit[2])[i].col]
  IN cols # <<>> /\ IsInjective(cols) /\ "id" \notin Range(cols)

EditsExactly(o, rows, edit) ==
  \/ o.error /\ ~Plain(edit)
  \/ ~o.error /\ o.after = (table \ rows) \cup {Edited(r, edit) : r \in rows}

Stores(objects) ==
  {[c \in Columns |->
      IF \E p \in Range(objects[1]) : p.col = c THEN Given(objects[i], c) ELSE Null]
   : i \in DOMAIN objects}

\* A mutation touches the rows its filter or its key means and no other, gives each
\* the values asked for although _set, _inc and the filter share one list of
\* arguments, and an insert stores for every object the columns of the first.
WritesAsAsked ==
  /\ \A f \in Filters : \A o \in Run(table, DeleteQuery(f)) :
       ~o.error /\ o.rows = Matching(table, f) /\ o.after = table \ o.rows
  /\ \A f \in Filters, e \in Edits : \A o \in Run(table, UpdateQuery(f, e[1], e[2])) :
       EditsExactly(o, Matching(table, f), e)
  /\ \A k \in Keys, e \in Edits : \A o \in Run(table, UpdateByPKQuery(k, e[1], e[2])) :
       EditsExactly(o, {r \in table : \A i \in DOMAIN k : r[k[i].col] = k[i].val}, e)
  /\ \A b \in Batches \ {<<>>} : \A o \in Run(table, BatchInsertQuery(b)) :
       IF o.error THEN b[1] = <<>> \/ (\E r \in Stores(b) : r.id = Null)
                       \/ Cardinality({r.id : r \in Stores(b)}) < Len(b)
                       \/ \E r \in Stores(b), s \in table : r.id = s.id
       ELSE o.rows = Stores(b) /\ o.after = table \cup o.rows

\* The three statements of an aggregate are built from one filter: if no write came
\* between them, the count is that of the matches, of which the nodes are the page
\* asked for, and the minima and maxima are theirs.
AggregateAgrees ==
  \A c \in Clients : At(c, "answered") /\ aggregate[c].saw # Torn =>
    LET a == aggregate[c]
        m == Matching(a.saw, a.where)
    IN /\ a.count = Cardinality(m)
       /\ IsPage(a.nodes, m, a.page)
       /\ a.fields # NoCall => a.fields = FieldsOf(m)

=============================================================================
