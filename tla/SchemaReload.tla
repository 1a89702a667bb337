---------------------------- MODULE SchemaReload ----------------------------
(***************************************************************************)
(* Engine.Reload (internal/engine/engine.go) and what it calls: the        *)
(* Introspector of internal/database/introspector.go, query by query, and  *)
(* Generate.                                                               *)
(*                                                                         *)
(* PostgreSQL's catalog (external) is a record [tables, views,             *)
(* constraints, enums] that DDL may replace between any two queries: the   *)
(* code opens no transaction.  Each query sees one catalog.  The names of  *)
(* tables and views are read first and kept open while their details are   *)
(* read by name, over a second connection of the pool.  The udt_name of a  *)
(* column is <<type>>, or <<"_", type>> for an array of that type.         *)
(***************************************************************************)
EXTENDS ConnectionPool, SchemaGenerator

CONSTANTS
  Catalogs,   \* what the database may look like, by name
  Becomes,    \* the catalogs DDL may make of each
  Sorted,     \* ORDER BY: the sequence of the names in a set of them
  Reloads,    \* goroutines that call Reload, time after time
  MaxDDL      \* bound: changes of the catalog

VARIABLES
  catalog,   \* the database as it is, by name
  ddl,       \* how often it was changed
  reload,    \* progress of every caller's Reload
  at,        \* the query the reload that has e.mu is about to make
  todo,      \* names among its rows it has not seen
  work,      \* the Schema it is building
  dbSchema, resolver, graphqlSchema, \* the schema each part of the engine was made from
  refused,   \* the last one generated was refused
  begun, installed  \* history: the catalog a reload, or the engine's schema, has
                    \* seen in all its queries; "torn" if there were two

Foreign(db, name) == {c \in db.constraints : c.kind = "foreign" /\ c.name = name}
ForeignNames(db) == {c.name : c \in {d \in db.constraints : d.kind = "foreign"}}

\* What PostgreSQL keeps: tables and views do not share a name, nor do the columns of
\* one, a key is made of columns of its table, and ORDER BY lists each name once.
WellFormed(db) ==
  /\ DOMAIN db.tables \cap DOMAIN db.views = {}
  /\ DOMAIN db.tables \cup DOMAIN db.views \subseteq Seq(STRING)
  /\ \A cols \in {db.tables[t] : t \in DOMAIN db.tables} \cup {db.views[v] : v \in DOMAIN db.views} :
       /\ \A n \in DOMAIN cols :
            LET udt == cols[n].udt
            IN udt \in Seq(STRING) /\ Len(udt) \in 1..2 /\ (Head(udt) = "_" <=> Len(udt) = 2)
       /\ \A m, n \in DOMAIN cols : cols[m].name = cols[n].name => m = n
  /\ \A c \in db.constraints : c.kind = "key" =>
       /\ c.table \in DOMAIN db.tables
       /\ ToSet(c.columns) \subseteq {col.name : col \in ToSet(db.tables[c.table])}
  /\ \A names \in {DOMAIN db.tables, DOMAIN db.views, ForeignNames(db)} : Lists(Sorted[names], names)

ASSUME CatalogsAssumption ==
  /\ Becomes \in [DOMAIN Catalogs -> SUBSET DOMAIN Catalogs] /\ MaxDDL \in Nat
  /\ {"none", "torn"} \cap DOMAIN Catalogs = {}
  /\ \A name \in DOMAIN Catalogs : WellFormed(Catalogs[name])

engine == <<dbSchema, resolver, graphqlSchema, refused, installed>>
reading == <<at, todo, work, begun>>
vars == <<pool, catalog, ddl, reload, reading, engine>>

Db == Catalogs[catalog]

-----------------------------------------------------------------------------
(* What the queries return, of a database db *)

\* IntrospectColumns: of a table or a view, none if it is gone.
ReadColumns(db, name) ==
  LET cols == IF name \in DOMAIN db.tables THEN db.tables[name]
              ELSE IF name \in DOMAIN db.views THEN db.views[name] ELSE << >>
  IN [n \in DOMAIN cols |->
        [name |-> cols[n].name, array |-> Head(cols[n].udt) = "_",
         sql |-> Last(cols[n].udt),
         nullable |-> cols[n].nullable, default |-> cols[n].default, pk |-> FALSE]]

Sharing(db, name) == {c \in db.constraints : c.name = name}

\* IntrospectPrimaryKey joins key_column_usage by the constraint's name alone.
ReadKey(db, t) ==
  LET keys == {c \in db.constraints : c.kind = "key" /\ c.table = t}
  IN UNION {ToSet(c.columns) : c \in UNION {Sharing(db, k.name) : k \in keys}}

\* IntrospectForeignKeys joins by name too, and takes the first row of each name:
\* any constraint of the name may give the table, the column or the target.
FirstRows(db, name) ==
  UNION {{[name |-> name, source |-> c.table, column |-> Head(k.columns),
           target |-> u.target, targetColumn |-> col] : col \in ToSet(u.targetColumns)} :
           c \in Foreign(db, name), k \in Sharing(db, name), u \in Sharing(db, name)}

ReadForeign(db) ==
  LET names == Sorted[ForeignNames(db)]
  IN {fks \in [DOMAIN names -> UNION {FirstRows(db, names[n]) : n \in DOMAIN names}] :
        \A n \in DOMAIN names : fks[n] \in FirstRows(db, names[n])}

\* The columns of the key are marked among those that were read.
Mark(table, key) ==
  [columns |-> [n \in DOMAIN table.columns |->
                  [table.columns[n] EXCEPT !.pk = table.columns[n].name \in key]],
   key |-> key]

Unkeyed(columns) == [columns |-> columns, key |-> {}]
Nothing == [tables |-> << >>, views |-> << >>, fks |-> << >>, enums |-> {}]

\* m[name] = value
Stored(m, name, value) ==
  [x \in DOMAIN m \cup {name} |-> IF x = name THEN value ELSE m[x]]

-----------------------------------------------------------------------------
\* All that the calls make of a database that does not change.
Schemas(db) ==
  {[tables |-> [t \in DOMAIN db.tables |-> Mark(Unkeyed(ReadColumns(db, t)), ReadKey(db, t))],
    views |-> [v \in DOMAIN db.views |-> ReadColumns(db, v)],
    fks |-> fks, enums |-> db.enums] : fks \in ReadForeign(db)}

\* Initialize has made the same calls, on a database that did not change.
Init ==
  /\ PoolInit
  /\ catalog \in DOMAIN Catalogs /\ ddl = 0
  /\ reload = [r \in Reloads |-> "idle"]
  /\ at = "none" /\ todo = << >> /\ work = Nothing /\ begun = "none"
  /\ dbSchema \in Schemas(Db) /\ resolver = dbSchema /\ graphqlSchema = dbSchema
  /\ refused = FALSE /\ installed = catalog

AlterDatabase ==
  /\ ddl < MaxDDL
  /\ catalog' \in Becomes[catalog]
  /\ ddl' = ddl + 1
  /\ UNCHANGED <<pool, reload, reading, engine>>

OnlyPool == UNCHANGED <<catalog, ddl, reload, reading, engine>>
PoolUsers == PoolNext /\ OnlyPool

-----------------------------------------------------------------------------
(* Reload *)

Reload(r) ==
  /\ reload[r] = "idle"
  /\ reload' = [reload EXCEPT ![r] = "asking"]
  /\ UNCHANGED <<pool, catalog, ddl, reading, engine>>

\* e.mu.Lock
Lock(r) ==
  /\ reload[r] = "asking" /\ \A q \in Reloads : reload[q] # "running"
  /\ reload' = [reload EXCEPT ![r] = "running"]
  /\ at' = "enums"
  /\ UNCHANGED <<pool, catalog, ddl, todo, work, begun, engine>>

\* Whatever ends a Reload unlocks e.mu and drops what it has built.
Ends(r) ==
  /\ reload' = [reload EXCEPT ![r] = "idle"]
  /\ at' = "none" /\ todo' = << >> /\ work' = Nothing /\ begun' = "none"

Makes(r, query) == reload[r] = "running" /\ at = query
Sees == begun' = IF begun \in {"none", catalog} THEN catalog ELSE "torn"
Elsewhere == UNCHANGED <<poll, rows, tx, catalog, ddl>>
Proceeds == Sees /\ Elsewhere /\ UNCHANGED <<reload, engine>>

ReadEnums(r) ==
  /\ Makes(r, "enums") /\ Statement
  /\ work' = [work EXCEPT !.enums = Db.enums]
  /\ at' = "tables"
  /\ Proceeds /\ UNCHANGED todo

\* The rows stay open, and so does their connection.
ReadTables(r) ==
  /\ Makes(r, "tables") /\ Take(r)
  /\ todo' = Sorted[DOMAIN Db.tables]
  /\ at' = "columns"
  /\ Proceeds /\ UNCHANGED work

ReadTableColumns(r) ==
  /\ Makes(r, "columns") /\ todo # << >> /\ Statement
  /\ work' = [work EXCEPT !.tables = Stored(@, Head(todo), Unkeyed(ReadColumns(Db, Head(todo))))]
  /\ at' = "key"
  /\ Proceeds /\ UNCHANGED todo

ReadTableKey(r) ==
  /\ Makes(r, "key") /\ Statement
  /\ work' = [work EXCEPT !.tables[Head(todo)] = Mark(@, ReadKey(Db, Head(todo)))]
  /\ at' = "indexes"
  /\ Proceeds /\ UNCHANGED todo

\* Nobody reads the indexes.
ReadTableIndexes(r) ==
  /\ Makes(r, "indexes") /\ Statement
  /\ todo' = Tail(todo) /\ at' = "columns"
  /\ Proceeds /\ UNCHANGED work

ReadViews(r) ==
  /\ Makes(r, "views") /\ Take(r)
  /\ todo' = Sorted[DOMAIN Db.views]
  /\ at' = "viewColumns"
  /\ Proceeds /\ UNCHANGED work

ReadViewColumns(r) ==
  /\ Makes(r, "viewColumns") /\ todo # << >> /\ Statement
  /\ work' = [work EXCEPT !.views = Stored(@, Head(todo), ReadColumns(Db, Head(todo)))]
  /\ todo' = Tail(todo)
  /\ Proceeds /\ UNCHANGED at

\* rows.Next returns false, which gives the connection back.
RowsEnd(r) ==
  /\ reload[r] = "running" /\ at \in {"columns", "viewColumns"} /\ todo = << >>
  /\ Give(r)
  /\ at' = IF at = "columns" THEN "views" ELSE "fks"
  /\ Elsewhere /\ UNCHANGED <<reload, todo, work, begun, engine>>

ReadForeignKeys(r) ==
  /\ Makes(r, "fks") /\ Statement
  /\ \E fks \in ReadForeign(Db) : work' = [work EXCEPT !.fks = fks]
  /\ at' = "functions"
  /\ Proceeds /\ UNCHANGED todo

\* Nobody reads the functions, or the sequences.
ReadFunctions(r) ==
  /\ Makes(r, "functions") /\ Statement
  /\ at' = "sequences"
  /\ Proceeds /\ UNCHANGED <<todo, work>>

\* Faulty variant: the resolver keeps the schema it was made from.
ReadSequences_OldResolver(r) ==
  /\ Makes(r, "sequences") /\ Statement
  /\ Sees
  /\ dbSchema' = work /\ installed' = begun'
  /\ at' = "generate"
  /\ Elsewhere /\ UNCHANGED <<reload, todo, work, resolver, graphqlSchema, refused>>

\* The last query: the engine gets the tables and a new resolver.
ReadSequences(r) ==
  /\ Makes(r, "sequences") /\ Statement
  /\ Sees
  /\ dbSchema' = work /\ resolver' = work /\ installed' = begun'
  /\ at' = "generate"
  /\ Elsewhere /\ UNCHANGED <<reload, todo, work, graphqlSchema, refused>>

\* graphql.NewSchema may refuse what was generated: the old GraphQL schema stays
\* beside the new tables.
GenerateSchema(r, ok) ==
  /\ Makes(r, "generate")
  /\ graphqlSchema' = IF ok THEN dbSchema ELSE graphqlSchema
  /\ refused' = ~ok
  /\ Ends(r)
  /\ Elsewhere /\ UNCHANGED <<held, dbSchema, resolver, installed>>

\* An error of any query is returned, and open rows are closed.
QueryFails(r) ==
  /\ reload[r] = "running" /\ at # "generate"
  /\ Give(r)
  /\ Ends(r)
  /\ UNCHANGED <<poll, rows, tx, catalog, ddl, engine>>

ReloadRuns(r) ==
  \/ Lock(r)
  \/ ReadEnums(r) \/ ReadTables(r) \/ ReadTableColumns(r) \/ ReadTableKey(r)
  \/ ReadTableIndexes(r) \/ ReadViews(r) \/ ReadViewColumns(r) \/ RowsEnd(r)
  \/ ReadForeignKeys(r) \/ ReadFunctions(r) \/ ReadSequences(r)
  \/ \E ok \in BOOLEAN : GenerateSchema(r, ok)

-----------------------------------------------------------------------------
Next ==
  \/ AlterDatabase \/ PoolUsers
  \/ \E r \in Reloads : Reload(r) \/ ReloadRuns(r) \/ QueryFails(r)

Spec == Init /\ [][Next]_vars

\* Each goroutine runs, and the pool and e.mu serve their callers in turn.  Nobody
\* must reload, poll or begin a transaction.
FairSpec ==
  /\ Spec
  /\ \A r \in Reloads : SF_vars(ReloadRuns(r))
  /\ \A p \in Pollers : SF_vars(PollRuns(p) /\ OnlyPool)
  /\ \A c \in Callers : SF_vars(TransactionRuns(c) /\ OnlyPool)

-----------------------------------------------------------------------------
\* What a table, a constraint or a column of the database is in a schema.  The
\* constraints are those whose names no other has: PostgreSQL asks for no more than
\* one of each name in a table, and the code's joins for one in the schema.
Faithful(s, db) ==
  LET alone == {c \in db.constraints : \A d \in db.constraints : d.name = c.name => d = c}
      keys(t) == {c \in db.constraints : c.kind = "key" /\ c.table = t}
      same(read, cols) ==
        /\ DOMAIN read = DOMAIN cols
        /\ \A n \in DOMAIN cols :
             /\ read[n].name = cols[n].name /\ read[n].nullable = cols[n].nullable
             /\ read[n].default = cols[n].default
             /\ cols[n].udt = IF read[n].array THEN <<"_", read[n].sql>> ELSE <<read[n].sql>>
  IN /\ DOMAIN s.tables = DOMAIN db.tables /\ DOMAIN s.views = DOMAIN db.views
     /\ s.enums = db.enums
     /\ \A t \in DOMAIN db.tables : same(s.tables[t].columns, db.tables[t])
     /\ \A v \in DOMAIN db.views : same(s.views[v], db.views[v])
     /\ \A t \in DOMAIN db.tables : keys(t) \subseteq alone =>
          /\ s.tables[t].key = UNION {ToSet(c.columns) : c \in keys(t)}
          /\ s.tables[t].key = Named(Marked(s, t))
     /\ \A c \in {d \in alone : d.kind = "foreign"} :
          \E fk \in ToSet(s.fks) :
            /\ {other \in ToSet(s.fks) : other.name = c.name} = {fk}
            /\ fk.source = c.table /\ fk.target = c.target /\ fk.column = Head(c.columns)
            /\ fk.targetColumn \in ToSet(c.targetColumns)

\* A reload during which the database did not change leaves the engine with that
\* database and no other, in all its parts: tables, keys and foreign keys as they
\* are there, the resolver and the GraphQL schema made from the same reading.  Only
\* a schema graphql-go refuses leaves the parts apart; a query that fails does not.
ReloadIsFaithful ==
  /\ installed # "torn" => Faithful(dbSchema, Catalogs[installed])
  /\ resolver = dbSchema
  /\ graphqlSchema = dbSchema \/ at = "generate" \/ refused

\* In whatever order Go ranges over its maps, and also when tables came, went or
\* changed their columns between two queries of the introspection, a table whose
\* field names no other table claims gets its own columns to sort by, types it can
\* be written with that are those it is read with, its relationships, and the same
\* key arguments for reading, watching, updating and deleting one row.  (Asked where
\* nobody else uses the pool: what was read is the same.)
RootsServeTables ==
  at = "generate" /\ (\A p \in Pollers : poll[p] = "idle") /\ (\A c \in Callers : tx[c] = "idle") =>
    \A typeOrder, rootOrder \in Orders(Tables(dbSchema)), viewOrder \in Orders(Views(dbSchema)) :
      LET g == Generate(dbSchema, typeOrder, rootOrder, viewOrder)
      IN \A t \in Distinct(dbSchema) : Serves(dbSchema, g, t)

\* With more connections than users that ask for a second one while they keep the
\* first, every reload, every round of the poller and every transaction ends, whether its
\* function returns, fails or panics, as long as it does one of them without the pool.
\* (With no more connections, all of them may wait for ever, with e.mu held.)
EveryCallServed ==
  /\ \A r \in Reloads : reload[r] = "asking" ~> reload[r] = "idle"
  /\ \A p \in Pollers : poll[p] = "asking" ~> poll[p] = "idle"
  /\ \A c \in Callers : tx[c] = "asking" ~> tx[c] = "idle"
=============================================================================
