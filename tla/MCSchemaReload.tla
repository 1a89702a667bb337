--------------------------- MODULE MCSchemaReload ---------------------------
(* A small instance of SchemaReload: users and posts, and what may become of *)
(* them.                                                                     *)
EXTENDS SchemaReload

users == <<"users">>
users_by_pk == <<"users", "by", "pk">>
posts == <<"post">>
likes == <<"likes">>

Col(name, udt, nullable, default) ==
  [name |-> name, udt |-> udt, nullable |-> nullable, default |-> default]
Id == Col(<<"id">>, <<"uuid">>, FALSE, FALSE)
Ref(name) == Col(name, <<"uuid">>, TRUE, FALSE)
Title == Col(<<"title">>, <<"_", "text">>, TRUE, FALSE)
Mood == Col(<<"mood">>, <<"mood">>, TRUE, TRUE)
Spot(type) == Col(<<"spot">>, <<type>>, FALSE, FALSE)

Key(name, t, cols) ==
  [name |-> name, table |-> t, kind |-> "key", columns |-> cols,
   target |-> t, targetColumns |-> cols]
Fk(name, t, cols, target, targetCols) ==
  [name |-> name, table |-> t, kind |-> "foreign", columns |-> cols,
   target |-> target, targetColumns |-> targetCols]

UsersKey == Key(<<"users_pkey">>, users, <<<<"id">>>>)

\* Users, their posts and a view.
Blog ==
  [tables |-> users :> <<Id, Mood, Spot("point")>> @@ posts :> <<Id, Ref(<<"user", "id">>), Title>>,
   views |-> <<"feed">> :> <<Title>>,
   constraints |-> {UsersKey, Key(<<"posts_pkey">>, posts, <<<<"id">>>>),
                    Fk(<<"post_user_fkey">>, posts, <<<<"user", "id">>>>, users, <<<<"id">>>>)},
   enums |-> {"mood"}]

\* The posts and the enum are gone; two columns are numbers now, one of them in the key.
Lean ==
  [tables |-> users :> <<Id, Col(<<"mood">>, <<"int8">>, FALSE, TRUE), Spot("int4")>>,
   views |-> << >>, constraints |-> {Key(<<"users_pkey">>, users, <<<<"id">>, <<"spot">>>>)},
   enums |-> {}]

\* Users have become a view; the posts, which have no key, lost their reference.
Viewed ==
  [tables |-> posts :> <<Title>>, views |-> users :> <<Id>>,
   constraints |-> {}, enums |-> {}]

\* Users with a key of two columns; posts that refer to them by both, and to
\* themselves by a column without "_id".
Composite ==
  [tables |-> users :> <<Ref(<<"org">>), Id>>
              @@ posts :> <<Id, Ref(<<"org">>), Ref(<<"user", "id">>), Ref(<<"parent">>)>>,
   views |-> << >>,
   constraints |-> {Key(<<"users_pkey">>, users, <<<<"org">>, <<"id">>>>),
                    Key(<<"posts_pkey">>, posts, <<<<"id">>>>),
                    Fk(<<"post_user_fkey">>, posts, <<<<"org">>, <<"user", "id">>>>,
                       users, <<<<"org">>, <<"id">>>>),
                    Fk(<<"post_parent_fkey">>, posts, <<<<"parent">>>>, posts, <<<<"id">>>>)},
   enums |-> {}]

\* Names that meet: one table has the name of a field of another, two have one type
\* name, and two foreign keys share theirs.
Crowded ==
  [tables |-> users :> <<Id>> @@ users_by_pk :> <<Ref(<<"user", "id">>)>>
              @@ posts :> <<Id, Ref(<<"user", "id">>)>>,
   views |-> <<"", "users">> :> <<Id>>,
   constraints |-> {UsersKey, Key(<<"posts_pkey">>, posts, <<<<"id">>>>),
                    Fk(<<"user_fkey">>, posts, <<<<"user", "id">>>>, users, <<<<"id">>>>),
                    Fk(<<"user_fkey">>, users_by_pk, <<<<"user", "id">>>>, users, <<<<"id">>>>)},
   enums |-> {}]

MCCatalogs ==
  [blog |-> Blog, lean |-> Lean, viewed |-> Viewed, composite |-> Composite,
   crowded |-> Crowded]

MCBecomes ==
  [blog |-> {"lean", "viewed"}, lean |-> {"blog"}, viewed |-> {},
   composite |-> {"crowded"}, crowded |-> {}]

NameOrder ==
  <<<<"", "users">>, <<"feed">>, posts, users, users_by_pk,
    <<"post_parent_fkey">>, <<"post_user_fkey">>, <<"user_fkey">>>>

MCSorted ==
  [names \in SUBSET ToSet(NameOrder) |-> SelectSeq(NameOrder, LAMBDA name : name \in names)]
=============================================================================
