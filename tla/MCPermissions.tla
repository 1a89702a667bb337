--------------------------- MODULE MCPermissions ---------------------------
(* A small table with filters of every form, nested two deep, and both orders *)
(* of a map with two entries.                                                 *)
EXTENDS Permissions

Col(c, ops) == [key |-> "col", col |-> c, ops |-> ops]
Cmp(op, v) == [op |-> op, val |-> v]
Var(op, v) == [op |-> op, var |-> v]
Is(c, v) == <<Col(c, <<Cmp("_eq", v)>>)>>
Junct(k, subs) == [key |-> k, subs |-> subs]
Not(f) == [key |-> "_not", sub |-> f]

Small == Col("id", <<Cmp("_in", <<1, 2>>), Cmp("_neq", 2)>>)
Either == Junct("_or", <<Is("n", 1), <<>>, <<Not(Is("n", 0)), Small>>>>)
MCFilters == {
  <<>>,
  <<Small, Either>>, <<Either, Small>>,
  <<Not(<<Col("n", <<Cmp("_gt", 0), Cmp("_is_null", FALSE)>>)>>)>>,
  <<Junct("_and", <<Is("id", 1), <<Col("n", <<Cmp("_nin", <<0>>)>>)>>>>), Col("n", <<Cmp("_is_null", TRUE)>>)>>,
  <<Col("id", <<Cmp("_nin", <<>>)>>), Junct("_and", <<>>)>>}

MCPages == {<< <<>>, <<>> >>, << <<1>>, <<1>> >>, << <<>>, <<1>> >>}
MCKeys == {<<[col |-> "id", val |-> 1]>>}

Pair(c, v) == [col |-> c, val |-> v]
MCEdits == {<< <<Pair("n", 0)>>, <<>> >>, << <<>>, <<Pair("n", 1)>> >>,
            << <<Pair("id", 2)>>, <<Pair("n", 1)>> >>, << <<>>, <<>> >>}
MCBatches == {<<>>, << <<Pair("id", 1), Pair("n", 0)>>, <<Pair("n", 1), Pair("id", 2)>> >>,
              << <<Pair("n", 1), Pair("id", 2)>> >>,
              << <<Pair("id", 2)>>, <<Pair("id", 1), Pair("n", 1)>> >>, << <<>> >>}
MCQuestions == {<< <<Small, Either>>, << <<1>>, <<1>> >> >>}

Session(role, admin, user, claims) ==
  [role |-> role, admin |-> admin, user |-> user, claims |-> claims]
MCSessions == {Session("admin", TRUE, 0, <<>>), Session("user", FALSE, 1, <<>>),
               Session("user", FALSE, 2, [level |-> 0])}

Rule(op, f) == [role |-> "user", operation |-> op, filter |-> f]
Own == <<Col("id", <<Var("_eq", "user")>>)>>
Above == <<Not(<<Col("n", <<Var("_eq", "level"), Cmp("_gt", 0)>>)>>)>>
MCRules == {Rule("select", Own), Rule("delete", Above), Rule("update", Own), 
            Rule("select", <<Junct("_or", <<Own, Above>>)>>), Rule("select", NoFilter)}

\* Aggregates and rules share nothing: they are not explored together.
Apart == permissions = <<>> \/ \A c \in Clients : aggregate[c] = NoCall
=============================================================================
