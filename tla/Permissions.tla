---------------------------- MODULE Permissions ----------------------------
(***************************************************************************)
(* internal/auth/auth.go, lines 777 to 911: permission rules of roles, and *)
(* the row filter a rule adds to the where argument of an operation.       *)
(*                                                                         *)
(* A rule's filter may hold session variables.  An operator with one is    *)
(* [op |-> o, var |-> v] in place of [op |-> o, val |-> value].  One table  *)
(* is modelled: rules of different tables never meet.                      *)
(***************************************************************************)
EXTENDS Resolver

CONSTANTS Sessions,   \* [role, admin, user, claims], claims a function of names
          Rules,      \* [role, operation, filter], filter possibly NoFilter
          NoFilter,
          MaxRules    \* bound on the number of rules added

VARIABLE permissions  \* the rules, in the order they were added

vars == <<resolverVars, permissions>>

\* The variables of a session and their values.  A claim may be missing.
Variables(session) ==
  [v \in {"user", "role"} \cup DOMAIN session.claims |->
     CASE v = "user" -> session.user
       [] v = "role" -> session.role
       [] OTHER -> session.claims[v]]

-----------------------------------------------------------------------------

AddPermission(rule) ==
  /\ Len(permissions) < MaxRules
  /\ permissions' = Append(permissions, rule)
  /\ UNCHANGED resolverVars

GetPermissions(role, operation) ==
  SelectSeq(permissions, LAMBDA p : p.role = role /\ p.operation = operation)

\* CheckPermission returns a rule, or for an administrator one of its own, or an error.
CheckPermission(session, operation) ==
  session.admin \/ GetPermissions(session.role, operation) # <<>>

\* A variable the session does not have takes its operator with it.
SubstituteOp(o, session) ==
  IF "var" \notin DOMAIN o THEN <<o>>
  ELSE IF o.var \in DOMAIN Variables(session)
       THEN <<[op |-> o.op, val |-> Variables(session)[o.var]]>>
       ELSE <<>>

RECURSIVE SubstituteSessionVariables(_, _)
SubstituteSessionVariables(filter, session) ==
  [i \in DOMAIN filter |->
     LET e == filter[i] IN
     CASE e.key \in {"_and", "_or"} ->
            [e EXCEPT !.subs = [j \in DOMAIN e.subs |->
                                  SubstituteSessionVariables(e.subs[j], session)]]
       [] e.key = "_not" -> [e EXCEPT !.sub = SubstituteSessionVariables(e.sub, session)]
       [] OTHER -> [e EXCEPT !.ops = FlattenSeq([j \in DOMAIN e.ops |->
                                                   SubstituteOp(e.ops[j], session)])]]

\* Faulty variant: the two maps are merged, the caller's entries taking precedence.
ApplyRowFilter_Merged(session, operation, where) ==
  LET perms == GetPermissions(session.role, operation) IN
  IF session.admin \/ perms = <<>> THEN where
  ELSE IF perms[1].filter = NoFilter THEN where
  ELSE SelectSeq(SubstituteSessionVariables(perms[1].filter, session),
                 LAMBDA e : \A x \in Range(where) :
                              x.key # e.key \/ (e.key = "col" /\ x.col # e.col))
       \o where

\* The filter of the first rule, in an _and with the caller's where.
ApplyRowFilter(session, operation, where) ==
  LET perms == GetPermissions(session.role, operation) IN
  IF session.admin \/ perms = <<>> THEN where
  ELSE IF perms[1].filter = NoFilter THEN where
  ELSE LET own == SubstituteSessionVariables(perms[1].filter, session)
       IN IF where = <<>> THEN own
          ELSE <<[key |-> "_and", subs |-> <<where, own>>]>>

Init == ResolverInit /\ permissions = <<>>

Next ==
  \/ ResolverNext /\ UNCHANGED permissions
  \/ \E r \in Rules : AddPermission(r)

Spec == Init /\ [][Next]_vars

-----------------------------------------------------------------------------

RECURSIVE Names(_)
\* The session variables a filter names.
Names(filter) ==
  UNION {CASE e.key \in {"_and", "_or"} -> UNION {Names(f) : f \in Range(e.subs)}
           [] e.key = "_not" -> Names(e.sub)
           [] OTHER -> {o.var : o \in {x \in Range(e.ops) : "var" \in DOMAIN x}}
         : e \in Range(filter)}

\* The rule that decides over a session's operation, if it filters rows by what
\* the session knows.
Deciding(session, operation) ==
  {p \in IF session.admin \/ ~CheckPermission(session, operation) THEN {}
         ELSE {Head(GetPermissions(session.role, operation))} :
     /\ p.filter # NoFilter
     /\ Names(p.filter) \subseteq DOMAIN Variables(session)}

Both(where, rule, session) ==
  {r \in Matching(table, where) : Meaning(rule.filter, r, Variables(session)) = Yes}

\* A rule's filter, with the session's values put into it, and the caller's filter
\* become one SQL condition: the statement reads, changes or deletes exactly the rows
\* that satisfy both, whatever the caller's filter is, also one without conditions.
RowFilterHolds ==
  \A s \in Sessions, f \in Filters :
    /\ \A rule \in Deciding(s, "select") :
         \A o \in Run(table, SelectQuery(ApplyRowFilter(s, "select", f), <<>>, <<>>)) :
           ~o.error /\ o.rows = Both(f, rule, s)
    /\ \A rule \in Deciding(s, "delete") :
         \A o \in Run(table, DeleteQuery(ApplyRowFilter(s, "delete", f))) :
           ~o.error /\ o.after = table \ Both(f, rule, s)
    /\ \A rule \in Deciding(s, "update"), e \in Edits :
         \A o \in Run(table, UpdateQuery(ApplyRowFilter(s, "update", f), e[1], e[2])) :
           EditsExactly(o, Both(f, rule, s), e)

=============================================================================
