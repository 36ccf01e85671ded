-------------------------- MODULE MCAccessResolver --------------------------
(* Instances of AccessResolver for TLC. *)
EXTENDS AccessResolver

Subject(kind, name, ns) == [kind |-> kind, name |-> name, ns |-> ns]

Caller(username, groups, admin, lists) ==
  [username |-> username, groups |-> groups, admin |-> admin, lists |-> lists]

\* A RoleBinding in the probe namespace, of users of both kinds, and one of a group
\* and of a ServiceAccount that leaves its namespace out.
TwoBindings ==
  {[ns |-> "probe", subjects |-> {Subject("User", <<"alice">>, ""), Subject("User", <<"carol">>, "")}],
   [ns |-> "ns1", subjects |-> {Subject("ServiceAccount", "robot", ""), Subject("Group", "ops", "")}]}

Callers == {Caller(<<"alice">>, {"ops"}, FALSE, FALSE),
            Caller(<<"ns1", "robot">>, {}, FALSE, FALSE),
            Caller(<<"admin">>, {}, TRUE, FALSE),
            Caller(<<"carol">>, {}, FALSE, TRUE)}
=============================================================================
