---------------------------- MODULE MCExecutors ----------------------------
(* Instances of Executors: a graph with two labels and a type, what may become of it  *)
(* while a client looks, and the tables of an embedded database.                      *)
EXTENDS Executors

Value(type) == [list |-> FALSE, of |-> {type}]
Values(types) == [list |-> TRUE, of |-> types]
Node(labels, props) == [labels |-> labels, props |-> props]
Knows(from, to, props) == [type |-> "KNOWS", from |-> from, to |-> to, props |-> props]

\* Two nodes share a label and not the type of a property, a third has no property;
\* one relationship.
Mixed(text, count, list, first) ==
    [nodes |-> <<Node({"Person"}, "age" :> Value(count) @@ "tags" :> Values(first)),
                 Node({"Person", "Admin"}, "age" :> Value(text) @@ "tags" :> Values({text})),
                 Node({"Guest"}, <<>>), Node({}, "age" :> Value(count))>>,
     rels |-> {Knows(1, 2, "since" :> Values(list))}]

\* A node of another label, with a relationship to it, has come.
Grown(text, count) ==
    [nodes |-> <<Node({"Person"}, "age" :> Value(count)),
                 Node({"Robot"}, "age" :> Value(text))>>,
     rels |-> {Knows(1, 2, <<>>)}]

\* Only people without relationships are left.
Left(text) == [nodes |-> <<Node({"Person"}, "age" :> Value(text))>>, rels |-> {}]

MCGraphs ==
    [neo4j |-> {Mixed("String", "Long", {"Long"}, {"String"}), Grown("String", "Long"),
               Left("Long")},
     falkordb |-> {Mixed("String", "Integer", {"Integer", "String"}, {}),
                  Grown("String", "Vectorf32"), Left("Integer")},
     ladybug |-> {[nodes |-> <<Node({"Person"}, "age" :> Value("INT64")),
                               Node({"Robot"}, "tags" :> Values({"STRUCT"}))>>,
                   rels |-> {Knows(1, 2, "since" :> Value("DATE"))}]}]
=============================================================================
