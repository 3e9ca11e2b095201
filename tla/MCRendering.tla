----------------------------- MODULE MCRendering -----------------------------
(* A few small shapes over two nodes, and databases that store them, for TLC.*)
EXTENDS Rendering

Knows == Out("KNOWS")
Name == Property("name")
Nick == Property("nick")
Likes == Out("LIKES")

MinCount(n) == [component |-> "sh:minCount", bound |-> n]
MaxCount(n) == [component |-> "sh:maxCount", bound |-> n]
Class(labels) == [component |-> "sh:class", labels |-> labels]
Kind(kind) == [component |-> "sh:nodeKind", kind |-> kind]
AtLeast(n) == [component |-> "sh:minInclusive", bound |-> n]
OneOf(terms) == [component |-> "sh:in", terms |-> terms]
HasValue(term) == [component |-> "sh:hasValue", term |-> term]
PairWith(relation, right) == [component |-> "sh:pair", relation |-> relation, right |-> right]
ClosedShape(keys) ==
    [component |-> "sh:closed", ignored |-> [keys |-> keys, rel_types |-> {}]]
Refer(component, target) == [component |-> component, target |-> target]
Members(component, members) == [component |-> component, members |-> members]
QualifiedShape(target, min, max, disjoint) ==
    [component |-> "sh:qualifiedValueShape", target |-> target, min |-> min, max |-> max,
     disjoint |-> disjoint]

Term(iri, value) == [iri |-> iri, value |-> value]

\* Constraints on values and on their number.
FlatConstraints ==
    {MinCount(n) : n \in 0 .. 2} \cup {MaxCount(n) : n \in 0 .. 1}
    \cup {Class({"Adult"}), Kind("IRI"), Kind("Literal"), Kind("BlankNode"), Kind("IRIOrLiteral"),
          AtLeast(2), OneOf({Term(FALSE, 1)}), OneOf({Term(TRUE, 1), Term(FALSE, 2)}),
          HasValue(Term(FALSE, 1)), HasValue(Term(TRUE, 2))}
    \cup {PairWith(relation, right) : right \in {Nick, Likes},
              relation \in {"Equals", "Disjoint", "LessThan", "LessThanOrEquals"}}

\* Constraints that refer to the shapes 4 and 5.
NestingConstraints ==
    {Refer("sh:node", 4), Refer("sh:not", 4)}
    \cup {Members(c, <<4, 5>>) : c \in {"sh:and", "sh:or", "sh:xone"}} \cup {Members("sh:xone", <<4, 4>>)}
    \cup {QualifiedShape(4, <<1>>, <<1>>, d) : d \in BOOLEAN}
    \cup {QualifiedShape(4, <<0>>, <<>>, FALSE)}

Labels(labels) == [kind |-> "labels", labels |-> labels]
SubjectsOf(path) == [kind |-> "subjectsOf", path |-> path]
ObjectsOf(path) == [kind |-> "objectsOf", path |-> path]
Relationships(type) == [kind |-> "relationships", type |-> type]

\* Only the targets of the first shape matter.
Shape(path, constraints, properties, deactivated) ==
    [path |-> path, constraints |-> constraints, properties |-> properties,
     deactivated |-> deactivated, targets |-> {Labels({"Person"})}]
Targeting(shape, targets) == [shape EXCEPT !.targets = targets]

NodeShape(constraints, properties) == Shape(Focus, constraints, properties, FALSE)
PropertyShape(path, constraint) == Shape(path, <<constraint>>, <<>>, FALSE)

\* A property shape with a constraint of its own, and what a node shape may have.
Paths ==
    {Knows, In("KNOWS"), Name,
     Sequence(<<Knows, In("KNOWS")>>), Sequence(<<Knows, Name>>), Sequence(<<Knows, Likes>>),
     Alternative(<<Name, Nick>>), Alternative(<<Name, Sequence(<<Knows, Name>>)>>),
     Alternative(<<Knows, Likes>>), Alternative(<<Knows, In("KNOWS")>>),
     Repeat(Knows, 0, 1), Repeat(Knows, 1, 2), Repeat(Alternative(<<Knows, Likes>>), 0, 2),
     Repeat(Sequence(<<Knows, Likes>>), 1, 1), Sequence(<<Repeat(Knows, 0, 1), Name>>)}

FlatShapes ==
    {<<NodeShape(<<>>, <<2>>), PropertyShape(path, c)>> : path \in Paths, c \in FlatConstraints}
    \cup {<<NodeShape(own, <<2>>), PropertyShape(path, MinCount(1))>> :
            path \in {Knows, Name},
            own \in {<<ClosedShape({})>>, <<Class({"Adult"}), ClosedShape({"nick"})>>}
                   \cup {<<PairWith(relation, right)>> : right \in {Nick, Knows},
                           relation \in {"Equals", "Disjoint", "LessThan", "LessThanOrEquals"}}}

\* Property shapes 2 and 3 of shape 1, the inlined shapes 4 and 5.
NestedShapes ==
    {<<NodeShape(<<>>, <<2, 3>>), PropertyShape(path, c), PropertyShape(Knows, sibling), four,
       five>> :
        path \in {Knows, Name},
        c \in NestingConstraints,
        sibling \in {QualifiedShape(5, <<1>>, <<>>, TRUE)},
        four \in {NodeShape(<<>>, <<>>), NodeShape(<<>>, <<5>>), NodeShape(<<Kind("BlankNode")>>, <<>>),
                  NodeShape(<<Class({"Adult"})>>, <<5>>), NodeShape(<<ClosedShape({"nick"})>>, <<>>),
                  NodeShape(<<OneOf({Term(TRUE, 1), Term(FALSE, 2)})>>, <<>>),
                  Shape(Focus, <<Class({"Adult"})>>, <<>>, TRUE),
                  NodeShape(<<Refer("sh:not", 5)>>, <<>>)},
        five \in {PropertyShape(Name, MinCount(1)), PropertyShape(Name, HasValue(Term(FALSE, 1))),
                  PropertyShape(Knows, Class({"Adult"})),
                  PropertyShape(Alternative(<<Sequence(<<Knows, Name>>), Nick>>), AtLeast(2))}}

\* Property shapes with properties: shape 2, or shape 5 of the inlined shape 4.
DeepShapes ==
    {<<NodeShape(<<>>, <<2>>), Shape(path, <<c>>, <<3>>, FALSE), PropertyShape(Name, MinCount(1))>> :
        path \in {Knows, Name}, c \in {MinCount(1), Class({"Adult"})}}
    \cup {<<NodeShape(<<>>, <<2, 3>>), PropertyShape(Knows, c), PropertyShape(Knows, QualifiedShape(5, <<1>>, <<>>, TRUE)),
            NodeShape(<<>>, <<5>>), five, six>> :
            c \in NestingConstraints,
            five \in {Shape(Knows, <<MaxCount(1)>>, <<6>>, FALSE), Shape(Knows, <<>>, <<6>>, TRUE),
                      Shape(Name, <<>>, <<6>>, FALSE)},
            six \in {PropertyShape(Name, MinCount(1)), PropertyShape(Knows, Class({"Adult"}))}}

\* Other targets, of which some cannot be combined.
TargetSets ==
    {{Labels({"Person"}), Labels({"Adult"})}, {Relationships("KNOWS")},
     {Relationships("KNOWS"), Relationships("LIKES")}, {Relationships("KNOWS"), Labels({"Person"})},
     {SubjectsOf(Name)}, {SubjectsOf(Knows)}, {ObjectsOf(Knows)}, {SubjectsOf(Name), SubjectsOf(Likes)},
     {Labels({"Adult"}), SubjectsOf(Nick), ObjectsOf(Likes)}}

TargetedShapes ==
    {<<Targeting(NodeShape(<<>>, <<2>>), targets), PropertyShape(path, c)>> :
        targets \in TargetSets, path \in {Name, Knows}, c \in {MinCount(2), AtLeast(2)}}
    \cup {<<Targeting(NodeShape(<<>>, <<2>>), {SubjectsOf(focus)}), PropertyShape(path, c)>> :
            focus \in {Name, Knows}, c \in {MinCount(1), AtLeast(2)},
            path \in {Sequence(<<Repeat(Knows, 0, 1), key>>) : key \in {Name, Nick}}
                     \cup {Sequence(<<Knows, Repeat(Likes, 0, 2), Name>>)}}

SmallShapes == FlatShapes \cup NestedShapes \cup DeepShapes \cup TargetedShapes

\* Two nodes and the relationships between them, of which two may be parallel.
Link(id, type, from, to) == [id |-> id, type |-> type, from |-> from, to |-> to]

SmallGraphs ==
    LET graphWith(labels, p, rels) ==
            [labels |-> (10 :> {"Person"} @@ 20 :> labels),
             props |-> (10 :> [name |-> p[1], nick |-> p[2], key |-> {1}]
                        @@ 20 :> [name |-> p[3], nick |-> {}, key |-> IF p[3] = {} THEN {} ELSE {2}])
                       @@ [r \in {31, 32, 33} |->
                              [name |-> IF r = 31 THEN {2, 3} ELSE {}, nick |-> {}, key |-> {}]],
             rels |-> rels]
        mixed == <<{1, 100}, {2}, {2}>>
        properties == {mixed, <<{}, {}, {1}>>, <<{1}, {2}, {}>>, <<{1, 2}, {1, 2}, {1}>>, <<{100}, {1}, {1}>>}
        relationships ==
            {{Link(31, "LIKES", 10, 20)},
             {Link(31, "KNOWS", 10, 20), Link(32, "KNOWS", 10, 20)},
             {Link(31, "KNOWS", 10, 10), Link(32, "KNOWS", 10, 20), Link(33, "LIKES", 20, 10)},
             {Link(31, "KNOWS", 10, 20), Link(32, "KNOWS", 20, 20)},
             {Link(31, "KNOWS", 20, 10), Link(32, "LIKES", 10, 20)}}
    IN  {graphWith({"Adult"}, p, rels) : p \in properties, rels \in relationships}
        \cup {graphWith({"Person", "Adult"}, mixed, rels) : rels \in relationships}

-----------------------------------------------------------------------------
(* Databases.                                                              *)

Database(g, StoreValues(_)) ==
    [g EXCEPT !.props = [x \in DOMAIN @ |->
        [key \in {k \in DOMAIN g.props[x] : g.props[x][k] # {}} |->
            IF key = NodeKey THEN Scalar(CHOOSE v \in g.props[x][key] : TRUE)
            ELSE StoreValues(SetToSeq(g.props[x][key]))]]]

\* Scalars where one value is stored; every value twice; the same with nulls, which only
\* FalkorDB stores.
Single(values) == IF Len(values) = 1 THEN Scalar(values[1]) ELSE List(values)
Twice(values) == List(values \o values)
TwiceAndNull(values) == List(<<Null>> \o values \o values)

SmallNeo4jDatabases(g) == {Database(g, Single), Database(g, Twice)}
SmallFalkorDatabases(g) == {Database(g, Single), Database(g, TwiceAndNull)}

\* Tables for the labels and types: they declare the columns in use, or all columns; a
\* column holds lists where a node has several values, or everywhere.
Keys_ == {"name", "nick", NodeKey}
TypeOf(v) == IF v < StringsFrom THEN "INT64" ELSE "STRING"
TypesIn(g, owners, key) == {TypeOf(v) : v \in UNION {g.props[x][key] : x \in owners}}
Holds_(g, owners, key, lists) ==
    [list |-> key # NodeKey /\ (lists \/ \E x \in owners : Cardinality(g.props[x][key]) > 1),
     of |-> IF TypesIn(g, owners, key) = {} THEN "INT64"
            ELSE CHOOSE type \in TypesIn(g, owners, key) : TRUE]
Columns(g, owners, lists, all) ==
    [key \in {key \in Keys_ : all \/ TypesIn(g, owners, key) # {}} |-> Holds_(g, owners, key, lists)]

Labeled(g, label) == {x \in DOMAIN g.labels : g.labels[x] = {label}}
OfType(g, type) == {r \in g.rels : r.type = type}
LabelAt(g, x) == CHOOSE label \in g.labels[x] : TRUE
Endpoints(g, type) == {<<LabelAt(g, r.from), LabelAt(g, r.to)>> : r \in OfType(g, type)}

TypedDatabase(g, lists, all) ==
    LET nodes == [label \in {"Person", "Adult"} |-> Columns(g, Labeled(g, label), lists, all)]
        rels == [type \in {"KNOWS", "LIKES"} |->
                    [columns |-> Columns(g, {r.id : r \in OfType(g, type)}, lists, all),
                     endpoints |-> IF all \/ OfType(g, type) = {} THEN {"Person", "Adult"} \X {"Person", "Adult"}
                                   ELSE Endpoints(g, type)]]
        column(x, key) == IF x \in DOMAIN g.labels THEN nodes[LabelAt(g, x)][key]
                          ELSE LET r == CHOOSE r \in g.rels : r.id = x IN rels[r.type].columns[key]
        store(x, key) ==
            LET values == SetToSeq(g.props[x][key])
            IN  IF column(x, key).list THEN TwiceAndNull(values) ELSE Scalar(values[1])
        stored == DOMAIN g.labels \cup {r.id : r \in g.rels}
    IN  [labels |-> g.labels, rels |-> g.rels, node_tables |-> nodes, rel_tables |-> rels,
         props |-> [x \in stored |-> [key \in {k \in Keys_ : g.props[x][k] # {}} |-> store(x, key)]]]

\* Nodes have one label, columns one type.
IsTyped(g) ==
    /\ \A x \in DOMAIN g.labels : Cardinality(g.labels[x]) = 1
    /\ \A label \in {"Person", "Adult"}, key \in Keys_ : Cardinality(TypesIn(g, Labeled(g, label), key)) <= 1
SmallLadybugDatabases(g) ==
    IF IsTyped(g) THEN {TypedDatabase(g, everywhere, everywhere) : everywhere \in BOOLEAN} ELSE {}
=============================================================================
