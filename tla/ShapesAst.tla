------------------------------ MODULE ShapesAst ------------------------------
(***************************************************************************)
(* From the union shapes graph to the shapes AST (ast.rs) with its s2c     *)
(* annotations (ast/annotations.rs): which nodes are shapes, what is read  *)
(* of each, which problems are reported, and the order that settings with  *)
(* several values are given.                                               *)
(*                                                                         *)
(* A graph maps its triples to the lines they stand on.  A term is a       *)
(* tagged tuple; the text of a literal matters only as far as it is read.  *)
(***************************************************************************)
EXTENDS Integers, SequencesExt, TLC

CONSTANT TextRank(_)    \* the order of the texts of terms

VARIABLES
    graph,  \* the union shapes graph: triples and the lines they stand on
    ast     \* what from_graph made of it last

Iri(name) == <<"iri", name>>
Blank(label) == <<"blank", label>>
Literal(datatype, text) == <<"literal", datatype, text>>
Nil == Iri("rdf:nil")
IsIri(t) == t[1] = "iri"
IsNode(t) == t[1] \in {"iri", "blank"}      \* as_node
IsLiteral(t, datatypes) == t[1] = "literal" /\ t[2] \in datatypes

Triples == DOMAIN graph
Subjects == {t[1] : t \in Triples}
Terms == Subjects \cup {t[3] : t \in Triples}

\* A graph as it is loaded: finitely many triples, each on its line, of terms that
\* their texts tell apart.
IsGraph(g) ==
    /\ IsFiniteSet(DOMAIN g)
    /\ \A t \in DOMAIN g : t = <<t[1], t[2], t[3]>> /\ g[t] \in Nat
    /\ \A a, b \in UNION {{t[1], t[3]} : t \in DOMAIN g} :
          TextRank(a) \in Nat /\ (TextRank(a) = TextRank(b) => a = b)

Found(s, p) == {[value |-> t[3], line |-> graph[t]] :
                    t \in {u \in Triples : u[1] = s /\ u[2] = p}}

\* All values of a parameter, ordered by source location.
Values(s, p) ==
    LET found == Found(s, p)
        Before(a) == {b \in found :
                        \/ b.line < a.line
                        \/ b.line = a.line /\ TextRank(b.value) < TextRank(a.value)}
    IN  [k \in 1 .. Cardinality(found) |->
            CHOOSE v \in found : Cardinality(Before(v)) = k - 1]

-----------------------------------------------------------------------------
(* RDF lists and paths.                                                    *)

Unlisted == <<"no list">>

\* Items of a well-formed RDF list.
ListAt(head) ==
    LET from[node \in Terms, seen \in SUBSET Terms] ==
            LET firsts == Values(node, "rdf:first")
                rests == Values(node, "rdf:rest")
            IN  IF node = Nil THEN <<"list">>
                ELSE IF \/ ~ IsNode(node) \/ node \in seen
                        \/ Len(firsts) # 1 \/ Len(rests) # 1 THEN Unlisted
                ELSE LET rest == from[rests[1].value, seen \cup {node}]
                     IN  IF rest = Unlisted THEN Unlisted
                         ELSE <<"list", firsts[1].value>> \o Tail(rest)
    IN  from[head, {}]

Items(list) == Tail(list)

\* A node with rdf:first is a sequence, and else the first kind it has counts.
PathKinds == <<"rdf:first", "sh:inversePath", "sh:alternativePath", "sh:zeroOrMorePath",
               "sh:oneOrMorePath", "sh:zeroOrOnePath">>

\* What is read of a value, nothing if it cannot be read, and the problems met.
Reading(value, faults) == [read |-> TRUE, value |-> value, faults |-> faults]
Unread(faults) == [read |-> FALSE, value |-> <<>>, faults |-> faults]

Kinds(t) == SelectSeq(PathKinds, LAMBDA k : Values(t, k) # <<>>)

\* single: the first value, and a problem when there are more.
Given(all, single) == IF single /\ all # <<>> THEN <<all[1]>> ELSE all

TooMany(p, all, single) ==
    IF single /\ Len(all) > 1 THEN {<<all[1].line, p, "several">>} ELSE {}

\* A path of several members, read up to the first that cannot be.
PathOf(kind, members, faults) ==
    LET bad == {i \in DOMAIN members : ~ members[i].read}
        met == faults \cup UNION {members[i].faults :
                                  i \in {i \in DOMAIN members : \A j \in bad : i <= j}}
    IN  IF bad # {} THEN Unread(met)
        ELSE Reading(<<kind>> \o [i \in DOMAIN members |-> members[i].value], met)

Listed == {"rdf:first", "sh:alternativePath"}

\* The path at a term, the blank nodes it leads through told apart by visiting.
PathAt(term, at) ==
    LET parse[t \in Terms, visiting \in SUBSET Terms] ==
            LET head(kind) == IF kind = "rdf:first" THEN t ELSE Values(t, kind)[1].value
                members(kind) == IF kind \in Listed THEN ListAt(head(kind))
                                 ELSE <<"list", head(kind)>>
                parts(kind, list) ==
                    IF list = Unlisted \/ (kind \in Listed /\ Len(list) < 3)
                    THEN <<Unread({<<at, "sh:path", "list">>})>>
                    ELSE [i \in DOMAIN Items(list) |-> parse[Items(list)[i], visiting \cup {t}]]
                under(kind) ==
                    PathOf(kind, parts(kind, members(kind)),
                           TooMany(kind, Values(t, kind), kind # "rdf:first"))
            IN  CASE IsIri(t) /\ t # Nil -> Reading(<<"predicate", t>>, {})
                  [] t = Nil \/ t[1] = "literal" -> Unread({<<at, "sh:path", "term">>})
                  [] t[1] = "blank" /\ t \in visiting -> Unread({<<at, "sh:path", "cycle">>})
                  [] OTHER -> IF Kinds(t) = <<>> THEN Unread({<<at, "sh:path", "kind">>})
                              ELSE under(Kinds(t)[1])
    IN  parse[term, {}]

-----------------------------------------------------------------------------
(* Parameters: what they accept, and whether one value is all they take.   *)

Many(kind) == [kind |-> kind, single |-> FALSE]
One(kind) == [kind |-> kind, single |-> TRUE]

Connectives == {"sh:and", "sh:or", "sh:xone"}
References == {"sh:property", "sh:node", "sh:not", "sh:qualifiedValueShape"}

\* The function that gives each member of a group what is said of the group.
Each(groups) ==
    [p \in UNION {g[1] : g \in groups} |-> (CHOOSE g \in groups : p \in g[1])[2]]

ParameterGroups ==
    {<<{"sh:minCount", "sh:maxCount", "sh:minLength", "sh:maxLength",
        "sh:qualifiedMinCount", "sh:qualifiedMaxCount"}, One("count")>>,
     <<{"sh:minInclusive", "sh:maxInclusive", "sh:minExclusive", "sh:maxExclusive"},
       One("literal")>>,
     <<{"sh:closed", "sh:uniqueLang", "sh:deactivated", "sh:qualifiedValueShapesDisjoint"},
       One("boolean")>>,
     <<{"sh:class", "sh:equals", "sh:disjoint", "sh:lessThan", "sh:lessThanOrEquals",
        "sh:targetClass", "sh:targetSubjectsOf", "sh:targetObjectsOf"}, Many("iri")>>,
     <<References, Many("shape")>>,
     <<Connectives, Many("shapeList")>>,
     <<{"sh:hasValue", "sh:sparql", "sh:targetNode"}, Many("term")>>,
     <<{"sh:datatype", "sh:severity"}, One("iri")>>,
     <<{"sh:nodeKind"}, One("nodeKind")>>,
     <<{"sh:path"}, One("path")>>,
     <<{"sh:flags"}, One("string")>>,
     <<{"sh:pattern", "s2c:targetRelationship"}, Many("string")>>,
     <<{"sh:message"}, Many("literal")>>,
     <<{"sh:in"}, One("termList")>>,
     <<{"sh:languageIn"}, One("stringList")>>,
     <<{"sh:ignoredProperties"}, One("iriList")>>}

Parameters == Each(ParameterGroups)

Integers_ == {"xsd:integer", "xsd:nonNegativeInteger", "xsd:int"}

Accepts(kind, t) ==
    CASE kind \in {"shape", "shapes"} -> IsNode(t)
      [] kind \in {"iri", "iris"} -> IsIri(t)
      [] kind = "literal" -> t[1] = "literal"
      [] kind = "count" -> IsLiteral(t, Integers_) /\ t[3] \in {"0", "1", "2"}
      [] kind = "boolean" -> IsLiteral(t, {"xsd:boolean"}) /\ t[3] \in {"true", "false"}
      [] kind \in {"string", "strings"} -> IsLiteral(t, {"xsd:string"})
      [] kind = "text" -> IsLiteral(t, {"xsd:string"}) /\ t[3] # ""
      [] kind = "direction" -> IsLiteral(t, {"xsd:string"}) /\ t[3] \in {"in", "out"}
      [] kind = "nodeKind" -> t \in {Iri("sh:IRI"), Iri("sh:Literal"), Iri("sh:BlankNode")}
      [] OTHER -> TRUE

ItemKind ==
    Each({<<{"shapeList"}, "shapes">>, <<{"termList"}, "term">>,
          <<{"stringList"}, "strings">>, <<{"iriList"}, "iris">>})

ReadItems(list, kind, fault) ==
    IF list # Unlisted /\ \A i \in DOMAIN Items(list) : Accepts(kind, Items(list)[i])
    THEN Reading(list, {}) ELSE Unread({fault})

\* A value as it is read: itself, the items of a list, a path.
ReadValue(p, kind, v) ==
    IF kind = "path" THEN PathAt(v.value, v.line)
    ELSE IF kind \in DOMAIN ItemKind
    THEN ReadItems(ListAt(v.value), ItemKind[kind], <<v.line, p, "value">>)
    ELSE IF Accepts(kind, v.value) THEN Reading(v.value, {}) ELSE Unread({<<v.line, p, "value">>})

\* The values that could be read, and the problems with the others.
Collected(given, readings, faults) ==
    LET read(i) == IF readings[i].read
                   THEN <<[value |-> readings[i].value, line |-> given[i].line]>> ELSE <<>>
    IN  [values |-> FlattenSeq([i \in DOMAIN given |-> read(i)]),
         faults |-> faults \cup UNION {readings[i].faults : i \in DOMAIN given}]

ReadGiven(p, kind, given, faults) ==
    Collected(given, [i \in DOMAIN given |-> ReadValue(p, kind, given[i])], faults)

\* What the values of a parameter are read as.
Input(s, p, use) ==
    ReadGiven(p, use.kind, Given(Values(s, p), use.single), TooMany(p, Values(s, p), use.single))

\* All that is given of a shape.
Settings(s) == [p \in DOMAIN Parameters |-> Input(s, p, Parameters[p])]

Flag(given, p) == \E v \in Range(given[p].values) : v.value[3] = "true"

-----------------------------------------------------------------------------
(* Shapes.                                                                 *)

\* Predicates whose subjects are shapes.
ShapeSubjectParameters ==
    DOMAIN Parameters \ {"sh:severity", "sh:message", "sh:deactivated", "sh:flags",
                         "sh:ignoredProperties", "sh:qualifiedMinCount",
                         "sh:qualifiedMaxCount", "sh:qualifiedValueShapesDisjoint"}

\* Mutant: members of lists are shapes only when they are described.
DescribedShapeIds ==
    {t[1] : t \in {u \in Triples : u[2] \in ShapeSubjectParameters}}

ShapeIds ==
    {t[1] : t \in {u \in Triples :
        \/ u[2] = "rdf:type" /\ u[3] \in {Iri("sh:NodeShape"), Iri("sh:PropertyShape")}
        \/ u[2] \in ShapeSubjectParameters}}
    \cup {t[3] : t \in {u \in Triples : u[2] \in References /\ IsNode(u[3])}}
    \cup UNION {{i \in Range(Items(ListAt(t[3]))) : IsNode(i)} :
            t \in {u \in Triples : u[2] \in Connectives /\ ListAt(u[3]) # Unlisted}}

\* The parameters whose values are constraints by themselves.
Plain == <<"sh:minCount", "sh:maxCount", "sh:datatype", "sh:nodeKind", "sh:class",
           "sh:minInclusive", "sh:maxInclusive", "sh:minExclusive", "sh:maxExclusive",
           "sh:minLength", "sh:maxLength", "sh:in", "sh:hasValue", "sh:equals",
           "sh:disjoint", "sh:lessThan", "sh:lessThanOrEquals", "sh:node", "sh:not",
           "sh:and", "sh:or", "sh:xone", "sh:languageIn", "sh:sparql">>

Counts == {"sh:qualifiedMinCount", "sh:qualifiedMaxCount"}
QualifiedCounts(given) ==
    [p \in {q \in Counts : given[q].values # <<>>} |-> given[p].values[1].value]

\* A constraint: parameter, value, and what other parameters add to it.
Made(p, values, with) ==
    [i \in DOMAIN values |-> [constraint |-> p, value |-> values[i].value, with |-> with,
                              line |-> values[i].line]]

Qualified(given) ==
    IF DOMAIN QualifiedCounts(given) = {} THEN <<>>
    ELSE Made("sh:qualifiedValueShape", given["sh:qualifiedValueShape"].values,
              <<"counts", QualifiedCounts(given), Flag(given, "sh:qualifiedValueShapesDisjoint")>>)

\* The values of sh:qualifiedValueShape are not read when there are no counts.
QualifiedFaults(s, given) ==
    LET shapes == Values(s, "sh:qualifiedValueShape")
        counts == given["sh:qualifiedMinCount"].values \o given["sh:qualifiedMaxCount"].values
    IN  (UNION {given[p].faults : p \in Counts \cup {"sh:qualifiedValueShapesDisjoint"}})
        \cup IF shapes = <<>> /\ counts # <<>> THEN {<<counts[1].line, "counts", "no shape">>}
             ELSE IF shapes # <<>> /\ counts = <<>>
             THEN {<<shapes[1].line, "sh:qualifiedValueShape", "no counts">>}
             ELSE given["sh:qualifiedValueShape"].faults

Constraints(given) ==
    LET values(p) == given[p].values
        flags == [i \in DOMAIN values("sh:flags") |-> values("sh:flags")[i].value]
        ignored == values("sh:ignoredProperties")
    IN  FlattenSeq([i \in DOMAIN Plain |-> Made(Plain[i], values(Plain[i]), <<>>)])
        \o Made("sh:pattern", values("sh:pattern"), <<"flags", flags>>)
        \o (IF ~ Flag(given, "sh:closed") THEN <<>>
            ELSE Made("sh:closed", values("sh:closed"),
                      <<"ignored", IF ignored = <<>> THEN <<>> ELSE Items(ignored[1].value)>>))
        \o Qualified(given)
        \o (IF Flag(given, "sh:uniqueLang")
            THEN Made("sh:uniqueLang", values("sh:uniqueLang"), <<>>) ELSE <<>>)

TargetParameters == {"sh:targetClass", "sh:targetSubjectsOf", "sh:targetObjectsOf",
                     "sh:targetNode", "s2c:targetRelationship"}

Targets(s, given) ==
    (UNION {{<<p, v.value>> : v \in Range(given[p].values)} : p \in TargetParameters})
    \cup IF IsIri(s) /\ <<s, "rdf:type", Iri("rdfs:Class")>> \in Triples
         THEN {<<"implicit class", s>>} ELSE {}

-----------------------------------------------------------------------------
(* Annotations.                                                            *)

\* Every annotation, its kind of value and the subjects it may stand on.
Usage ==
    Each({<<{"s2c:label"}, <<One("text"), {"nodeShape", "iri"}>>>>,
          <<{"s2c:property", "s2c:relationship", "s2c:datatype"},
            <<One("text"), {"propertyShape", "iri"}>>>>,
          <<{"s2c:direction"}, <<One("direction"), {"propertyShape", "iri"}>>>>,
          <<{"s2c:key"}, <<One("text"), {"nodeShape"}>>>>,
          <<{"s2c:name"}, <<One("text"), {"nodeShape", "propertyShape"}>>>>})

Annotations(s) ==
    UNION {{<<p, v.value>> : v \in Range(Input(s, p, Usage[p][1]).values)} : p \in DOMAIN Usage}

SubjectKind(s) ==
    IF s \in ShapeIds
    THEN IF Input(s, "sh:path", Parameters["sh:path"]).values # <<>>
         THEN "propertyShape" ELSE "nodeShape"
    ELSE IF IsIri(s) THEN "iri" ELSE "none"

AnnotationTriples ==
    {t \in Triples : t[2] \in {"s2c:unknown", "s2c:targetRelationship"} \cup DOMAIN Usage}

\* Known annotations on subjects they apply to, and readable values of each.
PlacementFaults(t, kind) ==
    IF \/ t[2] = "s2c:unknown"
       \/ t[2] = "s2c:targetRelationship" /\ kind # "nodeShape"
       \/ t[2] \in DOMAIN Usage /\ kind \notin Usage[t[2]][2]
    THEN {<<graph[t], t[2], "placement">>} ELSE {}

AnnotationFaults ==
    (UNION {PlacementFaults(t, SubjectKind(t[1])) : t \in AnnotationTriples})
    \cup UNION {Input(t[1], t[2], Usage[t[2]][1]).faults : t \in {u \in AnnotationTriples :
        u[2] \in DOMAIN Usage /\ (u[1] \in ShapeIds \/ IsIri(u[1]))}}

-----------------------------------------------------------------------------
(* All shapes, every problem, and the order of what has several values.    *)

ShapeFaults(s, given) ==
    (UNION {given[p].faults : p \in DOMAIN Parameters \
            {"sh:qualifiedValueShape", "sh:qualifiedMinCount", "sh:qualifiedMaxCount",
             "sh:qualifiedValueShapesDisjoint", "sh:ignoredProperties"}})
    \cup QualifiedFaults(s, given)
    \cup IF Flag(given, "sh:closed") THEN given["sh:ignoredProperties"].faults ELSE {}

Problems ==
    AnnotationFaults
    \cup UNION {ShapeFaults(x.shape, x.given) :
        x \in {[shape |-> s, given |-> Settings(s)] : s \in ShapeIds}}

\* The shapes a constraint refers to.
Referred(c) ==
    IF c.constraint \in Connectives THEN Items(c.value)
    ELSE IF c.constraint \in References THEN <<c.value>> ELSE <<>>

\* constraint_text, given the texts of the shapes it refers to.
ConstraintText(c, shapes) ==
    [constraint |-> c.constraint, with |-> c.with,
     value |-> IF Referred(c) = <<>> THEN c.value ELSE <<>>, shapes |-> shapes]

\* Settings of one value each, and those whose order shows nowhere.
Plainly(s, given) ==
    [path |-> [i \in DOMAIN given["sh:path"].values |-> given["sh:path"].values[i].value],
     targets |-> Targets(s, given),
     severity |-> {v.value : v \in Range(given["sh:severity"].values)} \ {Iri("sh:Violation")},
     messages |-> {v.value : v \in Range(given["sh:message"].values)},
     deactivated |-> Flag(given, "sh:deactivated")]

\* The shapes as they are built, with settings of several values in the order of lines.
Built(given) ==
    [s \in ShapeIds |->
        [plain |-> Plainly(s, given[s]), annotations |-> Annotations(s),
         constraints |-> Constraints(given[s]),
         properties |-> given[s]["sh:property"].values]]

BuiltShapes == {Built(given) : given \in {[s \in ShapeIds |-> Settings(s)]}}

\* A sorted list of texts, whatever the order they came in.
Bag(texts) == [t \in Range(texts) |-> Cardinality({i \in DOMAIN texts : texts[i] = t})]

\* Mutant: nested shapes are told apart by their labels.
Label(shapes) == [id \in Terms, seen \in SUBSET Terms |-> id]

\* A blank shape's content with nested shapes expanded; named shapes are their IRI.
\* Annotations are no part of it.
CanonicalShape(shapes) ==
    LET text[id \in Terms, seen \in SUBSET Terms] ==
            LET constraints == shapes[id].constraints
                properties == shapes[id].properties
                texts(nodes) == [i \in DOMAIN nodes |-> text[nodes[i], seen \cup {id}]]
            IN  CASE IsIri(id) -> id
                  [] id \notin DOMAIN shapes -> <<"none">>
                  [] id \in seen -> <<"cycle">>
                  [] OTHER -> <<"shape", shapes[id].plain,
                        Bag([i \in DOMAIN constraints |->
                                ConstraintText(constraints[i], texts(Referred(constraints[i])))]),
                        Bag(texts([i \in DOMAIN properties |-> properties[i].value]))>>
    IN  text

Keys(shapes, nodes) == [i \in DOMAIN nodes |-> CanonicalShape(shapes)[nodes[i], {}]]

\* sort_by_cached_key is stable: what has one key stays in the order of the source.
InOrder(items) ==
    [key \in {x.key : x \in Range(items)} |->
        LET tied == SelectSeq(items, LAMBDA x : x.key = key)
        IN  [i \in DOMAIN tied |-> tied[i].shown]]

\* What the later phases can see of a shape in canonical order: all its settings and
\* annotations, and those of the blank shapes it leads to, without their labels.
Ordered(shapes) ==
    LET shape[id \in Terms, seen \in SUBSET Terms] ==
            LET constraints == shapes[id].constraints
                properties == shapes[id].properties
                shown(nodes) ==
                    [i \in DOMAIN nodes |->
                        IF IsIri(nodes[i]) THEN nodes[i]
                        ELSE IF nodes[i] \in seen \cup {id} THEN <<"cycle">>
                        ELSE shape[nodes[i], seen \cup {id}]]
                constraint(c) ==
                    [key |-> ConstraintText(c, Keys(shapes, Referred(c))),
                     shown |-> ConstraintText(c, shown(Referred(c)))]
                property(node) == [key |-> Keys(shapes, <<node>>), shown |-> shown(<<node>>)]
            IN  <<"shape", shapes[id].plain, shapes[id].annotations,
                  InOrder([i \in DOMAIN constraints |-> constraint(constraints[i])]),
                  InOrder([i \in DOMAIN properties |-> property(properties[i].value)])>>
    IN  shape

\* Blank shapes have no name to be seen by.
Shapes(shapes) ==
    {<<IF IsIri(s) THEN s ELSE <<"blank">>, Ordered(shapes)[s, {}]>> : s \in DOMAIN shapes}

Unparsed == <<"unparsed">>
Refused == <<"refused">>

\* from_graph.
Parse ==
    /\ IF Problems = {} THEN \E shapes \in BuiltShapes : ast' = <<"shapes", Shapes(shapes)>>
       ELSE ast' = Refused
    /\ UNCHANGED graph

-----------------------------------------------------------------------------
(* Edits that mean nothing: lines change places, blank nodes get other     *)
(* labels.                                                                 *)

Renamed(t, a, b) == IF t = a THEN b ELSE IF t = b THEN a ELSE t

Blanks == {t \in Terms : t[1] = "blank"}

Rearrange ==
    \/ \E t, u \in Triples :
          /\ graph[t] < graph[u]
          /\ graph' = [graph EXCEPT ![t] = graph[u], ![u] = graph[t]]
    \/ \E a, b \in Blanks :
          /\ TextRank(a) < TextRank(b)
          /\ LET to(t) == <<Renamed(t[1], a, b), t[2], Renamed(t[3], a, b)>>
             IN  graph' = [u \in {to(t) : t \in Triples} |-> graph[to(u)]]

-----------------------------------------------------------------------------
(* Properties.                                                             *)

IsOff(t) == t[2] \in {"sh:closed", "sh:uniqueLang"} /\ t[3][3] = "false"

\* Parsing collects the problems of malformed and of several values
\* (architecture.md:61) instead of leaving them out: when none is reported, every
\* triple with a constraint parameter has become a constraint of its subject, every
\* annotation is read, and every shape that a shape refers to is among the shapes,
\* described or not, so that no constraint is lost on the way to the rules
\* (ast.rs:221).
NothingIsIgnored ==
    Problems = {} => \A shapes \in BuiltShapes :
        /\ \A t \in Triples :
              /\ t[2] \in Range(Plain) \cup {"sh:pattern", "sh:closed", "sh:uniqueLang",
                                      "sh:qualifiedValueShape"} /\ ~ IsOff(t) =>
                    /\ t[1] \in DOMAIN shapes
                    /\ \E c \in Range(shapes[t[1]].constraints) :
                          c.constraint = t[2] /\ c.value \in {t[3], ListAt(t[3])}
              /\ t[2] \in DOMAIN Usage =>
                    <<t[2], t[3]>> \in Annotations(t[1])
        /\ \A s \in DOMAIN shapes :
              /\ \A c \in Range(shapes[s].constraints) : Range(Referred(c)) \subseteq ShapeIds
              /\ \A p \in Range(shapes[s].properties) : p.value \in ShapeIds

\* "Source positions and blank-node labels never influence compiled output"
\* (architecture.md:66): with every value read in the order of its line, a graph
\* whose triples change lines or whose blank nodes change labels gives the same
\* shapes, with what has several values in the same order, or again problems.
ReorderingChangesNothing == [][ast # Unparsed => ast' = ast]_ast
=============================================================================
