---------------------------- MODULE ShapeLowering ----------------------------
(***************************************************************************)
(* What lower.rs makes of the constraints of a shape: a rule for every     *)
(* constraint of a targeted shape and of its property shapes, with the     *)
(* shapes they refer to inlined, as expressions over a property graph.     *)
(*                                                                         *)
(* Shapes do not refer to themselves (see Inlining) and paths are resolved.*)
(* sh:minInclusive stands for every test of one value: the other bounds,   *)
(* lengths, patterns and datatypes.  Shape 1 is the one that is targeted,  *)
(* by labels of a class, subjects or objects of a predicate, or by the     *)
(* type of a relationship.                                                 *)
(***************************************************************************)
EXTENDS RuleExpressions

CONSTANTS
    ShapesGraphs,    \* shapes, as functions from their ids
    PropertyGraphs,  \* graphs the rules are meant for
    NodeKey          \* --node-key, a property key

VARIABLES
    shapes,
    phase,  \* "parsed", "lowered" or "failed"
    rules,  \* the rules, without what a manifest only prints
    graph   \* the database they are run on

vars == <<shapes, phase, rules, graph>>

Init ==
    /\ shapes \in ShapesGraphs
    /\ graph \in PropertyGraphs
    /\ phase = "parsed"
    /\ rules = {}

Targeted == 1
FocusVar == 0

\* A fresh variable: the code numbers them as they come, here by their nesting.
Fresh(of) == of + 1

MapSeq(s, Op(_)) == [i \in DOMAIN s |-> Op(s[i])]

-----------------------------------------------------------------------------
(* References that cannot be inlined: a path from a property value.        *)

TargetsOf(c) ==
    CASE c.component \in {"sh:node", "sh:not", "sh:qualifiedValueShape"} -> {c.target}
      [] c.component \in {"sh:and", "sh:or", "sh:xone"} -> ToSet(c.members)
      [] OTHER -> {}

SiblingQualifiedShapes(id, target) ==
    {c.target : c \in UNION {
        {c \in ToSet(shapes[p].constraints) : c.component = "sh:qualifiedValueShape"} :
        p \in {p \in DOMAIN shapes \ {id} :
            \E parent \in DOMAIN shapes : {id, p} \subseteq ToSet(shapes[parent].properties)}}}
    \ {target}

InlinedBy(id, c) ==
    TargetsOf(c) \cup (IF c.component = "sh:qualifiedValueShape" /\ c.disjoint
                       THEN SiblingQualifiedShapes(id, c.target) ELSE {})

ValuesAreNodes(id, nodes) == IF shapes[id].path = Focus THEN nodes ELSE YieldsNodes(shapes[id].path)

RECURSIVE CanInline(_, _)
CanInline(id, nodes) ==
    \/ shapes[id].deactivated
    \/ /\ nodes \/ shapes[id].path = Focus
       /\ \A c \in ToSet(shapes[id].constraints) :
             \A t \in InlinedBy(id, c) : CanInline(t, ValuesAreNodes(id, nodes))
       /\ \A p \in ToSet(shapes[id].properties) : CanInline(p, nodes)

-----------------------------------------------------------------------------
(* Constraints.                                                            *)

\* How violations are found: rows for values, or a row for the focus.
PerValue(component, of, source, test) ==
    [component |-> component, per |-> "value", of |-> of, source |-> source,
     test |-> test, details |-> <<>>]
PerFocus(component, of, condition) ==
    [component |-> component, per |-> "focus", of |-> of, source |-> Focus,
     test |-> condition, details |-> <<>>]

\* Violation::holds.
ItemHolds(item) ==
    IF item.per = "value" THEN MakeAll(item.of, item.source, Fresh(item.of), item.test)
    ELSE item.test

NodeKindHolds(kind, nodes) ==
    CASE kind \in {"IRI", "BlankNodeOrIRI"}         -> nodes
      [] kind = "BlankNode"                         -> FALSE
      [] kind \in {"Literal", "BlankNodeOrLiteral"} -> ~ nodes
      [] kind = "IRIOrLiteral"                      -> TRUE

\* Terms are IRIs and literals; literals never equal nodes.
Membership(var, terms, nodes) ==
    LET constants == {t.value : t \in {t \in terms : t.iri \/ ~ nodes}}
    IN  CASE ~ nodes -> Test(var, [kind |-> "In", values |-> constants])
          [] OTHER -> IF constants = {} THEN Bool(FALSE)
                      ELSE Test(var, [kind |-> "NodeKeyIn", key |-> NodeKey, values |-> constants])

PathsOfProperties(id) == {shapes[p].path : p \in ToSet(shapes[id].properties)}

\* Ignored predicates may be stored as a property and as a relationship.
ClosedKeys(id, ignored) ==
    {NodeKey} \cup ignored.keys
    \cup {p[2] : p \in {p \in PathsOfProperties(id) : p[1] = "property"}}
ClosedRelationships(id, ignored) ==
    ignored.rel_types \cup {p[2] : p \in {p \in PathsOfProperties(id) : p[1] = "out"}}

Connective(component, es) ==
    CASE component = "sh:and"  -> MakeAnd(es)
      [] component = "sh:or"   -> MakeOr(es)
      [] component = "sh:xone" -> MakeXone(es)

\* Mutant: values that also conform to a sibling's qualified shape are counted.
FilterOfTarget(conforms, siblings) == MakeAnd(<<conforms>>)

QualifiedFilter(conforms, siblings) ==
    MakeAnd(<<conforms>> \o MapSeq(siblings, Negate))

RECURSIVE LowerConstraint(_, _, _, _, _)
RECURSIVE Conforms(_, _, _)
RECURSIVE Details(_, _, _)

\* All items of the constraints of a shape, below the variable of.
LowerShape(id, of, nodes) ==
    FlattenSeq(MapSeq(shapes[id].constraints,
                   LAMBDA c : LowerConstraint(id, c, of, shapes[id].path, ValuesAreNodes(id, nodes))))

\* Constraints on the values of a path and on their number.
LowerValueConstraint(c, of, source, nodes) ==
    LET var == Fresh(of)
        component == c.component
        perValue(test) == <<PerValue(component, of, source, test)>>
        counting(filter, cmp, bound) ==
            <<PerFocus(component, of, MakeCount(of, source, var, filter, cmp, bound))>>
    IN  CASE component = "sh:minCount" -> counting(<<>>, "ge", c.bound)
          [] component = "sh:maxCount" -> counting(<<>>, "le", c.bound)
          [] component = "sh:nodeKind" -> perValue(Bool(NodeKindHolds(c.kind, nodes)))
          [] component = "sh:class" ->
               perValue(IF nodes THEN Test(var, [kind |-> "HasLabel", labels |-> c.labels])
                        ELSE Bool(FALSE))
          [] component = "sh:minInclusive" ->
               perValue(IF nodes THEN Bool(FALSE)
                        ELSE Test(var, [kind |-> "Compare", cmp |-> "ge", bound |-> c.bound]))
          [] component = "sh:in"       -> perValue(Membership(var, c.terms, nodes))
          [] component = "sh:hasValue" -> counting(<<Membership(var, {c.term}, nodes)>>, "ge", 1)

\* Constraints on the focus as a whole.
LowerFocusConstraint(id, c, of, source) ==
    <<PerFocus(c.component, of,
          CASE c.component = "sh:pair"   -> Pair(of, source, c.right, c.relation)
            [] c.component = "sh:closed" ->
                   Closed(of, ClosedKeys(id, c.ignored), ClosedRelationships(id, c.ignored)))>>

\* Constraints that refer to shapes, and all others.
LowerConstraint(id, c, of, source, nodes) ==
    LET var == Fresh(of)
        inlined(t) == Conforms(t, var, nodes)
        component == c.component
    IN  CASE component = "sh:node" ->
               <<[PerValue(component, of, source, inlined(c.target))
                     EXCEPT !.details = Details(c.target, var, nodes)]>>
          [] component = "sh:not" ->
               <<PerValue(component, of, source, Negate(inlined(c.target)))>>
          [] component \in {"sh:and", "sh:or", "sh:xone"} ->
               <<[PerValue(component, of, source, Connective(component, MapSeq(c.members, inlined)))
                     EXCEPT !.details = FlattenSeq(MapSeq(c.members, LAMBDA t : Details(t, var, nodes)))]>>
          [] component = "sh:qualifiedValueShape" ->
               (LET siblings == IF c.disjoint THEN SetToSeq(SiblingQualifiedShapes(id, c.target)) ELSE <<>>
                    filter == <<QualifiedFilter(inlined(c.target), MapSeq(siblings, inlined))>>
                    bounds == <<[name |-> "sh:qualifiedMinCount", cmp |-> "ge", bound |-> c.min],
                                [name |-> "sh:qualifiedMaxCount", cmp |-> "le", bound |-> c.max]>>
                IN  MapSeq(SelectSeq(bounds, LAMBDA b : b.bound # <<>>), LAMBDA b :
                        PerFocus(b.name, of, MakeCount(of, source, var, filter, b.cmp, b.bound[1]))))
          [] component \in {"sh:pair", "sh:closed"} -> LowerFocusConstraint(id, c, of, source)
          [] OTHER -> LowerValueConstraint(c, of, source, nodes)

\* The condition under which the value of var conforms to a shape.
Conforms(id, var, nodes) ==
    IF shapes[id].deactivated THEN Bool(TRUE)
    ELSE MakeAnd(MapSeq(LowerShape(id, var, nodes), ItemHolds)
                 \o MapSeq(shapes[id].properties, LAMBDA p : Conforms(p, var, nodes)))

\* Mutant: the conditions of a shape without those of its properties.
DetailsOfShape(id, var, nodes) ==
    IF shapes[id].deactivated THEN <<>> ELSE MapSeq(LowerShape(id, var, nodes), ItemHolds)

\* The conditions of a shape and of its properties, one by one.
Details(id, var, nodes) ==
    IF shapes[id].deactivated THEN <<>>
    ELSE LET of(d) == MapSeq(LowerShape(d, var, nodes), ItemHolds)
         IN  of(id) \o FlattenSeq(MapSeq(SelectSeq(shapes[id].properties,
                                                LAMBDA p : ~ shapes[p].deactivated), of))

-----------------------------------------------------------------------------
(* Rules.                                                                  *)

Status(id, item) ==
    CASE shapes[Targeted].deactivated \/ shapes[id].deactivated -> "deactivated"
      [] OTHER -> IF IsBool(ItemHolds(item), TRUE) THEN "guaranteed-by-schema" ELSE "compiled"

\* What a rule is about: the labels of all class targets are one set.
FocusSets ==
    LET targets == shapes[Targeted].targets
        labels == UNION {t.labels : t \in {t \in targets : t.kind = "labels"}}
    IN  {t \in targets : t.kind # "labels"}
        \cup (IF labels = {} THEN {} ELSE {[kind |-> "labels", labels |-> labels]})

\* The shapes whose constraints become rules, and their rules.
Declaring == {Targeted} \cup ToSet(shapes[Targeted].properties)
RulesOf(id) ==
    UNION {{[declared_by |-> id, constraint |-> c, item |-> item, status |-> Status(id, item),
               focus |-> FocusSets] :
              item \in ToSet(LowerConstraint(id, c, FocusVar, shapes[id].path, ValuesAreNodes(id, TRUE)))} :
           c \in ToSet(shapes[id].constraints)}

OnRelationships == \E t \in shapes[Targeted].targets : t.kind = "relationships"

ValueConstraints ==
    {"sh:minCount", "sh:maxCount", "sh:nodeKind", "sh:minInclusive", "sh:in", "sh:hasValue"}

\* Relationships are a focus of their own, and have nothing but single properties.
CanFocus ==
    OnRelationships =>
        /\ \A t \in shapes[Targeted].targets : t.kind = "relationships"
        /\ \A id \in Declaring : \A c \in ToSet(shapes[id].constraints) :
               shapes[id].path[1] = "property" /\ c.component \in ValueConstraints
        /\ \A p \in ToSet(shapes[Targeted].properties) : shapes[p].path[1] = "property"

\* Every shape a rule refers to can be inlined; constraints of a deactivated shape are
\* lowered all the same.
CanLower ==
    /\ CanFocus
    /\ \A id \in Declaring : \A c \in ToSet(shapes[id].constraints) :
           \A t \in InlinedBy(id, c) : CanInline(t, ValuesAreNodes(id, TRUE))

Lower ==
    /\ phase = "parsed"
    /\ CanLower
    /\ phase' = "lowered"
    /\ rules' = UNION {RulesOf(id) : id \in Declaring}
    /\ UNCHANGED <<shapes, graph>>

Fail ==
    /\ phase = "parsed"
    /\ ~ CanLower
    /\ phase' = "failed"
    /\ UNCHANGED <<shapes, rules, graph>>

Next == Lower \/ Fail

Spec == Init /\ [][Next]_vars

-----------------------------------------------------------------------------
(* What SHACL says, on the values themselves: a property is about each     *)
(* value of its shape, where lower.rs:852 takes the focus of the shape.    *)

IsNode(x) == x \in Nodes(graph)
ValueNodes(id, x) == Values(graph, x, shapes[id].path)
Denotes(x, t) == IF IsNode(x) THEN t.iri /\ t.value \in graph.props[x][NodeKey] ELSE t.value = x

RECURSIVE Valid(_, _)

Siblings(id, c) == IF c.disjoint THEN SiblingQualifiedShapes(id, c.target) ELSE {}

\* Values that count for a qualified shape.
Qualifying(id, c, x) ==
    {y \in ValueNodes(id, x) : Valid(c.target, y) /\ \A s \in Siblings(id, c) : ~ Valid(s, y)}

\* A value satisfies a constraint on values.
ValueSatisfies(c, y) ==
    CASE c.component = "sh:nodeKind" ->
             IF IsNode(y) THEN c.kind \in {"IRI", "BlankNodeOrIRI", "IRIOrLiteral"}
             ELSE c.kind \in {"Literal", "BlankNodeOrLiteral", "IRIOrLiteral"}
      [] c.component = "sh:class" -> IsNode(y) /\ graph.labels[y] \cap c.labels # {}
      [] c.component = "sh:minInclusive" -> ~ IsNode(y) /\ SameType(y, c.bound) /\ y >= c.bound
      [] c.component = "sh:in" -> \E t \in c.terms : Denotes(y, t)
      [] c.component = "sh:node" -> Valid(c.target, y)
      [] c.component = "sh:not" -> ~ Valid(c.target, y)
      [] c.component = "sh:and" -> \A i \in DOMAIN c.members : Valid(c.members[i], y)
      [] c.component = "sh:or" -> \E i \in DOMAIN c.members : Valid(c.members[i], y)
      [] c.component = "sh:xone" -> \E i \in DOMAIN c.members :
             /\ Valid(c.members[i], y)
             /\ \A j \in DOMAIN c.members \ {i} : ~ Valid(c.members[j], y)

OnValues ==
    {"sh:nodeKind", "sh:class", "sh:minInclusive", "sh:in", "sh:node", "sh:not",
     "sh:and", "sh:or", "sh:xone"}

\* The components of a constraint on all values of x that x violates.
ViolatedComponents(id, c, x) ==
    LET values == ValueNodes(id, x)
        violated(component) ==
            CASE component = "sh:minCount" -> Cardinality(values) < c.bound
              [] component = "sh:maxCount" -> Cardinality(values) > c.bound
              [] component = "sh:hasValue" -> \A y \in values : ~ Denotes(y, c.term)
              [] component = "sh:pair" -> ~ Related(graph, values, Values(graph, x, c.right), c.relation)
              [] component = "sh:closed" ->
                     \/ \E k \in Keys(graph) :
                           /\ Values(graph, x, Property(k)) # {}
                           /\ k # NodeKey
                           /\ k \notin c.ignored.keys
                           /\ Property(k) \notin PathsOfProperties(id)
                     \/ \E t \in RelTypes(graph) :
                           /\ Values(graph, x, Out(t)) # {}
                           /\ t \notin c.ignored.rel_types
                           /\ Out(t) \notin PathsOfProperties(id)
              [] component = "sh:qualifiedMinCount" ->
                     c.min # <<>> /\ Cardinality(Qualifying(id, c, x)) < c.min[1]
              [] component = "sh:qualifiedMaxCount" ->
                     c.max # <<>> /\ Cardinality(Qualifying(id, c, x)) > c.max[1]
    IN  IF c.component = "sh:qualifiedValueShape"
        THEN {m \in {"sh:qualifiedMinCount", "sh:qualifiedMaxCount"} : violated(m)}
        ELSE {m \in {c.component} : violated(m)}

Satisfies(id, c, x) ==
    IF c.component \in OnValues THEN \A y \in ValueNodes(id, x) : ValueSatisfies(c, y)
    ELSE ViolatedComponents(id, c, x) = {}

Valid(id, x) ==
    \/ shapes[id].deactivated
    \/ /\ \A c \in ToSet(shapes[id].constraints) : Satisfies(id, c, x)
       /\ \A p \in ToSet(shapes[id].properties) : \A y \in ValueNodes(id, x) : Valid(p, y)

-----------------------------------------------------------------------------
(* Properties.                                                             *)

InTarget(x, t) ==
    CASE t.kind = "labels"        -> x \in Nodes(graph) /\ graph.labels[x] \cap t.labels # {}
      [] t.kind = "subjectsOf"    -> x \in Nodes(graph) /\ Values(graph, x, t.path) # {}
      [] t.kind = "objectsOf"     -> \E y \in Nodes(graph) : x \in Values(graph, y, t.path)
      [] t.kind = "relationships" -> \E r \in graph.rels : r.id = x /\ r.type = t.type

\* Focus nodes, or relationships.
FocusNodes ==
    {x \in Nodes(graph) \cup {r.id : r \in graph.rels} :
        \E t \in shapes[Targeted].targets : InTarget(x, t)}

\* The focus nodes and values a rule reports.
Rows(rule) ==
    LET item == rule.item
        env(x, y) == Bind(Bind([v \in {} |-> 0], FocusVar, x), Fresh(FocusVar), y)
    IN  IF rule.status # "compiled" THEN {}
        ELSE UNION {{<<x, y>> : y \in {y \in Values(graph, x, item.source) :
                                         ~ Holds(graph, env(x, y), item.test)}} : x \in FocusNodes}

Violations(rule) ==
    LET id == rule.declared_by
        c == rule.constraint
    IN  CASE rule.status = "deactivated" -> {}
          [] OTHER ->
               IF c.component \in OnValues
               THEN UNION {{<<x, y>> : y \in {y \in ValueNodes(id, x) : ~ ValueSatisfies(c, y)}} :
                           x \in FocusNodes}
               ELSE {<<x, x>> : x \in {x \in FocusNodes :
                        rule.item.component \in ViolatedComponents(id, c, x)}}

RECURSIVE Flat(_)

\* No property shape that a shape is made of has properties itself, which "the compiler
\* does not support yet" (lat.md/testing.md:54): the code takes them for properties of the
\* focus in an inlined shape, and ignores them in a targeted one.
FlatReferences(id, c) == \A t \in InlinedBy(id, c) : Flat(t)
Flat(id) ==
    \/ shapes[id].deactivated
    \/ /\ shapes[id].path = Focus \/ shapes[id].properties = <<>>
       /\ \A c \in ToSet(shapes[id].constraints) : FlatReferences(id, c)
       /\ \A p \in ToSet(shapes[id].properties) : Flat(p)

\* "Lowers every targeted shape into rules": a rule reports the focus nodes, or their
\* values, that violate its constraint, and no others, however its shapes are nested
\* and whatever is simplified; a rule without a query has nothing to report.
RowsAreViolations ==
    \A rule \in rules :
        FlatReferences(rule.declared_by, rule.constraint) => Rows(rule) = Violations(rule)

\* A focus node in a row of a rule does not conform to the targeted shape, whichever
\* properties have no rules; and it is in no row of any rule only if it conforms, where
\* none lacks them.
RowsMeanInvalid ==
    phase = "lowered" /\ (\A id \in Declaring : \A c \in ToSet(shapes[id].constraints) : FlatReferences(id, c)) =>
        \A x \in FocusNodes :
            LET reported == \E rule \in rules : \E row \in Rows(rule) : row[1] = x
            IN  /\ reported => ~ Valid(Targeted, x)
                /\ Flat(Targeted) /\ ~ reported => Valid(Targeted, x)

\* The rules of a shape report all that violates it and nothing else: every rule the
\* violations of its constraint, and all rules together every focus node that does not
\* conform.
RulesReportViolations == RowsAreViolations /\ RowsMeanInvalid

\* Properties of the properties of a shape: conforms goes through them, details does not.
DeeperProperties(id) ==
    IF shapes[id].deactivated THEN {}
    ELSE UNION {ToSet(shapes[p].properties) : p \in {p \in ToSet(shapes[id].properties) : ~ shapes[p].deactivated}}

\* "Rows for nested-shape constraints always include `details`" (semantics.md:71), of
\* sh:node, sh:and and sh:or: a value that is reported fails an inner condition too, and
\* the one kind of failure without a condition is that of a property two properties deep.
\* No inner condition of a sh:node or sh:and fails for a value that is fine.
DetailsExplainRows ==
    \A rule \in rules :
        rule.constraint.component \in {"sh:node", "sh:and", "sh:or"} =>
            \A x \in FocusNodes : \A y \in Values(graph, x, rule.item.source) :
                LET env == Bind(Bind([v \in {} |-> 0], FocusVar, x), Fresh(FocusVar), y)
                    nodes == ValuesAreNodes(rule.declared_by, TRUE)
                    holds == Holds(graph, env, rule.item.test)
                    detail == \E i \in DOMAIN rule.item.details : ~ Holds(graph, env, rule.item.details[i])
                    deeper == \E t \in TargetsOf(rule.constraint) : \E p \in DeeperProperties(t) :
                                  ~ Holds(graph, env, Conforms(p, Fresh(FocusVar), nodes))
                IN  /\ ~ holds => detail \/ deeper
                    /\ rule.constraint.component # "sh:or" /\ (detail \/ deeper) => ~ holds
=============================================================================
