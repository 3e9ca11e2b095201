----------------------------- MODULE PathMapping -----------------------------
(***************************************************************************)
(* mapping.rs: the resolver turns the SHACL property path of a shape into a *)
(* path over property keys and relationship types, from annotations, hints  *)
(* of the constraints, the schema snapshot and naming conventions; lower.rs *)
(* then caps its unbounded repetitions.                                     *)
(*                                                                         *)
(* A name is a string, and "" is a name that is not given: an annotation    *)
(* must not be empty, and an IRI that ends in a separator has no local name.*)
(* Without a snapshot the resolver does what it does with an empty one.  A  *)
(* snapshot has the fields columns (the value types of the keys of every    *)
(* node type it declares) and endpoints (the pairs of node types of every   *)
(* relationship type it declares).                                          *)
(*                                                                         *)
(* The graph is what the paths are asked of.  It changes freely: nothing in *)
(* the resolver may depend on it.                                           *)
(***************************************************************************)
EXTENDS Integers, Sequences, FiniteSets

CONSTANTS
    Paths,          \* the paths of shapes, with the paths that they are built from
    Depth,          \* how deep every path is nested
    MaxDepth,       \* bound on the depth
    Questions,      \* the situations in which a path is resolved
    LocalName,      \* the local name of every predicate IRI
    UpperSnake,     \* the relationship type that a local name suggests
    MaxPathDepth,   \* --max-path-depth
    Nodes, Values,  \* of the graph, disjoint sets of integers
    Keys, RelTypes, \* of the graph
    MaxWrites       \* bound on the size of the graph

VARIABLES
    question,  \* the shape, the annotations of IRIs, the snapshot and --strict
    resolved,  \* the resolved path, or why there is none
    path,      \* the path of the rule: the resolved path, capped
    rels,      \* triples of a node, a relationship type and a node
    props      \* triples of a node, a key and a value
mappingVars == <<question, resolved, path, rels, props>>

\* SHACL paths.
Predicate(iri) == [op |-> "predicate", iri |-> iri]
InversePath(inner) == [op |-> "inverse", of |-> inner]
Sequence(items) == [op |-> "sequence", items |-> items]
Alternative(items) == [op |-> "alternative", items |-> items]
ZeroOrMore(inner) == [op |-> "zeroOrMore", of |-> inner]
OneOrMore(inner) == [op |-> "oneOrMore", of |-> inner]
ZeroOrOne(inner) == [op |-> "zeroOrOne", of |-> inner]

\* Paths are built from paths that are less deep.
IsPath(p) ==
    CASE p.op = "predicate" -> p.iri \in DOMAIN LocalName
      [] p.op \in {"inverse", "zeroOrMore", "oneOrMore", "zeroOrOne"} ->
            p.of \in Paths /\ Depth[p.of] < Depth[p]
      [] p.op \in {"sequence", "alternative"} ->
            /\ p.items \in Seq(Paths) /\ p.items # <<>>
            /\ \A i \in DOMAIN p.items : Depth[p.items[i]] < Depth[p]
      [] OTHER -> FALSE

ASSUME NamesAssumption == DOMAIN UpperSnake = {LocalName[p] : p \in DOMAIN LocalName} \ {""}
ASSUME DepthAssumption == MaxPathDepth \in Nat \ {0}
ASSUME TermsAssumption == Nodes \cap Values = {}
ASSUME ShaclPathsAssumption ==
    /\ MaxDepth \in Nat /\ Depth \in [Paths -> 0 .. MaxDepth]
    /\ \A p \in Paths : IsPath(p)
ASSUME MappingQuestionsAssumption ==
    \A q \in Questions :
        /\ q.shape.path \in Paths
        /\ q.shape.annotations.direction \in {"", "in", "out"}
        /\ \A iri \in DOMAIN LocalName : q.annotations[iri].direction \in {"", "in", "out"}

\* Resolved paths; nodes is what yields_nodes finds.
Unbounded == -1
Property(name, evidence) ==
    [op |-> "property", nodes |-> FALSE, name |-> name, evidence |-> evidence]
Relationship(name, direction, evidence) ==
    [op |-> "relationship", nodes |-> TRUE, name |-> name, direction |-> direction,
     evidence |-> evidence]
InSequence(items) == [op |-> "sequence", nodes |-> items[Len(items)].nodes, items |-> items]
AnyOf(items) == [op |-> "alternative", nodes |-> items[1].nodes, items |-> items]
Repeat(inner, min, max) == [op |-> "repeat", nodes |-> TRUE, of |-> inner, min |-> min, max |-> max]
Error(why) == [op |-> "error", why |-> why]

IsError(result) == result.op = "error"
Unresolved == [op |-> "unresolved"]

NoAnnotations == [property |-> "", relationship |-> "", direction |-> ""]

-----------------------------------------------------------------------------
(* What a predicate is mapped to, for a question q.                        *)

Given(first, second) == IF first # "" THEN first ELSE second

\* Shape-level annotations are for a predicate or its inverse.
IsSimple(p) == p.op = "predicate" \/ (p.op = "inverse" /\ p.of.op = "predicate")
OwnAnnotations(q) == IF IsSimple(q.shape.path) THEN q.shape.annotations ELSE NoAnnotations

ImpliesNodeValues(q) == q.shape.constraint \in {"class", "node", "nodeKindIri"}

SchemaHasProperty(q, key) ==
    \E label \in DOMAIN q.snapshot.columns :
        /\ q.shape.focus = {} \/ label \in q.shape.focus
        /\ key \in DOMAIN q.snapshot.columns[label]

SchemaHasRelationship(q, name) == name \in DOMAIN q.snapshot.endpoints

SchemaPrefersRelationship(q, local) ==
    SchemaHasRelationship(q, UpperSnake[local]) /\ ~ SchemaHasProperty(q, local)

\* Mutant: a hint outweighs the snapshot.
PrefersHint(q, local) == FALSE

SchemaPrefersProperty(q, local) ==
    SchemaHasProperty(q, local) /\ ~ SchemaHasRelationship(q, UpperSnake[local])

ExplicitKind(annotations) ==
    LET relationship == annotations.relationship # "" \/ annotations.direction # ""
    IN  CASE annotations.property # "" /\ relationship -> "conflict"
          [] annotations.property # "" /\ ~ relationship -> "property"
          [] annotations.property = "" /\ relationship -> "relationship"
          [] OTHER -> "none"

Flip(direction) == IF direction = "out" THEN "in" ELSE "out"

CheckStrict(q, step) ==
    IF q.strict /\ step.evidence = "convention" THEN Error("by convention only") ELSE step

RelationshipStep(q, iri, own, inverted) ==
    LET annotations == q.annotations[iri]
        given == Given(own.relationship, annotations.relationship)
        local == LocalName[iri]
        declared == Given(Given(own.direction, annotations.direction), "out")
        direction == IF inverted THEN Flip(declared) ELSE declared
    IN  CASE given # "" -> CheckStrict(q, Relationship(given, direction, "annotation"))
          [] given = "" /\ local = "" -> Error("no local name")
          [] OTHER ->
                LET name == UpperSnake[local]
                    evidence == IF SchemaHasRelationship(q, name) THEN "schema" ELSE "convention"
                IN  CheckStrict(q, Relationship(name, direction, evidence))

PropertyStep(q, iri, own) ==
    LET given == Given(own.property, q.annotations[iri].property)
        local == LocalName[iri]
        evidence == IF SchemaHasProperty(q, local) THEN "schema" ELSE "convention"
    IN  CASE given # "" -> CheckStrict(q, Property(given, "annotation"))
          [] given = "" /\ local = "" -> Error("no local name")
          [] OTHER -> CheckStrict(q, Property(local, evidence))

Step(q, iri, inverted, last) ==
    LET own == IF last THEN OwnAnnotations(q) ELSE NoAnnotations
        kind == IF ExplicitKind(own) = "none"
                THEN ExplicitKind(q.annotations[iri])
                ELSE ExplicitKind(own)
        local == LocalName[iri]
        mustBeNode == inverted \/ ~ last
        relationship ==
            \/ mustBeNode
            \/ last /\ ImpliesNodeValues(q) /\ ~ SchemaPrefersProperty(q, local)
            \/ SchemaPrefersRelationship(q, local)
    IN  CASE kind = "conflict" -> Error("conflicting annotations")
          [] kind = "property" /\ mustBeNode -> Error("needs a relationship")
          [] kind = "property" /\ ~ mustBeNode -> PropertyStep(q, iri, own)
          [] kind = "relationship" -> RelationshipStep(q, iri, own, inverted)
          [] kind = "none" /\ local = "" -> Error("no local name")
          [] OTHER -> IF relationship
                      THEN RelationshipStep(q, iri, own, inverted)
                      ELSE PropertyStep(q, iri, own)

-----------------------------------------------------------------------------
(* What a path is mapped to.                                               *)

Failed(items) == {i \in DOMAIN items : IsError(items[i])}
FirstFailure(items) == items[CHOOSE i \in Failed(items) : \A j \in Failed(items) : i <= j]

LowerSequence(items) == IF Failed(items) = {} THEN InSequence(items) ELSE FirstFailure(items)

Homogeneous(items) == \A i \in DOMAIN items : items[i].nodes = items[1].nodes

LowerAlternative(items) ==
    IF Failed(items) # {} THEN FirstFailure(items)
    ELSE IF Homogeneous(items) THEN AnyOf(items) ELSE Error("mixed alternative")

LowerRepeat(inner, min, max) == IF IsError(inner) THEN inner ELSE Repeat(inner, min, max)

\* Mutant: the items in the order in which they are written.
OrderedAsWritten(items, inverted) == items

\* The items of a sequence in the order in which they are traversed.
Ordered(items, inverted) ==
    [i \in DOMAIN items |-> IF inverted THEN items[Len(items) + 1 - i] ELSE items[i]]

\* inverted: under an odd number of inverses; last: no step comes after this path;
\* lower: what the parts of p are mapped to.
LowerPath(q, lower, p, inverted, last) ==
    CASE p.op = "predicate" -> Step(q, p.iri, inverted, last)
      [] p.op = "inverse" -> lower[p.of][~ inverted][last]
      [] p.op = "sequence" ->
            LET items == Ordered(p.items, inverted)
            IN  LowerSequence([i \in DOMAIN items |->
                                   lower[items[i]][inverted][last /\ i = Len(items)]])
      [] p.op = "alternative" ->
            LowerAlternative([i \in DOMAIN p.items |-> lower[p.items[i]][inverted][last]])
      [] p.op = "zeroOrMore" -> LowerRepeat(lower[p.of][inverted][FALSE], 0, Unbounded)
      [] p.op = "oneOrMore" -> LowerRepeat(lower[p.of][inverted][FALSE], 1, Unbounded)
      [] p.op = "zeroOrOne" -> LowerRepeat(lower[p.of][inverted][FALSE], 0, 1)

Lower(q) ==
    LET lower[p \in Paths] ==
            [inverted \in BOOLEAN |->
                [last \in BOOLEAN |-> LowerPath(q, lower, p, inverted, last)]]
    IN  lower

Lowered(q) == Lower(q)[q.shape.path][FALSE][TRUE]

\* Every path, and every part of one, that may come of a question.
ResolvedPaths ==
    {Lower(q)[p][inverted][last] :
        q \in Questions, p \in Paths, inverted \in BOOLEAN, last \in BOOLEAN}

\* cap_repeats: the capped path, and the flag that it raises.
CapPath(cap, p) ==
    CASE p.op = "repeat" ->
            [path |-> Repeat(cap[p.of].path, p.min, IF p.max = Unbounded THEN MaxPathDepth ELSE p.max),
             capped |-> p.max = Unbounded \/ cap[p.of].capped]
      [] p.op \in {"sequence", "alternative"} ->
            [path |-> [p EXCEPT !.items = [i \in DOMAIN p.items |-> cap[p.items[i]].path]],
             capped |-> \E i \in DOMAIN p.items : cap[p.items[i]].capped]
      [] OTHER -> [path |-> p, capped |-> FALSE]

CapRepeats == LET cap[p \in ResolvedPaths] == CapPath(cap, p) IN cap

-----------------------------------------------------------------------------

MappingInit ==
    /\ question \in Questions
    /\ resolved = Unresolved
    /\ path = Unresolved
    /\ rels = {}
    /\ props = {}

Resolve ==
    /\ resolved = Unresolved
    /\ resolved' = Lowered(question)
    /\ UNCHANGED <<question, path, rels, props>>

Cap ==
    /\ resolved # Unresolved
    /\ ~ IsError(resolved)
    /\ path = Unresolved
    /\ path' = CapRepeats[resolved].path
    /\ UNCHANGED <<question, resolved, rels, props>>

\* Somebody adds to the graph.
CanWrite == path # Unresolved /\ Cardinality(rels) + Cardinality(props) < MaxWrites

AddRelationship ==
    /\ CanWrite
    /\ \E triple \in (Nodes \X RelTypes \X Nodes) \ rels : rels' = rels \cup {triple}
    /\ UNCHANGED <<question, resolved, path, props>>

AddProperty ==
    /\ CanWrite
    /\ \E triple \in (Nodes \X Keys \X Values) \ props : props' = props \cup {triple}
    /\ UNCHANGED <<question, resolved, path, rels>>

MappingNext == Resolve \/ Cap \/ AddRelationship \/ AddProperty

MappingSpec == MappingInit /\ [][MappingNext]_mappingVars

-----------------------------------------------------------------------------
(* Pairs of terms.                                                         *)

Terms == Nodes \cup Values
Pairs == Terms \X Terms

Identity == {<<t, t>> : t \in Terms}
Converse(pairs) == {<<pair[2], pair[1]>> : pair \in pairs}

\* Paths go on from nodes only: a value that two nodes share is not a node between them.
Composed(first, second) ==
    {pair \in Pairs : \E t \in Nodes : <<pair[1], t>> \in first /\ <<t, pair[2]>> \in second}

\* One relation after the other.  A path may start at a value: turned round, it ends there.
Chain(relations) ==
    LET composed[i \in 0 .. Len(relations)] ==
            IF i = 0 THEN Identity
            ELSE IF i = 1 THEN relations[i] ELSE Composed(composed[i - 1], relations[i])
    IN  composed[Len(relations)]

Power(pairs, n) == Chain([i \in 1 .. n |-> pairs])

\* What is reached from a term in one step or more: the terms in every set that the
\* first step and each further one lead into.
LeadsInto(pairs, from, set) ==
    /\ \A t \in Terms : <<from, t>> \in pairs => t \in set
    /\ \A s \in set \cap Nodes : \A t \in Terms : <<s, t>> \in pairs => t \in set
Transitive(pairs) ==
    {pair \in Pairs : \A set \in SUBSET Terms : LeadsInto(pairs, pair[1], set) => pair[2] \in set}

\* The terms that a node is related to.
Ends(pairs, node) == {t \in Terms : <<node, t>> \in pairs}

-----------------------------------------------------------------------------
(* What paths mean.                                                        *)

OfType(name) == {<<t[1], t[3]>> : t \in {u \in rels : u[2] = name}}
OfKey(name) == {<<t[1], t[3]>> : t \in {u \in props : u[2] = name}}

\* A resolved path: what a query that renders it finds.
FindPath(found, p) ==
    CASE p.op = "property" -> OfKey(p.name)
      [] p.op = "relationship" ->
            IF p.direction = "out" THEN OfType(p.name) ELSE Converse(OfType(p.name))
      [] p.op = "sequence" -> Chain([i \in DOMAIN p.items |-> found[p.items[i]]])
      [] p.op = "alternative" -> UNION {found[p.items[i]] : i \in DOMAIN p.items}
      [] p.op = "repeat" ->
            IF p.max = Unbounded
            THEN (IF p.min = 0 THEN Identity ELSE {}) \cup Transitive(found[p.of])
            ELSE UNION {Power(found[p.of], n) : n \in p.min .. p.max}
      [] OTHER -> {}

RulePaths == ResolvedPaths \cup {CapRepeats[p].path : p \in ResolvedPaths}

Found == LET found[p \in RulePaths] == FindPath(found, p) IN found

\* The graph read as RDF: a predicate has the subjects and objects of the
\* relationship type and the property key that it may be mapped to.
Suggested(iri) == IF LocalName[iri] = "" THEN "" ELSE UpperSnake[LocalName[iri]]
TypeOf(q, iri) ==
    Given(Given(OwnAnnotations(q).relationship, q.annotations[iri].relationship), Suggested(iri))
KeyOf(q, iri) ==
    Given(Given(OwnAnnotations(q).property, q.annotations[iri].property), LocalName[iri])
DirectionOf(q, iri) == Given(OwnAnnotations(q).direction, q.annotations[iri].direction)

Triples(q, iri) ==
    (IF DirectionOf(q, iri) = "in" THEN Converse(OfType(TypeOf(q, iri))) ELSE OfType(TypeOf(q, iri)))
        \cup OfKey(KeyOf(q, iri))

\* The pairs of a path in the SHACL recommendation, section 2.3.1.
MeanPath(q, pairs, p) ==
    CASE p.op = "predicate" -> Triples(q, p.iri)
      [] p.op = "inverse" -> Converse(pairs[p.of])
      [] p.op = "sequence" -> Chain([i \in DOMAIN p.items |-> pairs[p.items[i]]])
      [] p.op = "alternative" -> UNION {pairs[p.items[i]] : i \in DOMAIN p.items}
      [] p.op = "zeroOrMore" -> Identity \cup Transitive(pairs[p.of])
      [] p.op = "oneOrMore" -> Transitive(pairs[p.of])
      [] p.op = "zeroOrOne" -> Identity \cup pairs[p.of]

PairsOf(q) == LET pairs[p \in Paths] == MeanPath(q, pairs, p) IN pairs

-----------------------------------------------------------------------------
(* Properties.                                                             *)

\* The resolved path of a shape reaches from every node exactly what its SHACL
\* path does, nodes or property values according to yields_nodes: inverses are
\* pushed down to the steps, sequences are turned round, and nothing but the
\* last step of a path is ever a property (lower, step and repeat).
ResolvedPathMeansShaclPath ==
    path # Unresolved =>
        LET found == Found[resolved]
            pairs == PairsOf(question)[question.shape.path]
        IN  \A node \in Nodes :
                Ends(found, node) = {t \in Ends(pairs, node) : (t \in Nodes) = resolved.nodes}

\* A capped path reaches nothing that the path does not, and it reaches all of it
\* unless the cap is reported (cap_repeats).
TruncationIsReported ==
    path # Unresolved =>
        /\ Found[path] \subseteq Found[resolved]
        /\ ~ CapRepeats[resolved].capped => Found[path] = Found[resolved]

\* What is queried for a path is what SHACL means by it, from the first step of its
\* resolution to the cap, short only of what is reported as truncated.
MappedPathMeansShaclPath == ResolvedPathMeansShaclPath /\ TruncationIsReported

\* Hints and conventions never turn a property that the snapshot declares for the
\* focus into a relationship type that it does not declare, which would be empty
\* (schema_prefers_property, schema_prefers_relationship).
DeclaredPropertiesStayProperties ==
    LET p == question.shape.path
    IN  /\ resolved.op = "relationship" /\ resolved.evidence = "convention"
        /\ p.op = "predicate"
        /\ DirectionOf(question, p.iri) = ""
        => ~ SchemaHasProperty(question, LocalName[p.iri])
=============================================================================
