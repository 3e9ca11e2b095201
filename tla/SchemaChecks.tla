---------------------------- MODULE SchemaChecks ----------------------------
(***************************************************************************)
(* schema_check.rs, column_status of datatypes.rs, and the places of       *)
(* lower.rs and compile.rs that call them: the compiler compares a shape    *)
(* with the schema snapshot, reports what the snapshot does not declare, and *)
(* compiles no query for a constraint that an enforced schema decides.      *)
(*                                                                         *)
(* Meanwhile others write to the database.  LadybugDB enforces its schema,  *)
(* which is taken to be the one of the snapshot; the snapshot of another    *)
(* database is an observation that writes need not keep to.                 *)
(*                                                                         *)
(* A snapshot has the fields columns (the value type of every key of every  *)
(* declared node type) and endpoints (the pairs of node types of every      *)
(* declared relationship type).  A value type is a scalar type, or a list   *)
(* of one.  A property has a set of values, the elements of a list.         *)
(***************************************************************************)
EXTENDS Integers, Sequences, FiniteSets, Functions

CONSTANTS
    Paths,          \* the resolved paths, with the paths that they are built from
    MaxDepth,       \* bound on the depth of paths
    Questions,      \* the situations in which a constraint is compiled
    IntegerBounds,  \* the bounds of every integer type
    Nodes,          \* of the database
    LabelOf,        \* the label of every node
    Types, Keys,    \* the relationship types and keys of writers
    Values,         \* the values of writers
    MaxWrites,      \* bound on the number of writes that keep to an enforced schema
    MaxFreeWrites   \* bound on the number of writes without one

VARIABLES
    question,     \* what is compiled, against which snapshot
    status,       \* the SchemaStatus of the constraint
    diagnostics,  \* the static diagnostics
    outcome,      \* of the compiler
    rels,         \* triples of a node, a relationship type and a node
    props         \* triples of a node, a key and a value
vars == <<question, status, diagnostics, outcome, rels, props>>

Scalar(type) == [list |-> FALSE, type |-> type]
List(type) == [list |-> TRUE, type |-> type]

Bounds == Int \X Int

\* A snapshot declares the node types that its relationship types join.
IsSnapshot(snapshot) ==
    /\ IsFiniteSet(DOMAIN snapshot.columns)
    /\ \A label \in DOMAIN snapshot.columns : \A key \in DOMAIN snapshot.columns[label] :
            LET column == snapshot.columns[label][key]
            IN  column \in {Scalar(column.type), List(column.type)}
    /\ \A name \in DOMAIN snapshot.endpoints :
            \A end \in snapshot.endpoints[name] :
                end[1] \in DOMAIN snapshot.columns /\ end[2] \in DOMAIN snapshot.columns

\* The allowed types of a check are scalars, or one list type of an annotation.
IsCheck(check) ==
    /\ check.range = <<>> \/ check.range \in Bounds
    /\ \/ \A type \in check.allowed : type.list
       \/ \A type \in check.allowed : ~ type.list

IsPath(p) ==
    CASE p.op = "property" -> TRUE
      [] p.op = "relationship" -> p.direction \in {"in", "out"}
      [] p.op \in {"sequence", "alternative"} -> p.items \in Seq(Paths) /\ p.items # <<>>
      [] p.op = "repeat" -> p.of \in Paths /\ p.min \in Nat /\ p.max \in Nat \cup {-1}
      [] OTHER -> FALSE

\* The paths that are not too deep.
Bounded ==
    LET to[d \in 0 .. MaxDepth] ==
            LET below == to[d - 1]
            IN  {p \in Paths : d # 0 /\
                    CASE p.op \in {"property", "relationship"} -> TRUE
                      [] p.op \in {"sequence", "alternative"} -> Range(p.items) \subseteq below
                      [] p.op = "repeat" -> p.of \in below}
    IN  to[MaxDepth]

ASSUME PathsAssumption ==
    /\ MaxDepth \in Nat /\ IsFiniteSet(Nodes)
    /\ \A p \in Paths : IsPath(p) /\ p \in Bounded
ASSUME QuestionsAssumption ==
    \A q \in Questions :
        /\ q.path \in Paths /\ IsFiniteSet(q.focus)
        /\ IsSnapshot(q.snapshot)
        /\ q.constraint.kind \in {"datatype", "class"}
        /\ q.constraint.kind = "datatype" => IsCheck(q.constraint.check)
ASSUME IntegersAssumption ==
    /\ \A type \in DOMAIN IntegerBounds : IntegerBounds[type] \in Bounds
    /\ \A value \in Values : value.n \in Int

columns == question.snapshot.columns
endpoints == question.snapshot.endpoints
enforced == question.enforced
focus == question.focus
constraint == question.constraint

DeclaredLabels == DOMAIN columns
HasColumn(label, key) == label \in DeclaredLabels /\ key \in DOMAIN columns[label]

-----------------------------------------------------------------------------
(* Statuses.                                                               *)

\* A range is a pair of bounds, or empty.
ExpectsList(check) == \E type \in check.allowed : type.list

\* Mutant: only the upper bound of the range is looked at.
BelowMaximum(bounds, range) == range = <<>> \/ bounds[2] <= range[2]

WithinRange(bounds, range) == range = <<>> \/ (range[1] <= bounds[1] /\ bounds[2] <= range[2])

ScalarStatus(check, column) ==
    CASE column = Scalar("ANY") -> "needsCheck"
      [] column # Scalar("ANY") /\ column \notin check.allowed -> "contradicted"
      [] OTHER ->
            IF column.type \in DOMAIN IntegerBounds /\ ~ column.list
               /\ ~ WithinRange(IntegerBounds[column.type], check.range)
            THEN "needsRangeCheck"
            ELSE "guaranteed"

ColumnStatus(check, column) ==
    ScalarStatus(check, IF column.list /\ ~ ExpectsList(check) THEN Scalar(column.type) ELSE column)

Decidable == enforced /\ focus # {}

DatatypeStatus(path, check) ==
    LET declaring == {label \in focus : HasColumn(label, path.name)}
        is(label, result) == ColumnStatus(check, columns[label][path.name]) = result
    IN  CASE path.op # "property" \/ ~ Decidable \/ ~ focus \subseteq DeclaredLabels -> "check"
          [] OTHER ->
                IF declaring # {} /\ \A label \in declaring : is(label, "contradicted")
                THEN "contradicted"
                ELSE IF \A label \in declaring : is(label, "guaranteed")
                     THEN "guaranteed"
                     ELSE "check"

\* Mutant: every relationship is taken to go out.
OutgoingEnds(path, near) ==
    {label \in DeclaredLabels :
        \E end \in endpoints[path.name] : end[1] \in near /\ end[2] = label}

\* The labels at the far ends of a relationship.
FarEnds(path, near) ==
    {label \in DeclaredLabels :
        \E end \in endpoints[path.name] :
            IF path.direction = "out"
            THEN end[1] \in near /\ end[2] = label
            ELSE end[2] \in near /\ end[1] = label}

\* class_status looks at the declared endpoints of the focus.
ReachedLabels(path) == FarEnds(path, focus)

ClassStatus(path, labels) ==
    CASE path.op # "relationship" \/ ~ Decidable -> "check"
      [] path.op = "relationship" /\ Decidable /\ path.name \notin DOMAIN endpoints -> "check"
      [] OTHER ->
            CASE ReachedLabels(path) = {} -> "check"
              [] ReachedLabels(path) # {} /\ ReachedLabels(path) \subseteq labels -> "guaranteed"
              [] ReachedLabels(path) # {} /\ ReachedLabels(path) \cap labels = {} -> "contradicted"
              [] OTHER -> "check"

SchemaStatus ==
    IF constraint.kind = "datatype"
    THEN DatatypeStatus(question.path, constraint.check)
    ELSE ClassStatus(question.path, constraint.labels)

-----------------------------------------------------------------------------
(* Paths.                                                                  *)

\* Following a path leads to labels or nodes, and marks steps; a step is named by
\* the positions that lead to it.
Followed(reached, marked) == [reached |-> reached, marked |-> marked]
Under(i, positions) == {<<i>> \o at : at \in positions}

\* One item after the other; below follows the paths that are less deep.
InSequence(below, items, from) ==
    LET along[i \in 0 .. Len(items)] ==
            IF i = 0 THEN from ELSE below[items[i]][along[i - 1]].reached
    IN  Followed(along[Len(items)],
                 UNION {Under(i, below[items[i]][along[i - 1]].marked) : i \in DOMAIN items})

InAlternative(below, items, from) ==
    Followed(UNION {below[items[i]][from].reached : i \in DOMAIN items},
             UNION {Under(i, below[items[i]][from].marked) : i \in DOMAIN items})

-----------------------------------------------------------------------------
(* Diagnostics.  The walk marks the steps that are not declared.           *)

Mismatch(code, at) == [code |-> code, at |-> at]

\* Whether nothing is reported of the step from labels near; no labels are labels
\* that are not known.
Declares(step, near) ==
    IF step.op = "property"
    THEN near = {} \/ \E label \in near : HasColumn(label, step.name)
    ELSE /\ step.name \in DOMAIN endpoints
         /\ near = {} \/ FarEnds(step, near) # {}

\* The labels that a step reaches from labels near.
StepReaches(step, near) ==
    IF step.op = "property" \/ step.name \notin DOMAIN endpoints
    THEN {}
    ELSE FarEnds(step, IF near = {} THEN DeclaredLabels ELSE near)

WalkStep(step, near) ==
    Followed(StepReaches(step, near), IF Declares(step, near) THEN {} ELSE {<<>>})

\* Mutant: a repetition stays where it starts.
NothingNew(reached, next) == {}

\* The labels that a repetition explores next.
Frontier(reached, next) == next \ reached

Labels == DeclaredLabels \cup focus

\* The frontiers of a repetition, one after the other; they end before the labels do.
Rounds(hop, start, first) ==
    LET rounds[k \in 0 .. Cardinality(Labels)] ==
            IF k = 0
            THEN [reached |-> start \cup first, frontier |-> first]
            ELSE LET was == rounds[k - 1]
                     next == IF was.frontier = {} THEN {}
                             ELSE Frontier(was.reached, hop[was.frontier].reached)
                 IN  [reached |-> was.reached \cup next, frontier |-> next]
    IN  rounds

\* Only the first hop of a repetition is reported.
WalkRepeat(hop, min, near) ==
    LET start == IF min = 0 THEN near ELSE {}
        first == Frontier(start, hop[near].reached)
    IN  Followed(IF near = {} THEN first
                 ELSE Rounds(hop, start, first)[Cardinality(Labels)].reached,
                 Under(1, hop[near].marked))

Walk(below, p, near) ==
    CASE p.op \in {"property", "relationship"} -> WalkStep(p, near)
      [] p.op = "sequence" -> InSequence(below, p.items, near)
      [] p.op = "alternative" -> InAlternative(below, p.items, near)
      [] p.op = "repeat" -> WalkRepeat(below[p.of], p.min, near)

\* The walks along paths of every depth.
Walks ==
    LET walks[d \in 0 .. MaxDepth] ==
            [p \in Paths |-> [near \in SUBSET Labels |->
                IF d = 0 THEN Followed({}, {}) ELSE Walk(walks[d - 1], p, near)]]
    IN  walks

PathMismatches ==
    {Mismatch("path", at) : at \in Walks[MaxDepth][question.path][focus].marked}

\* check_target, for a shape whose one target is a class.
TargetMismatches ==
    IF focus # {} /\ focus \cap DeclaredLabels = {} THEN {Mismatch("target", <<>>)} ELSE {}

ConstraintMismatches ==
    IF SchemaStatus = "contradicted" THEN {Mismatch("constraint", <<>>)} ELSE {}

StaticDiagnostics == TargetMismatches \cup PathMismatches \cup ConstraintMismatches

-----------------------------------------------------------------------------

Init ==
    /\ question \in Questions
    /\ status = "none"
    /\ diagnostics = {}
    /\ outcome = "none"
    /\ rels = {}
    /\ props = {}

Compile ==
    /\ outcome = "none"
    /\ status' = SchemaStatus
    /\ diagnostics' = StaticDiagnostics
    /\ outcome' = IF question.failOnMismatch /\ diagnostics' # {} THEN "failed" ELSE "compiled"
    /\ UNCHANGED <<question, rels, props>>

\* The order of writes and compilation makes no difference to what is written.
CanWrite ==
    /\ outcome = "compiled"
    /\ Cardinality(rels) + Cardinality(props) < IF enforced THEN MaxWrites ELSE MaxFreeWrites

\* Whether a column holds a value, or an element of its lists.
Fits(value, column) ==
    \/ column.type = "ANY"
    \/ /\ value.type = column.type
       /\ column.type \in DOMAIN IntegerBounds =>
            /\ IntegerBounds[column.type][1] <= value.n
            /\ value.n <= IntegerBounds[column.type][2]

Allows(rel) ==
    enforced => /\ rel[2] \in DOMAIN endpoints
                /\ <<LabelOf[rel[1]], LabelOf[rel[3]]>> \in endpoints[rel[2]]

AllowsValue(prop) ==
    enforced => /\ HasColumn(LabelOf[prop[1]], prop[2])
                /\ Fits(prop[3], columns[LabelOf[prop[1]]][prop[2]])

WriteRelationship ==
    /\ CanWrite
    /\ \E rel \in Nodes \X Types \X Nodes : Allows(rel) /\ rels' = rels \cup {rel}
    /\ UNCHANGED <<question, status, diagnostics, outcome, props>>

WriteProperty ==
    /\ CanWrite
    /\ \E prop \in Nodes \X Keys \X Values : AllowsValue(prop) /\ props' = props \cup {prop}
    /\ UNCHANGED <<question, status, diagnostics, outcome, rels>>

Next == Compile \/ WriteRelationship \/ WriteProperty

Spec == Init /\ [][Next]_vars

-----------------------------------------------------------------------------
(* What the query of a constraint would find.                              *)

\* The values of a single step.
ValuesOf(step, from) ==
    CASE step.op = "property" -> {u[3] : u \in {t \in props : t[1] = from /\ t[2] = step.name}}
      [] step.op = "relationship" /\ step.direction = "out" ->
            {u[3] : u \in {t \in rels : t[1] = from /\ t[2] = step.name}}
      [] step.op = "relationship" /\ step.direction = "in" ->
            {u[1] : u \in {t \in rels : t[3] = from /\ t[2] = step.name}}
      [] OTHER -> {}

Satisfies(value) ==
    IF constraint.kind = "class"
    THEN LabelOf[value] \in constraint.labels
    ELSE /\ Scalar(value.type) \in constraint.check.allowed
         /\ value.type \in DOMAIN IntegerBounds /\ constraint.check.range # <<>> =>
                /\ constraint.check.range[1] <= value.n
                /\ value.n <= constraint.check.range[2]

FocusNodes == IF focus = {} THEN Nodes ELSE {node \in Nodes : LabelOf[node] \in focus}

\* A traversal marks the steps at which something is found.
TraverseStep(step, from) ==
    LET values == UNION {ValuesOf(step, node) : node \in from}
    IN  Followed(IF step.op = "property" THEN {} ELSE values,
                 IF values = {} THEN {} ELSE {<<>>})

\* As for the walk, only the first hop of a repetition is marked.
TraverseRepeat(hop, min, max, from) ==
    LET most == IF max = -1 THEN Cardinality(Nodes) ELSE max
        hops[i \in 0 .. most] == IF i = 0 THEN from ELSE hop[hops[i - 1]].reached
    IN  Followed(UNION {hops[i] : i \in min .. most}, Under(1, hop[from].marked))

Traverse(below, p, from) ==
    CASE p.op \in {"property", "relationship"} -> TraverseStep(p, from)
      [] p.op = "sequence" -> InSequence(below, p.items, from)
      [] p.op = "alternative" -> InAlternative(below, p.items, from)
      [] p.op = "repeat" -> TraverseRepeat(below[p.of], p.min, p.max, from)

Traversals ==
    LET traversals[d \in 0 .. MaxDepth] ==
            [p \in Paths |-> [from \in SUBSET Nodes |->
                IF d = 0 THEN Followed({}, {}) ELSE Traverse(traversals[d - 1], p, from)]]
    IN  traversals

FoundAt == Traversals[MaxDepth][question.path][FocusNodes].marked

-----------------------------------------------------------------------------
(* Properties.                                                             *)

\* While the database keeps to the schema of the snapshot, no value of a focus
\* violates a constraint that was not compiled because the schema guarantees it.
\* (datatype_status, class_status).  s2c:datatype with a list type is left out: a
\* list column of that type is guaranteed, while queries look at its elements.
GuaranteedNeverViolated ==
    status = "guaranteed" /\ (constraint.kind = "datatype" => ~ ExpectsList(constraint.check)) =>
        \A node \in FocusNodes : \A value \in ValuesOf(question.path, node) : Satisfies(value)

\* No value of a focus satisfies a constraint that the schema contradicts.
ContradictedNeverHolds ==
    status = "contradicted" =>
        \A node \in FocusNodes : \A value \in ValuesOf(question.path, node) : ~ Satisfies(value)

\* The paths of which some part may stay where it is.
Staying ==
    LET staying[d \in 0 .. MaxDepth] ==
            LET below == staying[d - 1]
            IN  {p \in Paths : d # 0 /\
                    CASE p.op \in {"property", "relationship"} -> FALSE
                      [] p.op \in {"sequence", "alternative"} -> Range(p.items) \cap below # {}
                      [] p.op = "repeat" -> p.min = 0 \/ p.of \in below}
    IN  staying[MaxDepth]

\* A step that is reported finds nothing wherever the path arrives at it, and a
\* shape whose target is reported has no focus: following the endpoints from label
\* to label, repetitions included, never misses a way that the nodes can take
\* (walk, check_target).
MismatchesAreReal ==
    enforced /\ ~ (focus = {} /\ question.path \in Staying) =>
        \A mismatch \in diagnostics :
            /\ mismatch.code = "path" => mismatch.at \notin FoundAt
            /\ mismatch.code = "target" =>
                /\ \A rel \in rels : {rel[1], rel[3]} \cap FocusNodes = {}
                /\ \A prop \in props : prop[1] \notin FocusNodes
=============================================================================
