------------------------------ MODULE Rendering ------------------------------
(***************************************************************************)
(* The rules of ShapeLowering as the queries of the dialects, run on       *)
(* databases that store the graph: properties as scalars or as lists,      *)
(* several relationships between the same nodes, tables with typed columns.*)
(***************************************************************************)
EXTENDS ShapeLowering, PathRoutes

CONSTANTS
    Neo4jDatabases(_),  \* databases a graph may be stored in
    FalkorDatabases(_),
    LadybugDatabases(_) \* with the tables they declare

Neo4j == INSTANCE Neo4jRules
FalkorDb == INSTANCE FalkorDbRules
Ladybug == INSTANCE LadybugRules

ValueVar == Fresh(FocusVar)
RowEnv(x, y) == Bind([v \in {FocusVar} |-> x], ValueVar, y)

-----------------------------------------------------------------------------
(* What is left out of the comparison.                                     *)

\* A relationship is in a match once.  Where that loses no node: a walk that uses one
\* twice ends where another match does.
TrailsSuffice(db, path) ==
    path = Focus \/ ~ HasRoutes(path) \/
        \A route \in ToSet(Routes(path)), x \in NodesOf(db) :
            Ends(MatchesAfter(db, x, route.hops, <<>>, FALSE)) \subseteq Ends(Matches(db, x, route.hops))

\* Properties of property values: keys(...) and property access fail on them.
ReadsNodesOnly(item) ==
    LET values == IF item.per = "value" /\ item.source # Focus /\ ~ YieldsNodes(item.source)
                  THEN {ValueVar} ELSE {}
    IN  /\ ReadsNodes(values, item.test)
        /\ \A i \in DOMAIN item.details : ReadsNodes(values, item.details[i])

Comparable(rule, db) ==
    /\ rule.status = "compiled"
    /\ ReadsNodesOnly(rule.item)
    /\ \A id \in DOMAIN shapes : TrailsSuffice(db, shapes[id].path)

\* The conditions a rule is rendered from.
Conditions(item) == {item.test} \cup ToSet(item.details)
SourceRenders(item) == item.source = Focus \/ HasRoutes(item.source)
OnNeo4j(rule) ==
    /\ CanMatch(rule.focus) /\ SourceRenders(rule.item)
    /\ \A e \in Conditions(rule.item) : Neo4j!Renders(e)
OnFalkorDb(rule) ==
    /\ CanMatch(rule.focus) /\ SourceRenders(rule.item)
    /\ \A e \in Conditions(rule.item) : FalkorDb!Renders({}, e)

OnLadybug(rule, db) == Ladybug!RuleRenders(db, rule, FocusVar, ValueVar)

RECURSIVE Parts(_)
Parts(e) ==
    {e} \cup (CASE e.op = "not" -> Parts(e.arg)
                [] e.op \in {"and", "or", "xone"} -> UNION {Parts(e.args[i]) : i \in DOMAIN e.args}
                [] e.op = "all"   -> Parts(e.test)
                [] e.op = "count" -> UNION {Parts(e.filter[i]) : i \in DOMAIN e.filter}
                [] OTHER          -> {})

\* A count that is not taken in the rule itself is one of matches, and always holds for a
\* property that no table declares.
CountsMatches(rule, e) ==
    /\ e.op = "count" /\ e.source # Focus
    /\ ~ AllProperties(Routes(e.source)) /\ ~ Ladybug!Exists(e) /\ ~ Ladybug!ExistsNot(e)
    /\ ~ (e = rule.item.test /\ Ladybug!IsHoisted(e, FocusVar))

\* From a focus of unknown tables an optional hop is taken to lead to its far ends, also for
\* the nodes that stay where they are: every node is in a table at a far end.
StaysWithinFarEnds(rule, db) ==
    LET focus == Ladybug!FocusBinding(rule.focus, Null)
        optional == {hop \in {Head(route.hops) : route \in
                        {route \in UNION {ToSet(Routes(shapes[id].path)) :
                            id \in {id \in DOMAIN shapes : shapes[id].path # Focus /\ HasRoutes(shapes[id].path)}} :
                         route.hops # <<>>}} : hop.min = 0}
    IN  focus.kind = "node" /\ focus.tables = {} =>
            \A hop \in optional :
                LET ends == Ladybug!Beyond(db, hop, {})
                IN  ends = {} \/ \A x \in NodesOf(db) : db.labels[x] \subseteq ends

\* What the LadybugDB queries rely on besides: one match for each node counted, and keys
\* that are set, because list_contains of a null is null.
LadybugCounts(rule, db) ==
    \A top \in Conditions(rule.item) : \A e \in Parts(top) :
        /\ CountsMatches(rule, e) =>
              \A route \in ToSet(Routes(e.source)), x \in NodesOf(db) :
                  /\ ~ EndsInProperty(route)
                  /\ Cardinality(Matches(db, x, route.hops)) = Cardinality(Ends(Matches(db, x, route.hops)))
        /\ e.op = "test" /\ e.test.kind = "NodeKeyIn" =>
              \A x \in NodesOf(db) : Stored(db, x, NodeKey) # Absent

LadybugRelies(rule, db) == StaysWithinFarEnds(rule, db) /\ LadybugCounts(rule, db)

-----------------------------------------------------------------------------
(* Properties.                                                             *)

\* A query returns the rows of the rule, each once, and with each the inner conditions
\* that fail.
Returns(queries, rule) == \A query \in queries :
    /\ Cardinality(query) = Cardinality(Rows(rule))
    /\ {<<r.focus.value, r.value.value>> : r \in query} = Rows(rule)
    /\ \A r \in query :
          ToSet(r.details) = {i \in DOMAIN rule.item.details :
              ~ Holds(graph, RowEnv(r.focus.value, r.value.value), rule.item.details[i])}

\* The detail query of every rule reports exactly the violations of the rule, on every
\* database: every focus node or relationship once however many targets apply to it, every
\* value once however often it is stored or reached; and the traversals, lists and
\* subqueries a condition turns into say what the condition says.  FalkorDB refuses no rule
\* that Neo4j has a query for, unless it reads a property of a property value.
QueriesReturnViolations ==
    \A rule \in rules :
        /\ \A db \in Neo4jDatabases(graph) :
              Comparable(rule, db) /\ OnNeo4j(rule) =>
                  Returns({Neo4j!Query(db, rule.focus, rule.item, FocusVar, ValueVar)}, rule)
        /\ \A db \in FalkorDatabases(graph) :
              Comparable(rule, db) /\ OnNeo4j(rule) =>
                  /\ OnFalkorDb(rule)
                  /\ Returns({FalkorDb!Query(db, rule.focus, rule.item, FocusVar, ValueVar)}, rule)
        /\ \A db \in LadybugDatabases(graph) :
              Comparable(rule, db) /\ OnLadybug(rule, db) /\ LadybugRelies(rule, db) =>
                  Returns({Ladybug!Query(db, rule.focus, rule.item, FocusVar, ValueVar)}, rule)

\* "Every test is therefore total and renderers never need three-valued logic"
\* (lat.md/dialects.md:15): no condition of a query is null for a focus and a value of
\* the rule, so that NOT of it never hides a row.
Decides(candidates) ==
    \A c \in candidates : c.value.value # Null => \A i \in DOMAIN c.outcomes : c.outcomes[i] # "null"
ConditionsAreNeverNull ==
    \A rule \in rules :
        /\ \A db \in Neo4jDatabases(graph) :
              Comparable(rule, db) /\ OnNeo4j(rule) =>
                  Decides(Neo4j!Candidates(db, rule.focus, rule.item, FocusVar, ValueVar))
        /\ \A db \in FalkorDatabases(graph) :
              Comparable(rule, db) /\ OnFalkorDb(rule) =>
                  Decides(FalkorDb!Candidates(db, rule.focus, rule.item, FocusVar, ValueVar))
        /\ \A db \in LadybugDatabases(graph) :
              Comparable(rule, db) /\ OnLadybug(rule, db) /\ LadybugRelies(rule, db) =>
                  Decides(Ladybug!Candidates(db, rule.focus, rule.item, FocusVar, ValueVar))
=============================================================================
