------------------------------ MODULE Neo4jRules ------------------------------
(***************************************************************************)
(* The queries render/neo4j.rs writes for a rule, as the rows they return. *)
(* Every operator stands for the Cypher one function writes and is what    *)
(* that Cypher evaluates to; the text is left out.                         *)
(***************************************************************************)
EXTENDS PathRoutes, TLC

\* A property as a list of its values: scalars become one-element lists.
ListOf(db, x, key) ==
    CASE Stored(db, x, key) = Absent     -> <<>>
      [] Stored(db, x, key)[1] = "list"  -> Stored(db, x, key)[2]
      [] Stored(db, x, key)[1] = "scalar" -> <<Stored(db, x, key)[2]>>

\* The lists of several property routes, one after the other.
ListsOf(db, x, routes) ==
    FlattenSeq([i \in DOMAIN routes |-> ListOf(db, x, routes[i].property)])

\* Clauses that bind a variable to the values of one route.
RouteClause(db, route, x) ==
    CASE IsProperty(route)        -> Unwind(ListOf(db, x, route.property), <<>>)
      [] ~ EndsInProperty(route)  -> MatchRows(Matches(db, x, route.hops))
      [] OTHER -> UNION {Unwind(ListOf(db, m.end, route.property), m.rels) :
                            m \in Matches(db, x, route.hops)}

ValuesOf(db, route, x) == {r.value : r \in RouteClause(db, route, x)} \ {Null}

\* Mutant: a comparison with a value of another type is null.
ValueTestUncoalesced(db, x, test) ==
    CASE test.kind = "HasLabel"  -> Truth(db.labels[x] \cap test.labels # {})
      [] test.kind = "Compare"   -> Compared(x, test.cmp, test.bound)
      [] test.kind = "In"        -> Coalesced(IsIn(x, SetToSeq(test.values)))
      [] test.kind = "NodeKeyIn" ->
             Coalesced(IsIn(IF Stored(db, x, test.key)[1] = "scalar" THEN Stored(db, x, test.key)[2]
                            ELSE Null, SetToSeq(test.values)))

ValueTest(db, x, test) ==
    CASE test.kind = "HasLabel"  -> Truth(db.labels[x] \cap test.labels # {})
      [] test.kind = "Compare"   -> Coalesced(Compared(x, test.cmp, test.bound))
      [] test.kind = "In"        -> Coalesced(IsIn(x, SetToSeq(test.values)))
      [] test.kind = "NodeKeyIn" ->
             LET key == Stored(db, x, test.key)
             IN  Coalesced(CASE key = Absent      -> "null"
                             [] key[1] = "scalar" -> IsIn(key[2], SetToSeq(test.values))
                             [] key[1] = "list"   -> "false")

-----------------------------------------------------------------------------
(* Pairs.                                                                  *)

NoValues(list) == NoneIn(list, NotNull)
Reaches(db, x, routes, y) == Truth(\E i \in DOMAIN routes : y \in Ends(Matches(db, x, routes[i].hops)))
AnyValue(db, x, routes) == Truth(\E i \in DOMAIN routes : Matches(db, x, routes[i].hops) # {})

\* Every node reached over some routes is also reached over others.
OnlyWithin(db, x, from, other) ==
    AndOf({Truth(~ \E y \in Ends(Matches(db, x, from[i].hops)) : Keeps(NotOf(Reaches(db, x, other, y)))) :
              i \in DOMAIN from})

\* The focus node itself, a list of values, or routes to nodes.
Side(db, x, source) ==
    IF source = Focus THEN [kind |-> "itself"]
    ELSE LET routes == Routes(source)
         IN  IF AllProperties(routes) THEN [kind |-> "values", list |-> ListsOf(db, x, routes)]
             ELSE [kind |-> "nodes", routes |-> routes]

OrderOf(relation) == IF relation = "LessThan" THEN "lt" ELSE "le"

\* Two lists of values, either of which may hold nulls.
RelatedLists(left, right, relation) ==
    LET within(from, other) ==
            AllIn(from, LAMBDA x : OrOf({IsNull(x), Coalesced(IsIn(x, other))}))
    IN  CASE relation = "Equals" -> AndOf({within(left, right), within(right, left)})
          [] relation = "Disjoint" ->
                 NoneIn(left, LAMBDA x : AndOf({NotNull(x), Coalesced(IsIn(x, right))}))
          [] OTHER ->
                 AllIn(left, LAMBDA x : OrOf({IsNull(x), AllIn(right, LAMBDA y :
                     OrOf({IsNull(y), Coalesced(Compared(x, OrderOf(relation), y))}))}))

PairHolds(db, x, left, right, relation) ==
    LET kinds == <<left.kind, right.kind>>
        ordered == relation \in {"LessThan", "LessThanOrEquals"}
        list == IF left.kind = "values" THEN left.list ELSE right.list
        routes == IF left.kind = "nodes" THEN left.routes ELSE right.routes
    IN  CASE kinds = <<"values", "values">> -> RelatedLists(left.list, right.list, relation)
          [] kinds = <<"nodes", "nodes">> ->
                 (CASE relation = "Equals" -> AndOf({OnlyWithin(db, x, left.routes, right.routes),
                                                     OnlyWithin(db, x, right.routes, left.routes)})
                    [] relation = "Disjoint" ->
                           AndOf({Truth(~ \E y \in Ends(Matches(db, x, left.routes[i].hops)) :
                                      Keeps(Reaches(db, x, right.routes, y))) : i \in DOMAIN left.routes})
                    [] ordered -> NotOf(AndOf({AnyValue(db, x, left.routes), AnyValue(db, x, right.routes)})))
          [] kinds = <<"itself", "nodes">> ->
                 (CASE relation = "Equals" ->
                           AndOf({Truth(\A i \in DOMAIN routes : Ends(Matches(db, x, routes[i].hops)) \subseteq {x}),
                                  Reaches(db, x, routes, x)})
                    [] relation = "Disjoint" -> NotOf(Reaches(db, x, routes, x))
                    [] ordered -> NotOf(AnyValue(db, x, routes)))
          [] kinds = <<"itself", "values">> ->
                 (CASE relation = "Equals"   -> "false"
                    [] relation = "Disjoint" -> "true"
                    [] ordered               -> NoValues(list))
          [] OTHER ->
                 (CASE relation = "Equals"   -> AndOf({NoValues(list), NotOf(AnyValue(db, x, routes))})
                    [] relation = "Disjoint" -> "true"
                    [] ordered               -> OrOf({NoValues(list), NotOf(AnyValue(db, x, routes))}))

-----------------------------------------------------------------------------
(* Conditions.                                                             *)

RECURSIVE Condition(_, _, _)
RECURSIVE AllHold(_, _, _)
RECURSIVE CountHolds(_, _, _)

Condition(db, env, e) ==
    CASE e.op = "bool" -> Truth(e.value)
      [] e.op = "not"  -> NotOf(Condition(db, env, e.arg))
      [] e.op = "and"  -> AndOf({Condition(db, env, e.args[i]) : i \in DOMAIN e.args})
      [] e.op = "or"   -> OrOf({Condition(db, env, e.args[i]) : i \in DOMAIN e.args})
      [] e.op = "xone" ->
             Truth(Cardinality({i \in DOMAIN e.args : Keeps(Condition(db, env, e.args[i]))}) = 1)
      [] e.op = "all"   -> AllHold(db, env, e)
      [] e.op = "count" -> CountHolds(db, env, e)
      [] e.op = "test"  -> ValueTest(db, env[e.var], e.test)
      [] e.op = "pair"  -> AndOf({PairHolds(db, env[e.of], left, right, e.relation) :
                                     left \in {Side(db, env[e.of], e.left)},
                                     right \in {Side(db, env[e.of], e.right)}})
      [] e.op = "closed" ->
             AndOf({Truth(KeysOf(db, env[e.of]) \subseteq e.allowed),
                    Truth({r.type : r \in {r \in db.rels : r.from = env[e.of]}}
                              \subseteq e.allowed_relationships)})

\* The paths of an expression can be written as patterns.
RECURSIVE Renders(_)
Renders(e) ==
    CASE e.op \in {"bool", "test", "closed"} -> TRUE
      [] e.op = "not"                   -> Renders(e.arg)
      [] e.op \in {"and", "or", "xone"} -> \A i \in DOMAIN e.args : Renders(e.args[i])
      [] e.op = "all"   -> (e.source = Focus \/ HasRoutes(e.source)) /\ Renders(e.test)
      [] e.op = "count" ->
             (e.source = Focus \/ HasRoutes(e.source)) /\ \A i \in DOMAIN e.filter : Renders(e.filter[i])
      [] e.op = "pair"  -> \A source \in {e.left, e.right} \ {Focus} : CanCompare(source)

\* all(...) over lists without their nulls, and no match whose value fails: there null does
\* not fail.
AllHold(db, env, e) ==
    LET x == env[e.of]
        over(route) == [values |-> ValuesOf(db, route, x),
                        ignored |-> IF IsProperty(route) THEN {} ELSE {"null"}]
        parts == IF e.source = Focus THEN {[values |-> {x}, ignored |-> {}]}
                 ELSE {over(route) : route \in ToSet(Routes(e.source))}
        tests(part) ==
            {Condition(db, inner, e.test) : inner \in {Bind(env, e.var, y) : y \in part.values}}
            \ part.ignored
    IN  AndOf(UNION {tests(part) : part \in parts})

\* Distinct values in a list, where null does not fail, or rows of a COUNT subquery.
CountHolds(db, env, e) ==
    LET x == env[e.of]
        routes == Routes(e.source)
        values == IF e.source = Focus THEN {x}
                  ELSE UNION {ValuesOf(db, route, x) : route \in ToSet(routes)}
        dropped == IF e.source # Focus /\ AllProperties(routes) THEN {"false"} ELSE {"false", "null"}
        counted ==
            {inner \in {Bind(env, e.var, y) : y \in values} :
                AndOf({Condition(db, inner, e.filter[i]) : i \in DOMAIN e.filter}) \notin dropped}
    IN  Truth(Compares(e.cmp, Cardinality(counted), e.bound))

-----------------------------------------------------------------------------
(* Focus nodes and rows.                                                   *)

FocusCondition(db, set, x) ==
    LET routes == Routes(set.path)
        subject(route) ==
            CASE IsProperty(route)       -> Stored(db, x, route.property) # Absent
              [] ~ EndsInProperty(route) -> Matches(db, x, route.hops) # {}
              [] OTHER -> \E y \in Ends(Matches(db, x, route.hops)) :
                              Stored(db, y, route.property) # Absent
        object(route) == \E y \in NodesOf(db) : x \in Ends(Matches(db, y, route.hops))
    IN  CASE set.kind = "labels"        -> db.labels[x] \cap set.labels # {}
          [] set.kind = "subjectsOf"    -> \E i \in DOMAIN routes : subject(routes[i])
          [] set.kind = "objectsOf"     -> \E i \in DOMAIN routes : object(routes[i])
          [] set.kind = "relationships" -> FALSE

\* Focus sets are put together; relationships are a focus of their own, one row each.
FocusMatch(db, focus) ==
    {Row(r.id, <<>>) : r \in {r \in db.rels : [kind |-> "relationships", type |-> r.type] \in focus}}
    \cup {Row(x, <<>>) : x \in {x \in NodesOf(db) : \E set \in focus : FocusCondition(db, set, x)}}

\* Mutant: a value reached twice has two rows.
BindMatches(db, source, x) ==
    LET routes == Routes(source)
    IN  CASE source = Focus        -> {Row(x, <<>>)}
          [] AllProperties(routes) -> Unwind(ListsOf(db, x, routes), <<>>)
          [] OTHER -> UNION {RouteClause(db, routes[i], x) : i \in DOMAIN routes}

\* The rows of a rule's value variable at a focus.
BindValues(db, source, x) ==
    LET routes == Routes(source)
    IN  CASE source = Focus          -> {Row(x, <<>>)}
          [] AllProperties(routes)   -> Distinct(Unwind(ListsOf(db, x, routes), <<>>))
          [] OTHER -> Distinct(UNION {RouteClause(db, routes[i], x) : i \in DOMAIN routes})

\* Entries of details, CASE WHEN NOT (...) THEN ... END without the nulls.
DetailsOf(details, outcomes) ==
    SelectSeq([i \in DOMAIN details |-> i], LAMBDA i : Keeps(NotOf(outcomes[i])))

\* The rows a query considers, and what its conditions are for each: 0 is the test.
Candidates(db, focus, item, focus_var, var) ==
    LET values(f) == IF item.per = "focus" THEN {Row(f.value, <<>>)} ELSE BindValues(db, item.source, f.value)
        bound ==
            UNION {{[focus |-> f, value |-> r, env |-> Bind(focus_var :> f.value, var, r.value)] :
                       r \in values(f)} : f \in FocusMatch(db, focus)}
    IN  {[focus |-> b.focus, value |-> b.value,
          outcomes |-> [i \in 0 .. Len(item.details) |->
                           Condition(db, b.env, IF i = 0 THEN item.test ELSE item.details[i])]] : b \in bound}

\* The rows of the detail query; the summary counts the same rows.
Query(db, focus, item, focus_var, var) ==
    LET guard(y) ==
            IF item.per = "focus" \/ item.source = Focus \/ AllNodes(Routes(item.source)) THEN "true"
            ELSE NotNull(y)
    IN  {[focus |-> c.focus, value |-> c.value, details |-> DetailsOf(item.details, c.outcomes)] :
            c \in {c \in Candidates(db, focus, item, focus_var, var) :
                      Keeps(AndOf({guard(c.value.value), NotOf(c.outcomes[0])}))}}
=============================================================================
