---------------------------- MODULE FalkorDbRules ----------------------------
(***************************************************************************)
(* The queries render/falkordb.rs writes for a rule, as the rows they      *)
(* return.  Every traversal is a stage: a subquery below the rows in scope *)
(* that returns one aggregate.  A stage sees the row variables only, so a  *)
(* traversal from an element of a list is refused.                         *)
(***************************************************************************)
EXTENDS PathRoutes, TLC

ListOf(db, x, key) ==
    LET property == IF x = Null THEN Absent ELSE Stored(db, x, key)
    IN  CASE property[1] = "null"   -> <<>>
          [] property[1] = "list"   -> property[2]
          [] property[1] = "scalar" -> <<property[2]>>

ListsOf(db, x, routes) ==
    FlattenSeq([i \in DOMAIN routes |-> ListOf(db, x, routes[i].property)])

\* OPTIONAL MATCH has a row of a null when nothing matches.
OptionalMatch(rows) == IF rows = {} THEN {Row(Null, <<>>)} ELSE rows

\* Rows of one route, by MATCH or by OPTIONAL MATCH.  The guards on relationship
\* variables keep parallel relationships apart.
RouteClause(db, route, x, optional) ==
    LET matched == MatchRows(Matches(db, x, route.hops))
        ends == IF optional THEN OptionalMatch(matched) ELSE matched
    IN  CASE IsProperty(route)       -> Unwind(ListOf(db, x, route.property), <<>>)
          [] ~ EndsInProperty(route) -> ends
          [] OTHER -> UNION {Unwind(ListOf(db, r.value, route.property), r.source) : r \in ends}

\* What aggregates see: collect and count leave nulls out.
NonNull(rows) == {r.value : r \in rows} \ {Null}

ValuesOf(db, route, x) == NonNull(RouteClause(db, route, x, TRUE))

ValueTest(db, x, test) ==
    CASE test.kind = "HasLabel"  -> Truth(db.labels[x] \cap test.labels # {})
      [] test.kind = "Compare"   -> Coalesced(Compared(x, test.cmp, test.bound))
      [] test.kind = "In"        -> Coalesced(IsIn(x, SetToSeq(test.values)))
      [] test.kind = "NodeKeyIn" ->
             LET key == Stored(db, x, test.key)
             IN  Coalesced(CASE key = Absent      -> "null"
                             [] key[1] = "scalar" -> IsIn(key[2], SetToSeq(test.values))
                             [] key[1] = "list"   -> "false")

-----------------------------------------------------------------------------
(* Pairs: lists of values, or ids collected by stages.                     *)

Side(db, x, source) ==
    LET routes == Routes(source)
        ids(route) == SetToSeq(NonNull(RouteClause(db, route, x, TRUE)))
    IN  CASE source = Focus -> [kind |-> "itself", list |-> <<x>>]
          [] OTHER -> IF AllProperties(routes) THEN [kind |-> "values", list |-> ListsOf(db, x, routes)]
                      ELSE [kind |-> "ids",
                            list |-> FlattenSeq([i \in DOMAIN routes |-> ids(routes[i])])]

OrderOf(relation) == IF relation = "LessThan" THEN "lt" ELSE "le"

NoValues(list) == NoneIn(list, NotNull)
IsEmpty(ids) == Truth(Len(ids) = 0)

RelatedLists(left, right, relation) ==
    LET within(from, other) ==
            AllIn(from, LAMBDA x : OrOf({IsNull(x), Coalesced(IsIn(x, other))}))
    IN  CASE relation = "Equals" -> AndOf({within(left, right), within(right, left)})
          [] relation = "Disjoint" ->
                 NoneIn(left, LAMBDA x : AndOf({NotNull(x), Coalesced(IsIn(x, right))}))
          [] OTHER ->
                 AllIn(left, LAMBDA x : OrOf({IsNull(x), AllIn(right, LAMBDA y :
                     OrOf({IsNull(y), Coalesced(Compared(x, OrderOf(relation), y))}))}))

PairHolds(left, right, relation) ==
    LET kinds == <<left.kind, right.kind>>
        ordered == relation \in {"LessThan", "LessThanOrEquals"}
        l == left.list
        r == right.list
        within(from, other) == AllIn(from, LAMBDA y : IsIn(y, other))
        values == IF left.kind = "values" THEN l ELSE r
        ids == IF left.kind = "ids" THEN l ELSE r
    IN  CASE kinds = <<"values", "values">> -> RelatedLists(l, r, relation)
          [] kinds = <<"ids", "ids">> ->
                 (CASE relation = "Equals"   -> AndOf({within(l, r), within(r, l)})
                    [] relation = "Disjoint" -> NoneIn(l, LAMBDA y : IsIn(y, r))
                    [] ordered -> NotOf(AndOf({NotOf(IsEmpty(l)), NotOf(IsEmpty(r))})))
          [] kinds = <<"itself", "ids">> ->
                 (CASE relation = "Equals"   -> AndOf({within(r, l), within(l, r)})
                    [] relation = "Disjoint" -> NotOf(IsIn(l[1], r))
                    [] ordered               -> IsEmpty(r))
          [] kinds = <<"itself", "values">> ->
                 (CASE relation = "Equals"   -> "false"
                    [] relation = "Disjoint" -> "true"
                    [] ordered               -> NoValues(values))
          [] OTHER ->
                 (CASE relation = "Equals"   -> AndOf({NoValues(values), IsEmpty(ids)})
                    [] relation = "Disjoint" -> "true"
                    [] ordered               -> OrOf({NoValues(values), IsEmpty(ids)}))

-----------------------------------------------------------------------------
(* Conditions.                                                             *)

RECURSIVE Condition(_, _, _)
RECURSIVE AllHold(_, _, _)
RECURSIVE CountHolds(_, _, _)

Condition(db, env, e) ==
    CASE e.op = "bool" -> Truth(e.value)
      [] e.op = "not"  -> NotOf(Condition(db, env, e.arg))
      [] e.op = "and"  -> AndOf({Condition(db, env, e.args[i]) : i \in DOMAIN e.args})
      [] e.op = "or"   -> OrOf({Condition(db, env, e.args[i]) : i \in DOMAIN e.args})
      [] e.op = "xone" ->
             Truth(Cardinality({i \in DOMAIN e.args : Keeps(Condition(db, env, e.args[i]))}) = 1)
      [] e.op = "all"   -> AllHold(db, env, e)
      [] e.op = "count" -> CountHolds(db, env, e)
      [] e.op = "test"  -> ValueTest(db, env[e.var], e.test)
      [] e.op = "pair"  ->
             AndOf({PairHolds(left, right, e.relation) : left \in {Side(db, env[e.of], e.left)},
                                                         right \in {Side(db, env[e.of], e.right)}})
      [] e.op = "closed" ->
             AndOf({Truth(KeysOf(db, env[e.of]) \subseteq e.allowed),
                    Truth({r.type : r \in {r \in db.rels : r.from = env[e.of]}}
                              \subseteq e.allowed_relationships)})

\* all(...) over a list, or a stage that collects the tests of its rows without the nulls.
AllHold(db, env, e) ==
    LET x == env[e.of]
        over(route) == [values |-> ValuesOf(db, route, x),
                        ignored |-> IF IsProperty(route) THEN {} ELSE {"null"}]
        parts == IF e.source = Focus THEN {[values |-> {x}, ignored |-> {}]}
                 ELSE {over(route) : route \in ToSet(Routes(e.source))}
        tests(part) ==
            {Condition(db, inner, e.test) : inner \in {Bind(env, e.var, y) : y \in part.values}}
            \ part.ignored
    IN  AndOf(UNION {tests(part) : part \in parts})

\* A stage counts distinct values; a list leaves out the values that fail.
CountHolds(db, env, e) ==
    LET x == env[e.of]
        routes == Routes(e.source)
        values == IF e.source = Focus THEN {x}
                  ELSE UNION {ValuesOf(db, route, x) : route \in ToSet(routes)}
        dropped == IF e.source # Focus /\ AllProperties(routes) THEN {"false"} ELSE {"false", "null"}
        counted ==
            {inner \in {Bind(env, e.var, y) : y \in values} :
                AndOf({Condition(db, inner, e.filter[i]) : i \in DOMAIN e.filter}) \notin dropped}
    IN  Truth(Compares(e.cmp, Cardinality(counted), e.bound))

\* Elements of lists are not rows: where a stage would start from one there is no query.
RECURSIVE Renders(_, _)
Renders(elements, e) ==
    LET routes == Routes(e.source)
        isElement == IF e.source = Focus THEN e.of \in elements ELSE AllProperties(routes)
        below == IF isElement THEN elements \cup {e.var} ELSE elements \ {e.var}
        starts == e.source = Focus \/ (HasRoutes(e.source)
                                       /\ (AllProperties(routes) \/ e.of \notin elements))
    IN  CASE e.op \in {"bool", "test"}      -> TRUE
          [] e.op = "not"                   -> Renders(elements, e.arg)
          [] e.op \in {"and", "or", "xone"} -> \A i \in DOMAIN e.args : Renders(elements, e.args[i])
          [] e.op = "all"    -> starts /\ Renders(below, e.test)
          [] e.op = "count"  -> starts /\ \A i \in DOMAIN e.filter : Renders(below, e.filter[i])
          [] e.op = "pair"   ->
                 \A source \in {e.left, e.right} \ {Focus} :
                     CanCompare(source) /\ (AllProperties(Routes(source)) \/ e.of \notin elements)
          [] e.op = "closed" -> e.of \notin elements

-----------------------------------------------------------------------------
(* Focus nodes and rows.                                                   *)

FocusCondition(db, set, x) ==
    LET routes == Routes(set.path)
        subject(route) ==
            CASE IsProperty(route)       -> Stored(db, x, route.property) # Absent
              [] ~ EndsInProperty(route) ->
                     NonNull(OptionalMatch(MatchRows(Matches(db, x, route.hops)))) # {}
              [] OTHER -> \E y \in NonNull(OptionalMatch(MatchRows(Matches(db, x, route.hops)))) :
                              Stored(db, y, route.property) # Absent
        object(route) ==
            NonNull(OptionalMatch({Row(y, <<>>) :
                y \in {y \in NodesOf(db) : x \in Ends(Matches(db, y, route.hops))}})) # {}
    IN  CASE set.kind = "labels"        -> db.labels[x] \cap set.labels # {}
          [] set.kind = "subjectsOf"    -> \E i \in DOMAIN routes : subject(routes[i])
          [] set.kind = "objectsOf"     -> \E i \in DOMAIN routes : object(routes[i])
          [] set.kind = "relationships" -> FALSE

FocusMatch(db, focus) ==
    {Row(r.id, <<>>) : r \in {r \in db.rels : [kind |-> "relationships", type |-> r.type] \in focus}}
    \cup {Row(x, <<>>) : x \in {x \in NodesOf(db) : \E set \in focus : FocusCondition(db, set, x)}}

BindValues(db, source, x) ==
    LET routes == Routes(source)
    IN  CASE source = Focus        -> {Row(x, <<>>)}
          [] AllProperties(routes) -> Distinct(Unwind(ListsOf(db, x, routes), <<>>))
          [] OTHER -> Distinct(UNION {RouteClause(db, routes[i], x, FALSE) : i \in DOMAIN routes})

DetailsOf(details, outcomes) ==
    SelectSeq([i \in DOMAIN details |-> i], LAMBDA i : Keeps(NotOf(outcomes[i])))

\* The rows a query considers, and what its conditions are for each: 0 is the test.
Candidates(db, focus, item, focus_var, var) ==
    LET values(f) == IF item.per = "focus" THEN {Row(f.value, <<>>)} ELSE BindValues(db, item.source, f.value)
        bound ==
            UNION {{[focus |-> f, value |-> r, env |-> Bind(focus_var :> f.value, var, r.value)] :
                       r \in values(f)} : f \in FocusMatch(db, focus)}
    IN  {[focus |-> b.focus, value |-> b.value,
          outcomes |-> [i \in 0 .. Len(item.details) |->
                           Condition(db, b.env, IF i = 0 THEN item.test ELSE item.details[i])]] : b \in bound}

Query(db, focus, item, focus_var, var) ==
    LET guard(y) ==
            IF item.per = "focus" \/ item.source = Focus \/ AllNodes(Routes(item.source)) THEN "true"
            ELSE NotNull(y)
    IN  {[focus |-> c.focus, value |-> c.value, details |-> DetailsOf(item.details, c.outcomes)] :
            c \in {c \in Candidates(db, focus, item, focus_var, var) :
                      Keeps(AndOf({guard(c.value.value), NotOf(c.outcomes[0])}))}}
=============================================================================
