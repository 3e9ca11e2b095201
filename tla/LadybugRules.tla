---------------------------- MODULE LadybugRules ----------------------------
(***************************************************************************)
(* The queries render/ladybug.rs writes for a rule, as the rows they       *)
(* return.  A node is in one table, a column has one type, and what the    *)
(* schema snapshot declares decides already while a query is written       *)
(* whether a property is read, how, and what can be compared with it.      *)
(*                                                                         *)
(* Besides its graph a database has node_tables, the types of the columns  *)
(* of each label, and rel_tables, endpoints and columns of each type.  A   *)
(* type is the type of the values and whether the column holds lists.      *)
(***************************************************************************)
EXTENDS PathRoutes, TLC

\* What a variable is bound to: a node of some tables ({} when they are unknown), a
\* relationship, or a property value of some type, and at which one a query is.
AtNode(x, tables) == [kind |-> "node", at |-> x, tables |-> tables]
AtRelationship(x, type) == [kind |-> "relationship", at |-> x, tables |-> {type}]
AtValue(x, type) == [kind |-> "value", at |-> x, type |-> type]

Numbers == {"INT64", "INT32"}
ComparableTypes(a, b) == a = b \/ {a, b} \subseteq Numbers
TakesConstant(type, constant) == IF constant < StringsFrom THEN type \in Numbers ELSE type = "STRING"

-----------------------------------------------------------------------------
(* What the schema declares.                                               *)

ColumnsOf(db, owner) ==
    IF owner.kind = "relationship"
    THEN {db.rel_tables[t].columns : t \in owner.tables \cap DOMAIN db.rel_tables}
    ELSE {db.node_tables[t] : t \in IF owner.tables = {} THEN DOMAIN db.node_tables
                                    ELSE owner.tables \cap DOMAIN db.node_tables}

ColumnTypes(db, owner, key) == {c[key] : c \in {c \in ColumnsOf(db, owner) : key \in DOMAIN c}}
Declares(db, owner, key) == ColumnTypes(db, owner, key) # {}
Column(db, owner, key) == CHOOSE type \in ColumnTypes(db, owner, key) : TRUE
HasOneType(db, owner, key) == owner.kind # "value" /\ Cardinality(ColumnTypes(db, owner, key)) <= 1

\* Tables at the far ends of a relationship, from any table when none is known.
Beyond(db, hop, tables) ==
    UNION {{IF hop.direction = "out" THEN e[2] ELSE e[1] :
                e \in {e \in db.rel_tables[t].endpoints :
                          tables = {} \/ (IF hop.direction = "out" THEN e[1] ELSE e[2]) \in tables}} :
              t \in hop.types \cap DOMAIN db.rel_tables}

RECURSIVE Spread(_, _, _, _)
Spread(db, hop, reached, frontier) ==
    LET next == Beyond(db, hop, frontier) \ reached
    IN  IF next = {} THEN reached ELSE Spread(db, hop, reached \cup next, next)

\* From unknown tables an optional hop leads to its far ends only.
RECURSIVE LabelsAfter(_, _, _)
LabelsAfter(db, tables, hops) ==
    IF hops = <<>> THEN tables
    ELSE LET hop == Head(hops)
             reached == IF IsPlain(hop) THEN Beyond(db, hop, tables)
                        ELSE Spread(db, hop, IF hop.min = 0 THEN tables ELSE {}, tables)
         IN  IF reached = {} THEN {} ELSE LabelsAfter(db, reached, Tail(hops))

\* A node at the end of a route from owner, and what a variable over the route is bound to.
EndOf(db, owner, route, x) ==
    IF route.hops = <<>> THEN owner
    ELSE AtNode(x, LabelsAfter(db, IF owner.kind = "node" THEN owner.tables ELSE {}, route.hops))
Element(db, end, route, y) ==
    IF EndsInProperty(route) THEN AtValue(y, Column(db, end, route.property).of) ELSE end

\* Routes that end in a property no table declares are left out.
Reads(db, owner, route) ==
    EndsInProperty(route) =>
        \A end \in {EndOf(db, owner, route, Null)} : Declares(db, end, route.property)
RoutesRead(db, owner, routes) == SelectSeq(routes, LAMBDA route : Reads(db, owner, route))

-----------------------------------------------------------------------------
(* Values.                                                                 *)

\* Unwound as it is stored, or without its nulls.
RawList(db, owner, key) ==
    LET property == IF owner.at = Null THEN Absent ELSE Stored(db, owner.at, key)
    IN  CASE property[1] = "null"   -> <<>>
          [] property[1] = "list"   -> property[2]
          [] property[1] = "scalar" -> <<property[2]>>
ListOf(db, owner, key) == SelectSeq(RawList(db, owner, key), LAMBDA y : y # Null)

\* Several properties of one node are one list, when their types are one.
ListsOf(db, owner, routes) ==
    LET read == RoutesRead(db, owner, routes)
    IN  FlattenSeq([i \in DOMAIN read |-> ListOf(db, owner, read[i].property)])
ElementTypes(db, owner, routes) ==
    {Column(db, owner, route.property).of : route \in ToSet(RoutesRead(db, owner, routes))}

\* The nodes at the ends of a route, and what it yields at one of them.
EndsOf(db, owner, route) == {EndOf(db, owner, route, x) : x \in Ends(Matches(db, owner.at, route.hops))}
Elements(db, end, route) ==
    IF EndsInProperty(route)
    THEN {Element(db, end, route, y) : y \in ToSet(ListOf(db, end, route.property))} ELSE {end}
Reaches(db, x, routes, y) == Truth(\E i \in DOMAIN routes : y \in Ends(Matches(db, x, routes[i].hops)))
AnyValue(db, x, routes) == Truth(\E i \in DOMAIN routes : Matches(db, x, routes[i].hops) # {})
OnlyWithin(db, x, from, other) ==
    AndOf({Truth(\A y \in Ends(Matches(db, x, from[i].hops)) : ~ Keeps(NotOf(Reaches(db, x, other, y)))) :
              i \in DOMAIN from})

\* Tests that no value of the type passes are decided without the value.
ValueTest(value, test) ==
    LET taken == {c \in test.values : TakesConstant(value.type, c)}
    IN  CASE test.kind = "Compare" ->
                 IF ~ TakesConstant(value.type, test.bound) THEN "false"
                 ELSE Coalesced(Compared(value.at, test.cmp, test.bound))
          [] test.kind = "In" -> IF taken = {} THEN "false" ELSE IsIn(value.at, SetToSeq(taken))
          [] OTHER -> "false"

PassesTest(db, value, test) ==
    CASE value.kind = "value" -> ValueTest(value, test)
      [] value.kind = "node" /\ test.kind = "HasLabel" -> Truth(db.labels[value.at] \subseteq test.labels)
      [] value.kind = "node" /\ test.kind = "NodeKeyIn" ->
             IF ~ Declares(db, value, test.key) THEN "false"
             ELSE IsIn(IF Stored(db, value.at, test.key) = Absent THEN Null
                       ELSE Stored(db, value.at, test.key)[2], SetToSeq(test.values))
      [] OTHER -> "false"

-----------------------------------------------------------------------------
(* Pairs.                                                                  *)

Side(db, owner, source) ==
    LET routes == Routes(source)
        key == routes[1].property
    IN  CASE source = Focus   -> [kind |-> "itself"]
          [] AllNodes(routes) -> [kind |-> "nodes", routes |-> routes]
          [] OTHER ->
                 IF ~ Declares(db, owner, key) THEN [kind |-> "empty"]
                 ELSE [kind |-> IF Column(db, owner, key).list THEN "list" ELSE "scalar",
                       type |-> Column(db, owner, key).of, list |-> ListOf(db, owner, key)]

IsEmpty(db, x, side) ==
    CASE side.kind = "itself" -> "false"
      [] side.kind = "empty"  -> "true"
      [] side.kind = "nodes"  -> NotOf(AnyValue(db, x, side.routes))
      [] OTHER                -> Truth(side.list = <<>>)

\* One value and one value, or none.
RelatedScalars(left, right, relation) ==
    LET none == Truth(<<>> \in {left.list, right.list})
        both == Truth(left.list = <<>> /\ right.list = <<>>)
        is(cmp) == Compared(left.list[1], cmp, right.list[1])
    IN  CASE ~ ComparableTypes(left.type, right.type) ->
                 (CASE relation = "Equals"   -> both
                    [] relation = "Disjoint" -> "true"
                    [] OTHER                 -> none)
          [] OTHER ->
                 IF Keeps(none) THEN (IF relation = "Equals" THEN both ELSE "true")
                 ELSE CASE relation = "Equals"           -> Coalesced(is("eq"))
                        [] relation = "Disjoint"         -> NotOf(is("eq"))
                        [] relation = "LessThan"         -> is("lt")
                        [] relation = "LessThanOrEquals" -> is("le")

\* Lists of comparable types are not ordered: there is no query.
RelatedLists(left, right, relation) ==
    LET l == left.list
        r == right.list
        kept(from, P(_)) == Truth(\A y \in ToSet(from) : ~ Keeps(P(y)))
    IN  CASE ~ ComparableTypes(left.type, right.type) ->
                 (CASE relation = "Equals"   -> Truth(l = <<>> /\ r = <<>>)
                    [] relation = "Disjoint" -> "true"
                    [] OTHER                 -> Truth(<<>> \in {l, r}))
          [] OTHER ->
                 CASE relation = "Equals" -> AndOf({kept(l, LAMBDA y : NotOf(IsIn(y, r))),
                                                    kept(r, LAMBDA y : NotOf(IsIn(y, l)))})
                   [] relation = "Disjoint" -> kept(l, LAMBDA y : IsIn(y, r))

RelatedNodes(db, x, left, right, relation) ==
    LET ends(route) == Ends(Matches(db, x, route.hops))
    IN  CASE relation = "Equals" -> AndOf({OnlyWithin(db, x, left, right), OnlyWithin(db, x, right, left)})
          [] relation = "Disjoint" ->
                 Truth(\A i \in DOMAIN left : \A y \in ends(left[i]) : ~ Keeps(Reaches(db, x, right, y)))
          [] OTHER -> NotOf(AndOf({AnyValue(db, x, left), AnyValue(db, x, right)}))

PairHolds(db, x, left, right, relation) ==
    LET kinds == {left.kind, right.kind}
        empty(side) == IsEmpty(db, x, side)
        ends == UNION {Ends(Matches(db, x, right.routes[i].hops)) : i \in DOMAIN right.routes}
    IN  CASE "empty" \in kinds ->
                 IF relation = "Equals" THEN empty(IF left.kind = "empty" THEN right ELSE left) ELSE "true"
          [] kinds = {"scalar"} -> RelatedScalars(left, right, relation)
          [] kinds \subseteq {"scalar", "list"} /\ "list" \in kinds -> RelatedLists(left, right, relation)
          [] kinds = {"nodes"}  -> RelatedNodes(db, x, left.routes, right.routes, relation)
          [] kinds = {"itself", "nodes"} ->
                 (CASE relation = "Equals"   -> AndOf({Truth(ends \subseteq {x}), Reaches(db, x, right.routes, x)})
                    [] relation = "Disjoint" -> NotOf(Reaches(db, x, right.routes, x))
                    [] OTHER                 -> empty(right))
          [] kinds \in {{"itself", "scalar"}, {"itself", "list"}} ->
                 (CASE relation = "Equals"   -> "false"
                    [] relation = "Disjoint" -> "true"
                    [] OTHER                 -> empty(right))
          [] kinds \in {{"nodes", "scalar"}, {"nodes", "list"}} ->
                 (CASE relation = "Equals"   -> AndOf({empty(left), empty(right)})
                    [] relation = "Disjoint" -> "true"
                    [] OTHER                 -> OrOf({empty(left), empty(right)}))

-----------------------------------------------------------------------------
(* Conditions.                                                             *)

\* Declared columns that are not allowed are unset, and no relationship of a table that
\* leaves the node's tables is there unless it is allowed.
ClosedHolds(db, owner, e) ==
    LET extras == UNION {DOMAIN c : c \in ColumnsOf(db, owner)} \ e.allowed
        forbidden == {t \in DOMAIN db.rel_tables \ e.allowed_relationships :
                         owner.tables = {} \/ \E end \in db.rel_tables[t].endpoints : end[1] \in owner.tables}
    IN  IF owner.kind # "node" THEN "true"
        ELSE AndOf({Truth(Stored(db, owner.at, key) = Absent) : key \in extras}
                   \cup {Truth(~ \E r \in db.rels : r.from = owner.at /\ r.type \in forbidden)})

\* at-least-one and none checks, which need no count.
Exists(e) == <<e.cmp, e.bound>> \in {<<"ge", 1>>, <<"gt", 0>>}
ExistsNot(e) == <<e.cmp, e.bound>> \in {<<"lt", 1>>, <<"le", 0>>, <<"eq", 0>>}

RECURSIVE Condition(_, _, _)
RECURSIVE AllHold(_, _, _)
RECURSIVE CountHolds(_, _, _)

Condition(db, env, e) ==
    CASE e.op = "bool" -> Truth(e.value)
      [] e.op = "not"  -> NotOf(Condition(db, env, e.arg))
      [] e.op = "and"  -> AndOf({Condition(db, env, e.args[i]) : i \in DOMAIN e.args})
      [] e.op = "or"   -> OrOf({Condition(db, env, e.args[i]) : i \in DOMAIN e.args})
      [] e.op = "xone" ->
             Truth(Cardinality({i \in DOMAIN e.args : Keeps(Condition(db, env, e.args[i]))}) = 1)
      [] e.op = "all"   -> AllHold(db, env, e)
      [] e.op = "count" -> CountHolds(db, env, e)
      [] e.op = "test"  -> PassesTest(db, env[e.var], e.test)
      [] e.op = "pair"  -> AndOf({PairHolds(db, env[e.of].at, left, right, e.relation) :
                                     left \in {Side(db, env[e.of], e.left)},
                                     right \in {Side(db, env[e.of], e.right)}})
      [] e.op = "closed" -> ClosedHolds(db, env[e.of], e)

\* all(...) over a list or a scalar, or no match that fails: there null does not fail.
AllHold(db, env, e) ==
    LET owner == env[e.of]
        routes == RoutesRead(db, owner, Routes(e.source))
        over(route) ==
            [values |-> UNION {Elements(db, end, route) : end \in EndsOf(db, owner, route)},
             ignored |-> IF IsProperty(route) THEN {} ELSE {"null"}]
        parts == IF e.source = Focus THEN {[values |-> {owner}, ignored |-> {}]}
                 ELSE {over(route) : route \in ToSet(routes)}
        tests(part) ==
            {Condition(db, inner, e.test) : inner \in {Bind(env, e.var, y) : y \in part.values}}
            \ part.ignored
    IN  AndOf(UNION {tests(part) : part \in parts})

\* Distinct values in a list; matches of relationships, or whether there is one.
CountHolds(db, env, e) ==
    LET owner == env[e.of]
        all == Routes(e.source)
        routes == RoutesRead(db, owner, all)
        type == CHOOSE t \in ElementTypes(db, owner, all) : TRUE
        \* what is counted, and the values of which one has to pass
        match(route, m) ==
            [counted |-> m,
             values |-> UNION {Elements(db, end, route) : end \in {EndOf(db, owner, route, m.end)}}]
        candidates ==
            CASE e.source = Focus -> {[counted |-> owner, values |-> {owner}]}
              [] OTHER ->
                     IF AllProperties(all)
                     THEN {[counted |-> y, values |-> {AtValue(y, type)}] :
                              y \in ToSet(ListsOf(db, owner, all))}
                     ELSE UNION {{match(route, m) : m \in Matches(db, owner.at, route.hops)} :
                                    route \in ToSet(routes)}
        counted ==
            {c \in candidates : \E inner \in {Bind(env, e.var, y) : y \in c.values} :
                \A i \in DOMAIN e.filter : Keeps(Condition(db, inner, e.filter[i]))}
    IN  Truth(\/ /\ e.source # Focus /\ ~ AllProperties(all) /\ routes = <<>>
                 /\ ~ Exists(e) /\ ~ ExistsNot(e)
              \/ Compares(e.cmp, Cardinality(counted), e.bound))

-----------------------------------------------------------------------------
(* Rules without a query: types that conflict, and what LadybugDB cannot   *)
(* express.                                                                *)

\* Every property on the way has one type where it is read.
RoutesRender(db, owner, routes) ==
    \A i \in DOMAIN routes :
        EndsInProperty(routes[i]) => HasOneType(db, EndOf(db, owner, routes[i], Null), routes[i].property)
ListsRender(db, owner, routes) ==
    RoutesRender(db, owner, routes) /\ Cardinality(ElementTypes(db, owner, routes)) <= 1

SideRenders(db, owner, source) ==
    source = Focus \/
        /\ HasRoutes(source)
        /\ LET routes == Routes(source)
           IN  \/ AllNodes(routes)
               \/ /\ Len(routes) = 1 /\ IsProperty(routes[1])
                  /\ HasOneType(db, owner, routes[1].property)

PairRenders(db, owner, e) ==
    /\ SideRenders(db, owner, e.left) /\ SideRenders(db, owner, e.right)
    /\ \A left \in {Side(db, owner, e.left)}, right \in {Side(db, owner, e.right)} :
          LET kinds == {left.kind, right.kind}
          IN  "list" \in kinds /\ kinds \subseteq {"list", "scalar"}
              /\ ComparableTypes(left.type, right.type) => e.relation \in {"Equals", "Disjoint"}

\* Matches can be counted over plain hops; a count of values needs a list.
CountRenders(db, owner, e) ==
    LET all == Routes(e.source)
        routes == RoutesRead(db, owner, all)
    IN  IF AllProperties(all) THEN ListsRender(db, owner, all)
        ELSE /\ RoutesRender(db, owner, all)
             /\ \/ Exists(e) \/ ExistsNot(e) \/ routes = <<>>
                \/ /\ Len(all) = 1 /\ ~ EndsInProperty(all[1])
                   /\ \A i \in DOMAIN all[1].hops : IsPlain(all[1].hops[i])

RECURSIVE Renders(_, _, _)
Renders(db, env, e) ==
    LET owner == env[e.of]
        ends == IF e.source = Focus THEN {owner}
                ELSE {Element(db, EndOf(db, owner, route, Null), route, Null) :
                         route \in ToSet(RoutesRead(db, owner, Routes(e.source)))}
        below(condition) ==
            \A inner \in {Bind(env, e.var, end) : end \in ends} : Renders(db, inner, condition)
    IN  CASE e.op \in {"bool", "closed"}        -> TRUE
          [] e.op = "not"                   -> Renders(db, env, e.arg)
          [] e.op \in {"and", "or", "xone"} -> \A i \in DOMAIN e.args : Renders(db, env, e.args[i])
          [] e.op = "test" ->
                 env[e.var].kind = "node" /\ e.test.kind = "NodeKeyIn" => HasOneType(db, env[e.var], e.test.key)
          [] e.op = "pair" -> PairRenders(db, owner, e)
          [] e.op = "all" ->
                 /\ e.source = Focus \/ (HasRoutes(e.source) /\ RoutesRender(db, owner, Routes(e.source)))
                 /\ below(e.test)
          [] e.op = "count" ->
                 /\ e.source = Focus \/ (HasRoutes(e.source) /\ CountRenders(db, owner, e))
                 /\ \A i \in DOMAIN e.filter : below(e.filter[i])

-----------------------------------------------------------------------------
(* Focus nodes and rows.                                                   *)

AnyTable(x) == AtNode(x, {})

FocusCondition(db, set, x) ==
    LET routes == RoutesRead(db, AnyTable(x), Routes(set.path))
        subject(route) ==
            LET isSet(y) == EndsInProperty(route) => Stored(db, y, route.property) # Absent
            IN  \E y \in Ends(Matches(db, x, route.hops)) : isSet(y)
        object(route) == \E y \in NodesOf(db) : x \in Ends(Matches(db, y, route.hops))
    IN  CASE set.kind = "labels"     -> db.labels[x] \subseteq set.labels
          [] set.kind = "subjectsOf" -> \E i \in DOMAIN routes : subject(routes[i])
          [] set.kind = "objectsOf"  -> \E i \in DOMAIN routes : object(routes[i])
          [] set.kind = "relationships" -> FALSE

\* Only the labels of a single class target, or a relationship type, tell the tables.
FocusBinding(focus, x) ==
    LET only == CHOOSE set \in focus : TRUE
        alone(kind) == Cardinality(focus) = 1 /\ only.kind = kind
    IN  CASE alone("relationships") -> AtRelationship(x, only.type)
          [] alone("labels")        -> AtNode(x, only.labels)
          [] OTHER                  -> AnyTable(x)

FocusMatch(db, focus) ==
    {FocusBinding(focus, r.id) : r \in {r \in db.rels : [kind |-> "relationships", type |-> r.type] \in focus}}
    \cup {FocusBinding(focus, x) : x \in {x \in NodesOf(db) : \E set \in focus : FocusCondition(db, set, x)}}

\* A count over one relationship route is taken after an OPTIONAL MATCH, of distinct nodes.
IsHoisted(e, focus_var) ==
    /\ e.op = "count"
    /\ e.of = focus_var /\ e.source # Focus /\ HasRoutes(e.source)
    /\ LET routes == Routes(e.source)
       IN  Len(routes) = 1 /\ ~ EndsInProperty(routes[1]) /\ routes[1].hops # <<>>

HoistedCount(db, env, e) ==
    LET route == Routes(e.source)[1]
        passing ==
            {inner \in {Bind(env, e.var, y) : y \in EndsOf(db, env[e.of], route)} :
                \A i \in DOMAIN e.filter : Keeps(Condition(db, inner, e.filter[i]))}
    IN  Truth(Compares(e.cmp, Cardinality(passing), e.bound))

\* What a rule's value variable is bound to, and its rows without nulls and repetitions.
ValueBinding(db, focus, source, y) ==
    LET routes == RoutesRead(db, focus, Routes(source))
    IN  CASE source = Focus  -> AtNode(focus.at, IF focus.kind = "node" THEN focus.tables ELSE {})
          [] routes = <<>>   -> AtValue(y, "STRING")
          [] OTHER           -> Element(db, EndOf(db, focus, routes[1], y), routes[1], y)

BindValues(db, source, focus) ==
    LET routes == RoutesRead(db, focus, Routes(source))
        rows(route) ==
            IF EndsInProperty(route)
            THEN UNION {Unwind(RawList(db, end, route.property), <<>>) : end \in EndsOf(db, focus, route)}
            ELSE MatchRows(Matches(db, focus.at, route.hops))
    IN  IF source = Focus THEN {Row(focus.at, <<>>)}
        ELSE {r \in Distinct(UNION {rows(routes[i]) : i \in DOMAIN routes}) : r.value # Null}

\* One route, or properties of one type.
BindingRenders(db, focus, routes) ==
    IF Len(routes) = 1 THEN RoutesRender(db, focus, routes)
    ELSE AllProperties(routes) /\ ListsRender(db, focus, routes)

DetailsOf(details, outcomes) ==
    SelectSeq([i \in DOMAIN details |-> i], LAMBDA i : Keeps(NotOf(outcomes[i])))

\* The variables of a row, its rows, and whether there is a query.
RowEnv(db, item, focus, y, focus_var, var) ==
    Bind(focus_var :> focus, var, ValueBinding(db, focus, item.source, y))

RuleRenders(db, rule, focus_var, var) ==
    LET item == rule.item
        focus == FocusBinding(rule.focus, Null)
        hoistedEnd == EndOf(db, focus, Routes(item.test.source)[1], Null)
    IN  /\ CanMatch(rule.focus)
        /\ \A set \in {set \in rule.focus : set.kind = "subjectsOf"} :
              RoutesRender(db, AnyTable(Null), Routes(set.path))
        /\ item.source # Focus =>
              HasRoutes(item.source) /\ BindingRenders(db, focus, Routes(item.source))
        /\ \A env \in {RowEnv(db, item, focus, Null, focus_var, var)} :
              /\ IF item.per = "focus" /\ IsHoisted(item.test, focus_var)
                 THEN \A inner \in {Bind(env, item.test.var, hoistedEnd)} :
                         \A i \in DOMAIN item.test.filter : Renders(db, inner, item.test.filter[i])
                 ELSE Renders(db, env, item.test)
              /\ \A i \in DOMAIN item.details : Renders(db, env, item.details[i])

\* The rows a query considers, and what its conditions are for each: 0 is the test.
Candidates(db, focus, item, focus_var, var) ==
    LET values(f) == IF item.per = "focus" THEN {Row(f.at, <<>>)} ELSE BindValues(db, item.source, f)
        bound ==
            UNION {{[at |-> f.at, value |-> r, env |-> RowEnv(db, item, f, r.value, focus_var, var)] :
                       r \in values(f)} : f \in FocusMatch(db, focus)}
        outcome(env, i) ==
            IF i = 0 /\ item.per = "focus" /\ IsHoisted(item.test, focus_var)
            THEN HoistedCount(db, env, item.test)
            ELSE Condition(db, env, IF i = 0 THEN item.test ELSE item.details[i])
    IN  {[focus |-> Row(b.at, <<>>), value |-> b.value,
          outcomes |-> [i \in 0 .. Len(item.details) |-> outcome(b.env, i)]] : b \in bound}

Query(db, focus, item, focus_var, var) ==
    {[focus |-> c.focus, value |-> c.value, details |-> DetailsOf(item.details, c.outcomes)] :
        c \in {c \in Candidates(db, focus, item, focus_var, var) : Keeps(NotOf(c.outcomes[0]))}}
=============================================================================
