------------------------------ MODULE PathRoutes ------------------------------
(***************************************************************************)
(* What render/mod.rs makes of resolved paths for every dialect: routes of *)
(* relationship hops that may end in a property.                           *)
(***************************************************************************)
EXTENDS CypherQueries

NoProperty == ""

Hop(types, direction, min, max) ==
    [types |-> types, direction |-> direction, min |-> min, max |-> max]
IsPlain(hop) == hop.min = 1 /\ hop.max = 1

Route(hops, property) == [hops |-> hops, property |-> property]
EndsInProperty(route) == route.property # NoProperty
IsProperty(route) == route.hops = <<>> /\ EndsInProperty(route)

\* Alternatives of plain single hops in one direction are one hop of several types.
MergeSingleHops(routes) ==
    LET hop(i) == routes[i].hops[1]
        mergeable ==
            /\ Len(routes) > 1
            /\ \A i \in DOMAIN routes :
                  /\ ~ EndsInProperty(routes[i])
                  /\ Len(routes[i].hops) = 1
                  /\ IsPlain(hop(i))
                  /\ hop(i).direction = hop(1).direction
    IN  IF mergeable
        THEN <<Route(<<Hop(UNION {hop(i).types : i \in DOMAIN routes}, hop(1).direction, 1, 1)>>,
                     NoProperty)>>
        ELSE routes

RECURSIVE Routes(_)
Routes(path) ==
    CASE path[1] = "property"    -> <<Route(<<>>, path[2])>>
      [] path[1] \in {"out", "in"} -> <<Route(<<Hop({path[2]}, path[1], 1, 1)>>, NoProperty)>>
      [] path[1] = "sequence"    ->
             FoldLeft(LAMBDA acc, step :
                          FlattenSeq([i \in DOMAIN acc |->
                              LET after == Routes(step)
                              IN  [j \in DOMAIN after |->
                                      Route(acc[i].hops \o after[j].hops, after[j].property)]]),
                      <<Route(<<>>, NoProperty)>>, path[2])
      [] path[1] = "alternative" ->
             MergeSingleHops(FlattenSeq([i \in DOMAIN path[2] |-> Routes(path[2][i])]))
      [] path[1] = "repeat"      ->
             LET hop == Routes(path[2])[1].hops[1]
             IN  <<Route(<<[hop EXCEPT !.min = path[3], !.max = path[4]]>>, NoProperty)>>

\* Paths without an error: a property ends its sequence, and a repetition is over one
\* relationship or several in one direction.
RECURSIVE HasRoutes(_)
HasRoutes(path) ==
    CASE path[1] \in {"property", "out", "in"} -> TRUE
      [] path[1] = "sequence" ->
             /\ \A i \in DOMAIN path[2] : HasRoutes(path[2][i])
             /\ \A i \in 1 .. Len(path[2]) - 1 :
                   \A route \in ToSet(Routes(path[2][i])) : ~ EndsInProperty(route)
      [] path[1] = "alternative" -> \A i \in DOMAIN path[2] : HasRoutes(path[2][i])
      [] path[1] = "repeat" ->
             /\ HasRoutes(path[2])
             /\ LET routes == Routes(path[2])
                IN  /\ Len(routes) = 1
                    /\ ~ EndsInProperty(routes[1])
                    /\ Len(routes[1].hops) = 1
                    /\ IsPlain(routes[1].hops[1])

AllProperties(routes) == \A i \in DOMAIN routes : routes[i].hops = <<>>
AllNodes(routes) == \A i \in DOMAIN routes : ~ EndsInProperty(routes[i])

\* Both sides of a pair are properties, or relationship paths.
CanCompare(path) ==
    /\ HasRoutes(path)
    /\ LET routes == Routes(path)
       IN  AllNodes(routes) \/ \A i \in DOMAIN routes : IsProperty(routes[i])

\* Focus sets of nodes, or one type of relationships.
CanMatch(focus) ==
    LET kinds == {set.kind : set \in focus}
    IN  /\ focus # {}
        /\ "relationships" \in kinds => Cardinality(focus) = 1
        /\ \A set \in focus :
              /\ set.kind \in {"subjectsOf", "objectsOf"} => HasRoutes(set.path)
              /\ set.kind = "objectsOf" => AllNodes(Routes(set.path))

\* Whether e follows paths from nodes only, and compares or closes nodes only, when the
\* variables in values are bound to property values.
RECURSIVE ReadsNodes(_, _)
ReadsNodes(values, e) ==
    LET isValue == IF e.source = Focus THEN e.of \in values ELSE ~ YieldsNodes(e.source)
        below == IF isValue THEN values \cup {e.var} ELSE values \ {e.var}
        starts == e.source = Focus \/ e.of \notin values
    IN  CASE e.op \in {"bool", "test"}      -> TRUE
          [] e.op = "not"                   -> ReadsNodes(values, e.arg)
          [] e.op \in {"and", "or", "xone"} -> \A i \in DOMAIN e.args : ReadsNodes(values, e.args[i])
          [] e.op = "all"   -> starts /\ ReadsNodes(below, e.test)
          [] e.op = "count" -> starts /\ \A i \in DOMAIN e.filter : ReadsNodes(below, e.filter[i])
          [] e.op \in {"pair", "closed"} -> e.of \notin values
=============================================================================
