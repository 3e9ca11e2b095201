--------------------------- MODULE RuleExpressions ---------------------------
(***************************************************************************)
(* The intermediate representation of ir.rs: boolean expressions over a    *)
(* property graph, the constructors that simplify them on the way, the     *)
(* variables they leave unbound, and what they mean.                       *)
(*                                                                         *)
(* A graph has the fields labels, props and rels: the labels of a node, the*)
(* values of the property keys of a node or relationship, and a set of     *)
(* relationships with an id, so that two of them may join the same nodes.  *)
(* Values are integers that are no nodes; those from StringsFrom on stand  *)
(* for strings, which no number is compared with.  A source is the focus   *)
(* itself, or a path: a property key, a relationship type with its         *)
(* direction, or paths put together.                                       *)
(***************************************************************************)
EXTENDS Integers, Sequences, FiniteSets, SequencesExt

Focus == <<"focus">>
Property(key) == <<"property", key>>
Out(rel_type) == <<"out", rel_type>>
In(rel_type) == <<"in", rel_type>>

Sequence(steps) == <<"sequence", steps>>
Alternative(options) == <<"alternative", options>>
Repeat(path, min, max) == <<"repeat", path, min, max>>

RECURSIVE YieldsNodes(_)
YieldsNodes(path) ==
    CASE path[1] = "property"              -> FALSE
      [] path[1] \in {"out", "in", "repeat"} -> TRUE
      [] path[1] = "sequence"              -> YieldsNodes(Last(path[2]))
      [] path[1] = "alternative"           -> YieldsNodes(Head(path[2]))

Bool(b) == [op |-> "bool", value |-> b]
Not(e) == [op |-> "not", arg |-> e]
And(es) == [op |-> "and", args |-> es]
Or(es) == [op |-> "or", args |-> es]
Xone(es) == [op |-> "xone", args |-> es]
All(of, source, var, test) ==
    [op |-> "all", of |-> of, source |-> source, var |-> var, test |-> test]
\* The filter is a sequence of one expression, or of none.
Count(of, source, var, filter, cmp, bound) ==
    [op |-> "count", of |-> of, source |-> source, var |-> var, filter |-> filter,
     cmp |-> cmp, bound |-> bound]
Test(var, test) == [op |-> "test", var |-> var, test |-> test]
Pair(of, left, right, relation) ==
    [op |-> "pair", of |-> of, left |-> left, right |-> right, relation |-> relation]
Closed(of, allowed, allowed_relationships) ==
    [op |-> "closed", of |-> of, allowed |-> allowed,
     allowed_relationships |-> allowed_relationships]

-----------------------------------------------------------------------------
(* The constructors.                                                       *)

IsBool(e, b) == e.op = "bool" /\ e.value = b
HasBool(es, b) == \E i \in DOMAIN es : IsBool(es[i], b)
WithoutBools(es) == SelectSeq(es, LAMBDA e : e.op # "bool")

Compares(cmp, left, right) ==
    CASE cmp = "lt" -> left < right
      [] cmp = "le" -> left <= right
      [] cmp = "eq" -> left = right
      [] cmp = "ge" -> left >= right
      [] cmp = "gt" -> left > right

Negate(e) ==
    CASE e.op = "bool" -> Bool(~ e.value)
      [] e.op = "not"  -> e.arg
      [] OTHER         -> Not(e)

\* Operands that are themselves conjunctions (disjunctions) are merged.
Merged(es, op) ==
    FlattenSeq([i \in DOMAIN es |-> IF es[i].op = op THEN es[i].args ELSE <<es[i]>>])

MakeAnd(es) ==
    LET operands == Merged(WithoutBools(es), "and")
    IN  CASE HasBool(es, FALSE)  -> Bool(FALSE)
          [] OTHER -> CASE Len(operands) = 0 -> Bool(TRUE)
                        [] Len(operands) = 1 -> operands[1]
                        [] OTHER             -> And(operands)

MakeOr(es) ==
    LET operands == Merged(WithoutBools(es), "or")
    IN  CASE HasBool(es, TRUE)   -> Bool(TRUE)
          [] OTHER -> CASE Len(operands) = 0 -> Bool(FALSE)
                        [] Len(operands) = 1 -> operands[1]
                        [] OTHER             -> Or(operands)

MakeXone(es) ==
    LET trues == Cardinality({i \in DOMAIN es : IsBool(es[i], TRUE)})
        operands == WithoutBools(es)
    IN  CASE trues = 0 /\ Len(operands) = 0 -> Bool(FALSE)
          [] trues = 0 /\ Len(operands) = 1 -> operands[1]
          [] trues = 0 /\ Len(operands) > 1 -> Xone(operands)
          [] trues = 1                      -> Negate(MakeOr(operands))
          [] trues > 1                      -> Bool(FALSE)

MakeAll(of, source, var, test) ==
    IF IsBool(test, TRUE) THEN Bool(TRUE) ELSE All(of, source, var, test)

MakeCount(of, source, var, filter, cmp, bound) ==
    CASE HasBool(filter, FALSE) -> Bool(Compares(cmp, 0, bound))
      [] OTHER -> IF cmp = "ge" /\ bound = 0 THEN Bool(TRUE)
                  ELSE Count(of, source, var, WithoutBools(filter), cmp, bound)

-----------------------------------------------------------------------------
(* Meaning.                                                                *)

Nodes(graph) == DOMAIN graph.labels
Keys(graph) == UNION {DOMAIN graph.props[x] : x \in Nodes(graph)}
RelTypes(graph) == {r.type : r \in graph.rels}

StringsFrom == 100
SameType(x, y) == (x < StringsFrom) = (y < StringsFrom)

\* A property value has no properties and no relationships.
RECURSIVE Values(_, _, _)
Values(graph, x, source) ==
    CASE source[1] = "focus"    -> {x}
      [] source[1] = "property" -> IF x \in DOMAIN graph.props THEN graph.props[x][source[2]] ELSE {}
      [] source[1] = "out" -> {r.to : r \in {r \in graph.rels : r.type = source[2] /\ r.from = x}}
      [] source[1] = "in"  -> {r.from : r \in {r \in graph.rels : r.type = source[2] /\ r.to = x}}
      [] source[1] = "sequence" ->
             IF source[2] = <<>> THEN {x}
             ELSE UNION {Values(graph, y, Sequence(Tail(source[2]))) :
                            y \in Values(graph, x, Head(source[2]))}
      [] source[1] = "alternative" -> UNION {Values(graph, x, p) : p \in ToSet(source[2])}
      [] source[1] = "repeat" ->
             LET path == source[2]
                 min == source[3]
                 again == Repeat(path, IF min = 0 THEN 0 ELSE min - 1, source[4] - 1)
             IN  (IF min = 0 THEN {x} ELSE {})
                 \cup (IF source[4] = 0 THEN {}
                       ELSE UNION {Values(graph, y, again) : y \in Values(graph, x, path)})

Passes(graph, x, test) ==
    CASE test.kind = "HasLabel"  -> x \in Nodes(graph) /\ graph.labels[x] \cap test.labels # {}
      [] test.kind = "Compare"   -> /\ x \notin Nodes(graph)
                                    /\ SameType(x, test.bound)
                                    /\ Compares(test.cmp, x, test.bound)
      [] test.kind = "In"        -> x \notin Nodes(graph) /\ x \in test.values
      [] test.kind = "NodeKeyIn" -> x \in Nodes(graph) /\ graph.props[x][test.key] \cap test.values # {}

\* Nodes have no order, and values of different types have none.
Related(graph, left, right, relation) ==
    LET ordered(cmp) == \A x \in left, y \in right :
            {x, y} \cap Nodes(graph) = {} /\ SameType(x, y) /\ Compares(cmp, x, y)
    IN  CASE relation = "Equals"           -> left = right
          [] relation = "Disjoint"         -> left \cap right = {}
          [] relation = "LessThan"         -> ordered("lt")
          [] relation = "LessThanOrEquals" -> ordered("le")

Bind(env, var, x) == [v \in DOMAIN env \cup {var} |-> IF v = var THEN x ELSE env[v]]

RECURSIVE Holds(_, _, _)
Holds(graph, env, e) ==
    CASE e.op = "bool" -> e.value
      [] e.op = "not" -> ~ Holds(graph, env, e.arg)
      [] e.op = "and" -> \A i \in DOMAIN e.args : Holds(graph, env, e.args[i])
      [] e.op = "or" -> \E i \in DOMAIN e.args : Holds(graph, env, e.args[i])
      [] e.op = "xone" -> Cardinality({i \in DOMAIN e.args : Holds(graph, env, e.args[i])}) = 1
      [] e.op = "all" ->
             \A x \in Values(graph, env[e.of], e.source) : Holds(graph, Bind(env, e.var, x), e.test)
      [] e.op = "count" ->
             Compares(e.cmp,
                      Cardinality({x \in Values(graph, env[e.of], e.source) :
                          \A i \in DOMAIN e.filter : Holds(graph, Bind(env, e.var, x), e.filter[i])}),
                      e.bound)
      [] e.op = "test" -> Passes(graph, env[e.var], e.test)
      [] e.op = "pair" ->
             Related(graph, Values(graph, env[e.of], e.left),
                     Values(graph, env[e.of], e.right), e.relation)
      [] e.op = "closed" ->
             /\ {k \in Keys(graph) : Values(graph, env[e.of], Property(k)) # {}}
                  \subseteq e.allowed
             /\ {t \in RelTypes(graph) : Values(graph, env[e.of], Out(t)) # {}}
                  \subseteq e.allowed_relationships
=============================================================================
