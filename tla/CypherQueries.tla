---------------------------- MODULE CypherQueries ----------------------------
(***************************************************************************)
(* What the rendered queries rely on from a database: stored properties    *)
(* and relationships, pattern matching, and conditions that are "true",    *)
(* "false" or "null".  This is the part of Cypher that the code in render/ *)
(* uses, as it uses it; it is external to the repository.                  *)
(*                                                                         *)
(* A database is a graph whose properties are stored as scalars or lists.  *)
(***************************************************************************)
EXTENDS RuleExpressions

Null == -1

Absent == <<"null">>
Scalar(x) == <<"scalar", x>>
List(items) == <<"list", items>>

NodesOf(db) == DOMAIN db.labels
Stored(db, x, key) == IF key \in DOMAIN db.props[x] THEN db.props[x][key] ELSE Absent
KeysOf(db, x) == {key \in DOMAIN db.props[x] : Stored(db, x, key) # Absent}

-----------------------------------------------------------------------------
(* Conditions.                                                             *)

TruthValues == {"true", "false", "null"}
Truth(b) == IF b THEN "true" ELSE "false"
NotOf(t) == [true |-> "false", false |-> "true", null |-> "null"][t]
Conjunction ==
    [ts \in SUBSET TruthValues |->
        IF "false" \in ts THEN "false" ELSE IF "null" \in ts THEN "null" ELSE "true"]
Disjunction ==
    [ts \in SUBSET TruthValues |->
        IF "true" \in ts THEN "true" ELSE IF "null" \in ts THEN "null" ELSE "false"]
AndOf(ts) == Conjunction[ts]
OrOf(ts) == Disjunction[ts]
Coalesced(t) == Truth(t = "true")

IsNull(x) == Truth(x = Null)
NotNull(x) == Truth(x # Null)
EqualTo(x, y) == IF Null \in {x, y} THEN "null" ELSE Truth(x = y)
Compared(x, cmp, y) ==
    IF Null \in {x, y} \/ ~ SameType(x, y) THEN "null" ELSE Truth(Compares(cmp, x, y))

\* all(x IN list WHERE ...), any(...), none(...) and x IN list.
AllIn(list, P(_)) == AndOf({P(x) : x \in ToSet(list)})
AnyIn(list, P(_)) == OrOf({P(x) : x \in ToSet(list)})
NoneIn(list, P(_)) == NotOf(AnyIn(list, P))
IsIn(x, list) == AnyIn(list, LAMBDA y : EqualTo(x, y))

\* WHERE keeps what is true.
Keeps(t) == t = "true"

-----------------------------------------------------------------------------
(* Matches and rows.                                                       *)

\* The relationships of one hop at a node, each with the node at its other end.
Steps(db, hop, x) ==
    {[rel |-> r.id, end |-> IF hop.direction = "out" THEN r.to ELSE r.from] :
        r \in {r \in db.rels : r.type \in hop.types
                                /\ x = IF hop.direction = "out" THEN r.from ELSE r.to}}

\* The matches of a chain of hops from x.  A relationship is in a match once (trails),
\* or any number of times (walks).
RECURSIVE MatchesAfter(_, _, _, _, _)
MatchesAfter(db, x, hops, used, trails) ==
    IF hops = <<>> THEN {[rels |-> used, end |-> x]}
    ELSE LET hop == Head(hops)
             rest == [hop EXCEPT !.min = IF @ = 0 THEN 0 ELSE @ - 1, !.max = @ - 1]
         IN  (IF hop.min = 0 THEN MatchesAfter(db, x, Tail(hops), used, trails) ELSE {})
             \cup (IF hop.max = 0 THEN {}
                   ELSE UNION {MatchesAfter(db, s.end, <<rest>> \o Tail(hops), Append(used, s.rel), trails) :
                                  s \in {s \in Steps(db, hop, x) : trails => s.rel \notin ToSet(used)}})

Matches(db, x, hops) == MatchesAfter(db, x, hops, <<>>, TRUE)
Ends(matches) == {m.end : m \in matches}

\* A row has a value and where it came from: rows with the same value are different.
\* DISTINCT and UNION keep one of them.
Row(value, source) == [value |-> value, source |-> source]
MatchRows(matches) == {Row(m.end, m.rels) : m \in matches}
Unwind(list, source) == {Row(list[i], Append(source, i)) : i \in DOMAIN list}
Distinct(rows) == {Row(r.value, <<>>) : r \in rows}
=============================================================================
