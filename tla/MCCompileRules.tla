---------------------------- MODULE MCCompileRules ----------------------------
(* A small instance of CompileRules for TLC.                               *)
EXTENDS CompileRules

\* Shapes 20 (named by ShapeNames), 21 and 22; paths 30 to 33, where 30 and 31 are
\* of two vocabularies with one local name; components 40 and 41.
MCLocal(t) == IF t = 31 THEN 30 ELSE t
MCShapeNames == [s \in {20} |-> 50]
\* The meanings 2 and 3 have the same hash, when lines do not count.
MCHash(canonical) == 60 + (IF canonical[1] = 3 THEN 2 ELSE canonical[1]) + 5 * canonical[2]

Rule(shape, path, meaning) ==
    [shape |-> shape, blank |-> FALSE, declaredBy |-> shape, path |-> path,
     component |-> 40, meaning |-> meaning, status |-> "compiled", renders |-> TRUE,
     labels |-> {}]

AllCandidates == <<
    \* Three instances of a component on one path.
    [Rule(21, <<<<30>>>>, 1) EXCEPT !.labels = {1}],
    Rule(21, <<<<30>>>>, 2),
    Rule(21, <<<<30>>>>, 3),
    \* The other vocabulary, a parenthesis that a name does not show.
    Rule(21, <<<<31>>>>, 4),
    Rule(21, <<<<30, Bar, 32, Slash, 33>>>>, 5),
    Rule(21, <<<<Opening, 30, Bar, 32, Closing>>, <<33>>>>, 5),
    \* A blank shape, a named property shape, and rules without queries.
    [Rule(22, <<>>, 6) EXCEPT !.blank = TRUE],
    [Rule(21, <<<<32>>>>, 7) EXCEPT !.declaredBy = 20, !.renders = FALSE, !.labels = {2}],
    [Rule(20, <<>>, 8) EXCEPT !.status = "deactivated"]>>

MCCandidates == Range(AllCandidates)

-----------------------------------------------------------------------------
(* Shapes graphs: a list of triples, one to a line.                        *)

S == Iri("S")
T == Iri("T")
P == Iri("p")
B(i) == Blank(i)
Count(t) == Literal("xsd:integer", t)
Text(t) == Literal("xsd:string", t)
True == Literal("xsd:boolean", "true")

OnLines(triples) == [t \in Range(triples) |-> CHOOSE i \in DOMAIN triples : triples[i] = t]

\* A list of two members in two cells.
Cells(a, b, x, y) ==
    <<<<a, "rdf:first", x>>, <<a, "rdf:rest", b>>, <<b, "rdf:first", y>>, <<b, "rdf:rest", Nil>>>>

Property(node, path, p, value) ==
    <<<<S, "sh:property", node>>, <<node, "sh:path", path>>, <<node, p, value>>>>

Sound == {
    \* Blank property shapes on one path, one of them annotated.
    Property(B(2), P, "sh:minCount", Count("1"))
        \o Property(B(1), P, "sh:maxCount", Count("1")) \o <<<<B(1), "s2c:name", Text("n")>>>>,
    \* Members of a list, one not described; a negation and a reference.
    Cells(B(1), B(2), B(4), B(3))
        \o <<<<S, "sh:or", B(1)>>, <<B(3), "sh:class", P>>, <<S, "sh:not", B(5)>>,
             <<S, "sh:not", B(6)>>, <<B(6), "sh:node", T>>>>,
    \* Paths: an inverse and a sequence, and one of them twice alike.
    <<<<S, "sh:property", B(1)>>, <<B(1), "sh:path", B(2)>>, <<B(2), "sh:inversePath", P>>,
      <<S, "sh:property", B(3)>>, <<B(3), "sh:path", B(4)>>, <<B(4), "sh:inversePath", P>>>>
        \o <<<<T, "sh:path", B(5)>>>> \o Cells(B(5), B(6), P, P),
    \* Settings that need others, an implicit class, annotations of an IRI.
    <<<<S, "sh:qualifiedValueShape", B(1)>>, <<S, "sh:qualifiedMinCount", Count("1")>>,
      <<S, "sh:qualifiedValueShape", B(2)>>, <<B(2), "sh:class", P>>,
      <<S, "sh:qualifiedValueShapesDisjoint", True>>, <<S, "rdf:type", Iri("rdfs:Class")>>,
      <<S, "sh:pattern", Text("a")>>, <<S, "sh:pattern", Text("b")>>, <<S, "sh:flags", Text("i")>>>>,
    <<<<S, "sh:closed", True>>, <<S, "sh:ignoredProperties", B(1)>>, <<S, "sh:severity", T>>,
      <<S, "sh:message", Text("a")>>, <<S, "sh:message", Text("b")>>,
      <<P, "s2c:property", Text("n")>>>> \o Cells(B(1), B(2), P, T)}

\* Problems of every kind.
Unsound == {
    Property(B(1), P, "sh:minCount", Count("1")) \o <<<<B(1), "sh:minCount", Count("2")>>>>,
    Property(B(1), P, "sh:minCount", Count("two")),
    Property(B(1), Text("p"), "sh:minCount", Count("1")),
    Property(B(1), B(2), "sh:nodeKind", P) \o Cells(B(2), B(3), P, B(2)),
    Property(B(1), B(2), "sh:class", P) \o <<<<B(2), "sh:alternativePath", B(3)>>,
        <<B(3), "rdf:first", P>>, <<B(3), "rdf:rest", Nil>>>>,
    <<<<S, "sh:and", B(1)>>, <<B(1), "rdf:first", T>>, <<B(1), "rdf:rest", B(1)>>>>,
    <<<<S, "sh:xone", B(1)>>>> \o Cells(B(1), B(2), Text("a"), T),
    <<<<S, "sh:class", P>>, <<S, "sh:qualifiedMinCount", Count("1")>>>>,
    <<<<S, "sh:qualifiedValueShape", B(1)>>, <<S, "sh:not", Text("a")>>>>,
    <<<<S, "sh:class", P>>, <<S, "s2c:unknown", Text("a")>>, <<S, "s2c:property", Text("a")>>>>,
    <<<<B(1), "s2c:label", Text("a")>>, <<P, "s2c:label", Text("")>>>>,
    <<<<S, "sh:targetClass", P>>, <<S, "s2c:targetRelationship", Count("1")>>>>}

Plain_ == OnLines(<<<<S, "sh:class", P>>>>)

\* Blank nodes by their labels, before all other terms; a text has one datatype.
Names == <<"S", "T", "p", "rdf:nil", "rdfs:Class", "1", "2", "two", "a", "b", "i", "n", "p",
           "true", "">>
Place(name, places) == CHOOSE i \in places : Names[i] = name
MCTextRank(t) ==
    CASE t[1] = "blank" -> t[2]
      [] t[1] = "iri" -> 10 + Place(t[2], 1 .. 5)
      [] OTHER -> 10 + Place(t[3], 6 .. Len(Names))

Good == [shapes |-> TRUE, schema |-> "none", ladybug |-> FALSE, fails |-> "none",
         failOnMismatch |-> FALSE, lenient |-> FALSE]

\* Every rule alone and every two of them; edits reverse them.
Given_ ==
    UNION {{<<AllCandidates[i]>>} \cup
           {<<AllCandidates[i], AllCandidates[j]>> : j \in i + 1 .. Len(AllCandidates)} :
           i \in DOMAIN AllCandidates}

MCCompilations ==
    {<<Good, Plain_, s>> : s \in Given_}
    \* --lenient makes a difference where a rule cannot be rendered.
    \cup {<<[Good EXCEPT !.lenient = TRUE], Plain_, s>> :
            s \in {s \in Given_ : \E r \in Range(s) : ~ r.renders}}
    \cup {<<Good, OnLines(g), <<>>>> : g \in Sound \cup Unsound}
    \cup {<<r, Plain_, <<>>>> : r \in
            {[Good EXCEPT !.shapes = FALSE], [Good EXCEPT !.schema = "invalid"]}
            \cup {[Good EXCEPT !.ladybug = TRUE, !.schema = s] : s \in {"none", "valid"}}
            \cup {[Good EXCEPT !.fails = p, !.failOnMismatch = f] : f \in BOOLEAN,
                    p \in {"load", "ontologies", "hierarchy", "lower", "mismatches"}}}
=============================================================================
