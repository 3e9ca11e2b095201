---------------------------- MODULE MCPathMapping ----------------------------
(* Paths over two predicates and one without a local name, for TLC.        *)
EXTENDS PathMapping, TLC

Sets == INSTANCE FiniteSetsExt

Knows == Predicate("knows")
Name == Predicate("name")
Nameless == Predicate("nameless")

SmallLocalName == "knows" :> "knows" @@ "name" :> "name" @@ "nameless" :> ""
SmallUpperSnake == "knows" :> "KNOWS" @@ "name" :> "NAME"

KnowsName == Sequence(<<Knows, Name>>)
KnowsOrName == Alternative(<<Knows, Name>>)
AllKnown == ZeroOrMore(Knows)

\* The paths of shapes.
TopPaths ==
    {Knows, Name, Nameless, InversePath(Knows), InversePath(InversePath(Name)),
     KnowsName, InversePath(KnowsName), Sequence(<<Knows, InversePath(KnowsName)>>),
     InversePath(Sequence(<<InversePath(Name), Knows>>)),
     KnowsOrName, InversePath(KnowsOrName), Sequence(<<KnowsOrName, Name>>),
     AllKnown, InversePath(AllKnown), OneOrMore(Knows), ZeroOrOne(Name), OneOrMore(KnowsName),
     Sequence(<<OneOrMore(Knows), Name>>), Alternative(<<AllKnown, Name>>),
     Alternative(<<Sequence(<<Knows, Knows>>), InversePath(Name)>>)}

SmallPaths ==
    TopPaths \cup {InversePath(Name), Sequence(<<Knows, Knows>>), Sequence(<<InversePath(Name), Knows>>)}

SmallDepth ==
    LET depth[p \in SmallPaths] ==
            CASE p.op = "predicate" -> 0
              [] p.op \in {"sequence", "alternative"} ->
                    1 + Sets!Max({depth[p.items[i]] : i \in DOMAIN p.items})
              [] OTHER -> 1 + depth[p.of]
    IN  depth

Annotated(property, relationship, direction) ==
    [property |-> property, relationship |-> relationship, direction |-> direction]

IriAnnotations ==
    {[iri \in DOMAIN SmallLocalName |->
        CASE iri = "knows" -> knows [] iri = "name" -> name [] OTHER -> NoAnnotations] :
            knows \in {NoAnnotations, Annotated("", "NAME", "in")},
            name \in {NoAnnotations, Annotated("knows", "", "")}}

ShapeAnnotations(p) ==
    IF p \in {Knows, Name, InversePath(Knows)}
    THEN {NoAnnotations, Annotated("name", "", ""), Annotated("", "", "in"),
          Annotated("name", "", "in")}
    ELSE {NoAnnotations}

Declares(person, company, types) ==
    [columns |-> "Person" :> [key \in person |-> "STRING"]
                    @@ "Company" :> [key \in company |-> "STRING"],
     endpoints |-> [type \in types |-> {<<"Person", "Company">>}]]

Snapshots ==
    {[columns |-> <<>>, endpoints |-> <<>>],
     Declares({"name"}, {}, {"KNOWS"}),
     Declares({"knows"}, {"name"}, {"KNOWS"}),
     Declares({"knows", "name"}, {"name"}, {"NAME"})}

SmallQuestions ==
    UNION {[shape : [path : {p}, annotations : ShapeAnnotations(p), constraint : {"datatype", "class"},
                     focus : {{}, {"Person"}}],
            annotations : IriAnnotations, snapshot : Snapshots, strict : BOOLEAN] : p \in TopPaths}
=============================================================================
