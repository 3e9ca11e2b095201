--------------------------- MODULE MCSchemaChecks ---------------------------
(* People, companies and cities, for TLC.                                  *)
EXTENDS SchemaChecks, TLC

Key(name) == [op |-> "property", name |-> name]
Out(name) == [op |-> "relationship", name |-> name, direction |-> "out"]
In(name) == [op |-> "relationship", name |-> name, direction |-> "in"]
Sequence(items) == [op |-> "sequence", items |-> items]
Alternative(items) == [op |-> "alternative", items |-> items]
Repeat(of, min, max) == [op |-> "repeat", of |-> of, min |-> min, max |-> max]

Star(of) == Repeat(of, 0, -1)
Plus(of) == Repeat(of, 1, -1)
Optional(of) == Repeat(of, 0, 1)

Knows == Out("KNOWS")
WorksFor == Out("WORKS_FOR")
Name == Key("name")
Age == Key("age")

RECURSIVE PartsOf(_)
PartsOf(p) ==
    {p} \cup (IF p.op = "repeat" THEN PartsOf(p.of)
              ELSE IF p.op \in {"sequence", "alternative"}
                   THEN UNION {PartsOf(p.items[i]) : i \in DOMAIN p.items}
                   ELSE {})

LongPaths ==
    {Sequence(<<WorksFor, Out("LOCATED_IN"), Name>>),
     Sequence(<<Star(Knows), WorksFor, Age>>),
     Sequence(<<Optional(WorksFor), Key("tags")>>),
     Sequence(<<Optional(Knows), Age>>),
     Sequence(<<Plus(Alternative(<<WorksFor, Out("LOCATED_IN")>>)), Name>>),
     Sequence(<<Alternative(<<Knows, WorksFor>>), Age>>),
     Sequence(<<In("WORKS_FOR"), Age>>),
     Sequence(<<Plus(Sequence(<<WorksFor, In("WORKS_FOR")>>)), Knows>>),
     Sequence(<<Alternative(<<Out("OWNS"), In("KNOWS")>>), Name>>),
     Sequence(<<Optional(In("LOCATED_IN")), In("WORKS_FOR")>>),
     Plus(WorksFor), Star(Alternative(<<WorksFor, In("LOCATED_IN")>>)),
     Alternative(<<Name, Age>>)}

SingleSteps == {Name, Age, Key("tags"), WorksFor, In("WORKS_FOR"), Out("OWNS")}

SmallPaths == UNION {PartsOf(p) : p \in LongPaths \cup SingleSteps}

SmallBounds == "INT8" :> <<-128, 127>> @@ "UINT8" :> <<0, 255>> @@ "INT16" :> <<-32768, 32767>>
Integers8To16 == {Scalar(type) : type \in DOMAIN SmallBounds}

Datatype(allowed, range) == [kind |-> "datatype", check |-> [allowed |-> allowed, range |-> range]]
Class(labels) == [kind |-> "class", labels |-> labels]

Datatypes ==
    {Datatype({Scalar("STRING")}, <<>>),
     Datatype(Integers8To16, <<>>),
     Datatype(Integers8To16, <<-128, 127>>),       \* xsd:byte
     Datatype(Integers8To16, <<0, 1000000>>),      \* xsd:nonNegativeInteger
     Datatype(Integers8To16, <<-1000000, -1>>),    \* xsd:negativeInteger
     Datatype({List("STRING")}, <<>>)}             \* s2c:datatype "LIST<STRING>"

Classes == {Class({"Person"}), Class({"Company"}), Class({"Company", "City"})}

Snapshot(person, company, city) ==
    [columns |-> "Person" :> person @@ "Company" :> company @@ "City" :> city,
     endpoints |-> "KNOWS" :> {<<"Person", "Person">>}
                @@ "WORKS_FOR" :> {<<"Person", "Company">>}
                @@ "LOCATED_IN" :> {<<"Company", "City">>}]

Snapshots ==
    {Snapshot("age" :> Scalar("INT16") @@ "tags" :> List("STRING"),
              "age" :> Scalar("INT8") @@ "name" :> Scalar("STRING"),
              "age" :> Scalar("UINT8")),
     [Snapshot("age" :> Scalar("UINT8") @@ "name" :> Scalar("ANY"),
               "age" :> List("INT16") @@ "tags" :> Scalar("STRING"),
               "name" :> Scalar("STRING"))
        EXCEPT !.endpoints["WORKS_FOR"] = {<<"Person", "Company">>, <<"City", "City">>}]}

FocusLabels ==
    {{}, {"Person"}, {"Company"}, {"Person", "Company"}, {"Robot"}, {"Person", "Robot"}}

Asked(paths, constraints, failOnMismatch) ==
    [path : paths, focus : FocusLabels, constraint : constraints, snapshot : Snapshots,
     enforced : BOOLEAN, failOnMismatch : failOnMismatch]

SmallQuestions ==
    Asked({Age, Key("tags"), Name}, Datatypes, {FALSE})
    \cup Asked({Name, WorksFor, In("WORKS_FOR"), Out("OWNS")}, Classes, {FALSE})
    \cup Asked(LongPaths, {Class({"Person"})}, BOOLEAN)

SmallLabelOf ==
    1 :> "Person" @@ 2 :> "Person" @@ 3 :> "Company" @@ 4 :> "City" @@ 5 :> "Robot"

SmallValues ==
    {[type |-> "STRING", n |-> 0], [type |-> "INT16", n |-> -129], [type |-> "INT16", n |-> 128],
     [type |-> "INT8", n |-> -1], [type |-> "UINT8", n |-> 255]}
=============================================================================
