------------------------- MODULE SchemaChecks_proofs -------------------------
(***************************************************************************)
(* What the schema decides, for every snapshot, constraint and database.   *)
(* The inductive invariant says that the database keeps to an enforced     *)
(* schema and that the status is the one that the snapshot gives.          *)
(***************************************************************************)
EXTENDS SchemaChecks, SequenceTheorems, FiniteSetTheorems, NaturalsInduction,
        WellFoundedInduction, TLAPS

\* Every relationship that is written joins declared endpoints of its type.
RelsConform == enforced => \A rel \in rels : Allows(rel)

\* Every value that is written fits its column.
PropsConform == enforced => \A prop \in props : AllowsValue(prop)

Written ==
    /\ rels \subseteq Nodes \X Types \X Nodes
    /\ props \subseteq Nodes \X Keys \X Values

StatusIsOfSchema == status \in {"none", SchemaStatus}

IInv == question \in Questions /\ Written /\ RelsConform /\ PropsConform /\ StatusIsOfSchema

-----------------------------------------------------------------------------

LEMMA InitIInv == Init => IInv
BY DEF Init, IInv, Written, RelsConform, PropsConform, StatusIsOfSchema

\* The status of the schema depends on the question only.
LEMMA SchemaStatusStays == ASSUME UNCHANGED question PROVE SchemaStatus' = SchemaStatus
BY DEF SchemaStatus, DatatypeStatus, ClassStatus, ReachedLabels, FarEnds, Decidable, HasColumn,
       DeclaredLabels, ColumnStatus, ScalarStatus, ExpectsList, WithinRange, columns, endpoints,
       enforced, focus, constraint

LEMMA AllowsStays == ASSUME UNCHANGED question, NEW rel PROVE Allows(rel)' = Allows(rel)
BY DEF Allows, endpoints, enforced

LEMMA AllowsValueStays ==
    ASSUME UNCHANGED question, NEW prop PROVE AllowsValue(prop)' = AllowsValue(prop)
BY DEF AllowsValue, HasColumn, DeclaredLabels, Fits, columns, enforced

\* Every step keeps the database to the schema, and the status that of the schema.
LEMMA NextIInv == IInv /\ [Next]_vars => IInv'
<1> SUFFICES ASSUME IInv, [Next]_vars PROVE IInv'
    OBVIOUS
<1> USE DEF IInv
<1>q. UNCHANGED question
    BY DEF Next, Compile, WriteRelationship, WriteProperty, vars
<1>e. enforced' = enforced
    BY <1>q DEF enforced
<1>1. CASE Compile
    <2>1. UNCHANGED <<rels, props>>
        BY <1>1 DEF Compile
    <2>2. status' = SchemaStatus
        BY <1>1 DEF Compile
    <2>3. Written' /\ RelsConform' /\ PropsConform'
        BY <1>q, <1>e, <2>1, AllowsStays, AllowsValueStays DEF Written, RelsConform, PropsConform
    <2>4. StatusIsOfSchema'
        BY <1>q, <2>2, SchemaStatusStays DEF StatusIsOfSchema
    <2> QED
        BY <1>q, <2>3, <2>4
<1>2. CASE WriteRelationship
    <2>1. PICK rel \in Nodes \X Types \X Nodes : Allows(rel) /\ rels' = rels \cup {rel}
        BY <1>2 DEF WriteRelationship
    <2>2. UNCHANGED <<props, status>>
        BY <1>2 DEF WriteRelationship
    <2>3. Written'
        BY <2>1, <2>2 DEF Written
    <2>4. RelsConform'
        BY <1>q, <1>e, <2>1, AllowsStays DEF RelsConform
    <2>5. PropsConform'
        BY <1>q, <1>e, <2>2, AllowsValueStays DEF PropsConform
    <2>6. StatusIsOfSchema'
        BY <1>q, <2>2, SchemaStatusStays DEF StatusIsOfSchema
    <2> QED
        BY <1>q, <2>3, <2>4, <2>5, <2>6
<1>3. CASE WriteProperty
    <2>1. PICK prop \in Nodes \X Keys \X Values : AllowsValue(prop) /\ props' = props \cup {prop}
        BY <1>3 DEF WriteProperty
    <2>2. UNCHANGED <<rels, status>>
        BY <1>3 DEF WriteProperty
    <2>3. Written'
        BY <2>1, <2>2 DEF Written
    <2>4. PropsConform'
        BY <1>q, <1>e, <2>1, AllowsValueStays DEF PropsConform
    <2>5. RelsConform'
        BY <1>q, <1>e, <2>2, AllowsStays DEF RelsConform
    <2>6. StatusIsOfSchema'
        BY <1>q, <2>2, SchemaStatusStays DEF StatusIsOfSchema
    <2> QED
        BY <1>q, <2>3, <2>4, <2>5, <2>6
<1>4. CASE UNCHANGED vars
    <2>1. UNCHANGED <<rels, props, status>>
        BY <1>4 DEF vars
    <2>2. Written' /\ RelsConform' /\ PropsConform'
        BY <1>q, <1>e, <2>1, AllowsStays, AllowsValueStays DEF Written, RelsConform, PropsConform
    <2>3. StatusIsOfSchema'
        BY <1>q, <2>1, SchemaStatusStays DEF StatusIsOfSchema
    <2> QED
        BY <1>q, <2>2, <2>3
<1> QED
    BY <1>1, <1>2, <1>3, <1>4 DEF Next

\* The database keeps to an enforced schema, and a status is the schema's.
THEOREM Invariance == Spec => []IInv
BY InitIInv, NextIInv, PTL DEF Spec

-----------------------------------------------------------------------------
(* Datatypes.                                                              *)

\* A scalar value of a property: its type, and that of its column, when the column
\* decides the check.
LEMMA ColumnOfValue ==
    ASSUME IInv, enforced,
           NEW node, NEW value \in ValuesOf(question.path, node), question.path.op = "property"
    PROVE  /\ HasColumn(LabelOf[node], question.path.name)
           /\ Fits(value, columns[LabelOf[node]][question.path.name])
           /\ value \in Values
           /\ LET column == columns[LabelOf[node]][question.path.name]
              IN  column \in {Scalar(column.type), List(column.type)}
<1>1. PICK t \in props : t[1] = node /\ t[2] = question.path.name /\ value = t[3]
    BY DEF ValuesOf
<1>2. t \in Nodes \X Keys \X Values /\ AllowsValue(t)
    BY <1>1 DEF IInv, Written, PropsConform
<1>3. HasColumn(LabelOf[node], question.path.name)
    BY <1>1, <1>2 DEF AllowsValue
<1>4. Fits(value, columns[LabelOf[node]][question.path.name])
    BY <1>1, <1>2 DEF AllowsValue
<1>5. value \in Values
    BY <1>1, <1>2
<1>6. IsSnapshot(question.snapshot)
    BY QuestionsAssumption DEF IInv
<1> QED
    BY <1>3, <1>4, <1>5, <1>6 DEF IsSnapshot, HasColumn, DeclaredLabels, columns

\* A list column is checked by its elements, unless lists are expected.
LEMMA CheckedAsScalar ==
    ASSUME NEW check, NEW column, column \in {Scalar(column.type), List(column.type)},
           ~ (column.list /\ ExpectsList(check))
    PROVE  ColumnStatus(check, column) = ScalarStatus(check, Scalar(column.type))
<1>1. CASE column = Scalar(column.type)
    <2>1. ~ Scalar(column.type).list
        BY DEF Scalar
    <2>2. ~ column.list
        BY <1>1, <2>1
    <2> QED
        BY <1>1, <2>2 DEF ColumnStatus
<1>2. CASE column = List(column.type)
    <2>1. List(column.type).list
        BY DEF List
    <2>2. column.list
        BY <1>2, <2>1
    <2> QED
        BY <2>2 DEF ColumnStatus
<1> QED
    BY <1>1, <1>2

\* What guaranteed means of the column of a value.
LEMMA GuaranteedByColumn ==
    ASSUME NEW check, NEW column, ColumnStatus(check, column) = "guaranteed", ~ ExpectsList(check),
           column \in {Scalar(column.type), List(column.type)}
    PROVE  /\ column.type # "ANY"
           /\ Scalar(column.type) \in check.allowed
           /\ column.type \in DOMAIN IntegerBounds =>
                WithinRange(IntegerBounds[column.type], check.range)
<1>1. ScalarStatus(check, Scalar(column.type)) = "guaranteed"
    BY CheckedAsScalar
<1>2. Scalar(column.type) # Scalar("ANY") /\ Scalar(column.type) \in check.allowed
    BY <1>1 DEF ScalarStatus
<1>3. Scalar(column.type).type = column.type /\ ~ Scalar(column.type).list
    BY DEF Scalar
<1>4. column.type \in DOMAIN IntegerBounds =>
        WithinRange(IntegerBounds[column.type], check.range)
    BY <1>1, <1>2, <1>3 DEF ScalarStatus
<1> QED
    BY <1>2, <1>4

LEMMA ContradictedByColumn ==
    ASSUME NEW check, NEW column, ColumnStatus(check, column) = "contradicted",
           column \in {Scalar(column.type), List(column.type)},
           \/ \A type \in check.allowed : type.list
           \/ \A type \in check.allowed : ~ type.list,
           NEW value, Fits(value, column)
    PROVE  Scalar(value.type) \notin check.allowed
<1>1. CASE column.list /\ ExpectsList(check)
    <2>1. ~ Scalar(value.type).list
        BY DEF Scalar
    <2> QED
        BY <1>1, <2>1 DEF ExpectsList
<1>2. CASE ~ (column.list /\ ExpectsList(check))
    <2>1. ScalarStatus(check, Scalar(column.type)) = "contradicted"
        BY <1>2, CheckedAsScalar
    <2>2. Scalar(column.type) # Scalar("ANY") /\ Scalar(column.type) \notin check.allowed
        BY <2>1 DEF ScalarStatus
    <2> QED
        BY <2>2 DEF Fits
<1> QED
    BY <1>1, <1>2

\* The schema decides a datatype from the columns of all labels of the focus.
LEMMA DatatypeDecided ==
    ASSUME NEW path, NEW check, DatatypeStatus(path, check) # "check",
           NEW label \in focus, HasColumn(label, path.name)
    PROVE  /\ path.op = "property" /\ enforced /\ focus # {}
           /\ DatatypeStatus(path, check) = ColumnStatus(check, columns[label][path.name])
<1> DEFINE declaring == {l \in focus : HasColumn(l, path.name)}
<1> DEFINE is(l, result) == ColumnStatus(check, columns[l][path.name]) = result
<1>1. label \in declaring
    OBVIOUS
<1>2. path.op = "property" /\ Decidable /\ focus \subseteq DeclaredLabels
    BY DEF DatatypeStatus
<1>3. CASE declaring # {} /\ \A l \in declaring : is(l, "contradicted")
    <2>1. DatatypeStatus(path, check) = "contradicted"
        BY <1>2, <1>3 DEF DatatypeStatus
    <2> QED
        BY <1>1, <1>2, <1>3, <2>1 DEF Decidable
<1>4. CASE ~ (declaring # {} /\ \A l \in declaring : is(l, "contradicted"))
    <2>1. DatatypeStatus(path, check) = "guaranteed" /\ \A l \in declaring : is(l, "guaranteed")
        BY <1>2, <1>4 DEF DatatypeStatus
    <2> QED
        BY <1>1, <1>2, <2>1 DEF Decidable
<1> QED
    BY <1>3, <1>4

-----------------------------------------------------------------------------
(* Classes.                                                                *)

\* The node at the other end of a relationship has one of the reached labels.
LEMMA ReachedByNode ==
    ASSUME IInv, enforced, question.path.op = "relationship",
           NEW node, LabelOf[node] \in focus, NEW value \in ValuesOf(question.path, node)
    PROVE  LabelOf[value] \in ReachedLabels(question.path)
<1> DEFINE path == question.path
<1>1. IsSnapshot(question.snapshot)
    BY QuestionsAssumption DEF IInv
<1>2. ASSUME NEW t \in rels, t[2] = path.name
      PROVE  /\ <<LabelOf[t[1]], LabelOf[t[3]]>> \in endpoints[path.name]
             /\ LabelOf[t[1]] \in DeclaredLabels /\ LabelOf[t[3]] \in DeclaredLabels
    <2>1. Allows(t)
        BY DEF IInv, RelsConform
    <2>2. path.name \in DOMAIN endpoints
          /\ <<LabelOf[t[1]], LabelOf[t[3]]>> \in endpoints[path.name]
        BY <1>2, <2>1 DEF Allows
    <2> QED
        BY <1>1, <2>2 DEF IsSnapshot, DeclaredLabels, columns, endpoints
<1>3. CASE path.direction = "out"
    <2>1. PICK t \in rels : t[1] = node /\ t[2] = path.name /\ value = t[3]
        BY <1>3 DEF ValuesOf
    <2>2. <<LabelOf[node], LabelOf[value]>> \in endpoints[path.name]
          /\ LabelOf[value] \in DeclaredLabels
        BY <1>2, <2>1
    <2> QED
        BY <1>3, <2>2 DEF ReachedLabels, FarEnds
<1>4. CASE path.direction = "in"
    <2>1. PICK t \in rels : t[3] = node /\ t[2] = path.name /\ value = t[1]
        BY <1>4 DEF ValuesOf
    <2>2. <<LabelOf[value], LabelOf[node]>> \in endpoints[path.name]
          /\ LabelOf[value] \in DeclaredLabels
        BY <1>2, <2>1
    <2> QED
        BY <1>4, <2>2 DEF ReachedLabels, FarEnds
<1>5. CASE path.direction \notin {"out", "in"}
    BY <1>5 DEF ValuesOf
<1> QED
    BY <1>3, <1>4, <1>5

-----------------------------------------------------------------------------

LEMMA GuaranteeHolds == IInv => GuaranteedNeverViolated
<1> SUFFICES ASSUME IInv, status = "guaranteed",
                    constraint.kind = "datatype" => ~ ExpectsList(constraint.check),
                    NEW node \in FocusNodes, NEW value \in ValuesOf(question.path, node)
             PROVE  Satisfies(value)
    BY DEF GuaranteedNeverViolated
<1>1. SchemaStatus = "guaranteed"
    BY DEF IInv, StatusIsOfSchema
<1>2. CASE constraint.kind = "datatype"
    <2> DEFINE check == constraint.check
    <2> DEFINE column == columns[LabelOf[node]][question.path.name]
    <2>1. DatatypeStatus(question.path, check) = "guaranteed"
        BY <1>1, <1>2 DEF SchemaStatus
    <2>2. question.path.op = "property" /\ enforced /\ focus # {}
        BY <2>1 DEF DatatypeStatus, Decidable
    <2>3. LabelOf[node] \in focus
        BY <2>2 DEF FocusNodes
    <2>4. /\ HasColumn(LabelOf[node], question.path.name)
          /\ Fits(value, column)
          /\ value \in Values
          /\ column \in {Scalar(column.type), List(column.type)}
        BY <2>2, ColumnOfValue
    <2>5. ColumnStatus(check, column) = "guaranteed"
        BY <2>1, <2>3, <2>4, DatatypeDecided
    <2>6. /\ column.type # "ANY"
          /\ Scalar(column.type) \in check.allowed
          /\ column.type \in DOMAIN IntegerBounds =>
                WithinRange(IntegerBounds[column.type], check.range)
        BY <1>2, <2>4, <2>5, GuaranteedByColumn
    <2>7. value.type = column.type
        BY <2>4, <2>6 DEF Fits
    <2>8. ASSUME value.type \in DOMAIN IntegerBounds, check.range # <<>>
          PROVE  check.range[1] <= value.n /\ value.n <= check.range[2]
        <3>1. IntegerBounds[value.type] \in Bounds /\ value.n \in Int
            BY <2>4, <2>8, IntegersAssumption
        <3>2. check.range \in Bounds
            BY <1>2, <2>8, QuestionsAssumption DEF IInv, IsCheck, constraint
        <3>3. /\ IntegerBounds[value.type][1] <= value.n
              /\ value.n <= IntegerBounds[value.type][2]
            BY <2>4, <2>6, <2>7, <2>8 DEF Fits
        <3>4. /\ check.range[1] <= IntegerBounds[value.type][1]
              /\ IntegerBounds[value.type][2] <= check.range[2]
            BY <2>6, <2>7, <2>8 DEF WithinRange
        <3> QED
            BY <3>1, <3>2, <3>3, <3>4 DEF Bounds
    <2> QED
        BY <1>2, <2>6, <2>7, <2>8 DEF Satisfies
<1>3. CASE constraint.kind = "class"
    <2>1. ClassStatus(question.path, constraint.labels) = "guaranteed"
        BY <1>1, <1>3 DEF SchemaStatus
    <2>2. /\ question.path.op = "relationship" /\ enforced /\ focus # {}
          /\ ReachedLabels(question.path) \subseteq constraint.labels
        BY <2>1 DEF ClassStatus, Decidable
    <2>3. LabelOf[value] \in ReachedLabels(question.path)
        BY <2>2, ReachedByNode DEF FocusNodes
    <2> QED
        BY <1>3, <2>2, <2>3 DEF Satisfies
<1> QED
    BY <1>2, <1>3, QuestionsAssumption DEF IInv, constraint

LEMMA ContradictionHolds == IInv => ContradictedNeverHolds
<1> SUFFICES ASSUME IInv, status = "contradicted",
                    NEW node \in FocusNodes, NEW value \in ValuesOf(question.path, node)
             PROVE  ~ Satisfies(value)
    BY DEF ContradictedNeverHolds
<1>1. SchemaStatus = "contradicted"
    BY DEF IInv, StatusIsOfSchema
<1>2. CASE constraint.kind = "datatype"
    <2> DEFINE check == constraint.check
    <2> DEFINE column == columns[LabelOf[node]][question.path.name]
    <2>1. DatatypeStatus(question.path, check) = "contradicted"
        BY <1>1, <1>2 DEF SchemaStatus
    <2>2. question.path.op = "property" /\ enforced /\ focus # {}
        BY <2>1 DEF DatatypeStatus, Decidable
    <2>3. LabelOf[node] \in focus
        BY <2>2 DEF FocusNodes
    <2>4. /\ HasColumn(LabelOf[node], question.path.name)
          /\ Fits(value, column)
          /\ column \in {Scalar(column.type), List(column.type)}
        BY <2>2, ColumnOfValue
    <2>5. ColumnStatus(check, column) = "contradicted"
        BY <2>1, <2>3, <2>4, DatatypeDecided
    <2>6. IsCheck(check)
        BY <1>2, QuestionsAssumption DEF IInv, constraint
    <2>7. Scalar(value.type) \notin check.allowed
        BY <2>4, <2>5, <2>6, ContradictedByColumn DEF IsCheck
    <2> QED
        BY <1>2, <2>7 DEF Satisfies
<1>3. CASE constraint.kind = "class"
    <2>1. ClassStatus(question.path, constraint.labels) = "contradicted"
        BY <1>1, <1>3 DEF SchemaStatus
    <2>2. /\ question.path.op = "relationship" /\ enforced /\ focus # {}
          /\ ReachedLabels(question.path) \cap constraint.labels = {}
        BY <2>1 DEF ClassStatus, Decidable
    <2>3. LabelOf[value] \in ReachedLabels(question.path)
        BY <2>2, ReachedByNode DEF FocusNodes
    <2> QED
        BY <1>3, <2>2, <2>3 DEF Satisfies
<1> QED
    BY <1>2, <1>3, QuestionsAssumption DEF IInv, constraint

\* A value of a focus satisfies every constraint that an enforced schema was found
\* to guarantee, whatever is written.
THEOREM GuaranteeIsSound == Spec => []GuaranteedNeverViolated
BY Invariance, GuaranteeHolds, PTL

\* No value satisfies a constraint that an enforced schema was found to contradict.
THEOREM ContradictionIsSound == Spec => []ContradictedNeverHolds
BY Invariance, ContradictionHolds, PTL

-----------------------------------------------------------------------------
(* Recursion over natural numbers.                                         *)

LEMMA LeastNat ==
    ASSUME NEW T, T \subseteq Nat, T # {}
    PROVE  \E m \in T : \A k \in T : m <= k
<1> DEFINE R == {ss \in Nat \X Nat : ss[1] < ss[2]}
<1>1. IsWellFoundedOn(R, Nat)
    BY NatLessThanWellFounded DEF OpToRel
<1> HIDE DEF R
<1>2. PICK m \in T : \A k \in T : ~ (<<k, m>> \in R)
    BY <1>1, WFMin
<1>3. \A k \in T : ~ (k < m)
    BY <1>2 DEF R
<1> QED
    BY <1>3

\* Induction up to n, over a set.
LEMMA UpTo ==
    ASSUME NEW n \in Nat, NEW T, 0 \in T, \A i \in 1 .. n : i - 1 \in T => i \in T
    PROVE  \A i \in 0 .. n : i \in T
<1> DEFINE Left == {i \in Nat : i <= n /\ i \notin T}
<1> SUFFICES ASSUME Left # {} PROVE FALSE
    OBVIOUS
<1>1. PICK m \in Left : \A k \in Left : m <= k
    BY LeastNat
<1>2. m \in 1 .. n /\ m - 1 \in Nat /\ m - 1 <= n
    BY <1>1
<1>3. m - 1 \in T
    BY <1>1, <1>2
<1> QED
    BY <1>1, <1>2, <1>3

\* f is what the steps h make of v, one after the other.
Iteration(f, n, V, v, h) ==
    /\ f \in [0 .. n -> V]
    /\ f[0] = v
    /\ \A i \in 1 .. n : f[i] = h[i][f[i - 1]]

LEMMA Iterates ==
    ASSUME NEW n \in Nat, NEW V, NEW v \in V, NEW h, \A i \in 1 .. n : \A w \in V : h[i][w] \in V
    PROVE  \E f : Iteration(f, n, V, v, h)
<1> DEFINE T == {m \in Nat : m <= n /\ \E f : Iteration(f, m, V, v, h)}
<1>1. 0 \in T
    <2>1. Iteration([i \in 0 .. 0 |-> v], 0, V, v, h)
        BY DEF Iteration
    <2> QED
        BY <2>1
<1>2. ASSUME NEW i \in 1 .. n, i - 1 \in T PROVE i \in T
    <2>1. PICK f : Iteration(f, i - 1, V, v, h)
        BY <1>2
    <2> DEFINE g == [k \in 0 .. i |-> IF k = i THEN h[i][f[i - 1]] ELSE f[k]]
    <2>2. f[i - 1] \in V /\ \A k \in 0 .. i - 1 : f[k] \in V
        BY <2>1 DEF Iteration
    <2>3. h[i][f[i - 1]] \in V
        BY <2>2
    <2>4. g \in [0 .. i -> V]
        BY <2>2, <2>3
    <2>5. g[0] = v
        BY <2>1 DEF Iteration
    <2>6. \A k \in 1 .. i : g[k] = h[k][g[k - 1]]
        BY <2>1 DEF Iteration
    <2>7. Iteration(g, i, V, v, h)
        BY <2>4, <2>5, <2>6 DEF Iteration
    <2> QED
        BY <2>7
<1> HIDE DEF T
<1>3. n \in T
    BY <1>1, <1>2, UpTo
<1> QED
    BY <1>3 DEF T

-----------------------------------------------------------------------------
(* Following paths, through labels or through nodes.                       *)

FollowedIn(U) == [reached : SUBSET U, marked : SUBSET Seq(Nat)]

\* below follows every path from everywhere in U, and stays in U.
Follows(below, U) == \A p \in Paths : \A X \in SUBSET U : below[p][X] \in FollowedIn(U)

LEMMA FollowedFields ==
    ASSUME NEW U, NEW reached \in SUBSET U, NEW marked \in SUBSET Seq(Nat)
    PROVE  /\ Followed(reached, marked) \in FollowedIn(U)
           /\ Followed(reached, marked).reached = reached
           /\ Followed(reached, marked).marked = marked
BY DEF Followed, FollowedIn

LEMMA UnderPositions ==
    ASSUME NEW i \in Nat, NEW positions \in SUBSET Seq(Nat)
    PROVE  Under(i, positions) \in SUBSET Seq(Nat)
<1>1. ASSUME NEW at \in positions PROVE <<i>> \o at \in Seq(Nat)
    <2>1. at \in Seq(Nat) /\ <<i>> \in Seq(Nat)
        OBVIOUS
    <2> QED
        BY <2>1, ConcatProperties
<1> QED
    BY <1>1 DEF Under

\* The position of a step tells the part that it is in.
LEMMA PositionsDiffer ==
    ASSUME NEW i \in Nat, NEW j \in Nat, NEW A \in SUBSET Seq(Nat), NEW B \in SUBSET Seq(Nat),
           NEW at \in Under(i, A), at \in Under(j, B)
    PROVE  i = j /\ \E a \in A \cap B : at = <<i>> \o a
<1>1. PICK a \in A : at = <<i>> \o a
    BY DEF Under
<1>2. PICK b \in B : at = <<j>> \o b
    BY DEF Under
<1>3. a \in Seq(Nat) /\ b \in Seq(Nat)
    OBVIOUS
<1>4. at[1] = i /\ at[1] = j
    BY <1>1, <1>2, <1>3
<1>5. <<i>> \o a = <<i>> \o b
    BY <1>1, <1>2, <1>4
<1>6. <<i>> \in Seq(Nat)
    OBVIOUS
<1>7. a = b
    BY <1>3, <1>5, <1>6, ConcatSimplifications
<1> QED
    BY <1>1, <1>4, <1>7

\* The items of a sequence lead along these sets.
Leads(along, below, items, from, U) ==
    /\ along[0] = from
    /\ \A i \in 0 .. Len(items) : along[i] \in SUBSET U
    /\ \A i \in 1 .. Len(items) : along[i] = below[items[i]][along[i - 1]].reached
    /\ InSequence(below, items, from) =
          Followed(along[Len(items)],
                   UNION {Under(i, below[items[i]][along[i - 1]].marked) : i \in 1 .. Len(items)})

LEMMA SequenceLeads ==
    ASSUME NEW U, NEW below, Follows(below, U), NEW items \in Seq(Paths), NEW from \in SUBSET U
    PROVE  \E along : Leads(along, below, items, from, U)
<1> DEFINE n == Len(items)
           h == [i \in 1 .. n |-> [X \in SUBSET U |-> below[items[i]][X].reached]]
           Rec(f) == f = [i \in 0 .. n |->
                             IF i = 0 THEN from ELSE below[items[i]][f[i - 1]].reached]
           along == CHOOSE f : Rec(f)
<1>1. n \in Nat /\ DOMAIN items = 1 .. n /\ \A i \in 1 .. n : items[i] \in Paths
    OBVIOUS
<1>2. \A i \in 1 .. n : \A X \in SUBSET U :
         h[i][X] = below[items[i]][X].reached /\ h[i][X] \in SUBSET U
    BY <1>1 DEF Follows, FollowedIn
<1>3. PICK f : Iteration(f, n, SUBSET U, from, h)
    <2> HIDE DEF h, n
    <2> QED
        BY <1>1, <1>2, Iterates
<1>4. Rec(f)
    <2>1. f = [i \in 0 .. n |-> f[i]]
        BY <1>3 DEF Iteration
    <2>2. f[0] = from
        BY <1>3 DEF Iteration
    <2>3. \A i \in 0 .. n : f[i] = IF i = 0 THEN from ELSE below[items[i]][f[i - 1]].reached
        <3> TAKE i \in 0 .. n
        <3>1. CASE i = 0
            BY <2>2, <3>1
        <3>2. CASE i # 0
            <4>1. i \in 1 .. n /\ i - 1 \in 0 .. n
                BY <1>1, <3>2
            <4>2. f[i - 1] \in SUBSET U /\ f[i] = h[i][f[i - 1]]
                BY <1>3, <4>1 DEF Iteration
            <4> HIDE DEF h
            <4> QED
                BY <1>2, <3>2, <4>1, <4>2
        <3> QED
            BY <3>1, <3>2
    <2> HIDE DEF n, h
    <2> QED
        BY <2>1, <2>3
<1>5. Rec(along)
    BY <1>4
<1>6. InSequence(below, items, from) =
        Followed(along[n],
                 UNION {Under(i, below[items[i]][along[i - 1]].marked) : i \in DOMAIN items})
    BY DEF InSequence
<1> HIDE DEF along
<1>7. along[0] = from
    BY <1>1, <1>5
<1>8. \A i \in 1 .. n : along[i] = below[items[i]][along[i - 1]].reached
    <2> TAKE i \in 1 .. n
    <2>1. i \in 0 .. n /\ i # 0
        BY <1>1
    <2> HIDE DEF n, h
    <2> QED
        BY <1>5, <2>1
<1> DEFINE T == {i \in Nat : along[i] \in SUBSET U}
<1>9. 0 \in T
    BY <1>7
<1>10. ASSUME NEW i \in 1 .. n, i - 1 \in T PROVE i \in T
    BY <1>1, <1>8, <1>10 DEF Follows, FollowedIn
<1>11. \A i \in 0 .. n : i \in T
    <2> HIDE DEF T, n
    <2> QED
        BY <1>1, <1>9, <1>10, UpTo
<1>12. \A i \in 0 .. n : along[i] \in SUBSET U
    BY <1>11
<1>13. Leads(along, below, items, from, U)
    <2> HIDE DEF T, h
    <2> QED
        BY <1>1, <1>6, <1>7, <1>8, <1>12 DEF Leads
<1> QED
    BY <1>13

\* What is marked in the i-th of several parts is marked.
LEMMA MarkedParts ==
    ASSUME NEW n \in Nat, NEW marked, \A i \in 1 .. n : marked[i] \in SUBSET Seq(Nat)
    PROVE  UNION {Under(i, marked[i]) : i \in 1 .. n} \in SUBSET Seq(Nat)
BY UnderPositions

LEMMA SequenceFollowed ==
    ASSUME NEW U, NEW below, Follows(below, U), NEW items \in Seq(Paths), NEW from \in SUBSET U
    PROVE  InSequence(below, items, from) \in FollowedIn(U)
<1>1. PICK along : Leads(along, below, items, from, U)
    BY SequenceLeads
<1> DEFINE n == Len(items)
           marked == [i \in 1 .. n |-> below[items[i]][along[i - 1]].marked]
<1>2. n \in Nat /\ \A i \in 1 .. n : items[i] \in Paths
    OBVIOUS
<1>3. along[n] \in SUBSET U /\ \A i \in 1 .. n : along[i - 1] \in SUBSET U
    BY <1>1, <1>2 DEF Leads
<1>4. \A i \in 1 .. n : marked[i] \in SUBSET Seq(Nat)
    BY <1>2, <1>3 DEF Follows, FollowedIn
<1>5. UNION {Under(i, marked[i]) : i \in 1 .. n} \in SUBSET Seq(Nat)
    <2> HIDE DEF marked, n
    <2> QED
        BY <1>2, <1>4, MarkedParts
<1>6. InSequence(below, items, from) =
        Followed(along[n], UNION {Under(i, marked[i]) : i \in 1 .. n})
    BY <1>1 DEF Leads
<1> HIDE DEF marked, n
<1> QED
    BY <1>3, <1>5, <1>6, FollowedFields

LEMMA AlternativeFollowed ==
    ASSUME NEW U, NEW below, Follows(below, U), NEW items \in Seq(Paths), NEW from \in SUBSET U
    PROVE  /\ InAlternative(below, items, from) \in FollowedIn(U)
           /\ InAlternative(below, items, from).reached =
                 UNION {below[items[i]][from].reached : i \in 1 .. Len(items)}
           /\ InAlternative(below, items, from).marked =
                 UNION {Under(i, below[items[i]][from].marked) : i \in 1 .. Len(items)}
<1> DEFINE n == Len(items)
           marked == [i \in 1 .. n |-> below[items[i]][from].marked]
           all == UNION {below[items[i]][from].reached : i \in 1 .. n}
<1>2. n \in Nat /\ DOMAIN items = 1 .. n /\ \A i \in 1 .. n : items[i] \in Paths
    OBVIOUS
<1>3. all \in SUBSET U
    BY <1>2 DEF Follows, FollowedIn
<1>4. \A i \in 1 .. n : marked[i] \in SUBSET Seq(Nat)
    BY <1>2 DEF Follows, FollowedIn
<1>5. UNION {Under(i, marked[i]) : i \in 1 .. n} \in SUBSET Seq(Nat)
    <2> HIDE DEF marked, n
    <2> QED
        BY <1>2, <1>4, MarkedParts
<1>6. UNION {Under(i, marked[i]) : i \in 1 .. n}
        = UNION {Under(i, below[items[i]][from].marked) : i \in 1 .. n}
    OBVIOUS
<1>7. InAlternative(below, items, from) =
        Followed(all, UNION {Under(i, below[items[i]][from].marked) : i \in 1 .. n})
    BY <1>2 DEF InAlternative
<1> HIDE DEF marked, n, all
<1>8. Followed(all, UNION {Under(i, marked[i]) : i \in 1 .. n}) \in FollowedIn(U)
      /\ Followed(all, UNION {Under(i, marked[i]) : i \in 1 .. n}).reached = all
      /\ Followed(all, UNION {Under(i, marked[i]) : i \in 1 .. n}).marked =
            UNION {Under(i, marked[i]) : i \in 1 .. n}
    BY <1>3, <1>5, FollowedFields
<1> QED
    BY <1>6, <1>7, <1>8 DEF all, n

-----------------------------------------------------------------------------
(* Rounds of a repetition.                                                 *)

LEMMA LabelsFinite == ASSUME question \in Questions PROVE IsFiniteSet(Labels)
<1>1. IsFiniteSet(focus) /\ IsFiniteSet(DeclaredLabels)
    BY QuestionsAssumption DEF focus, DeclaredLabels, columns, IsSnapshot
<1> QED
    BY <1>1, FS_Union DEF Labels

Hops(hop, U) == \A X \in SUBSET U : hop[X] \in FollowedIn(U)

\* What a round has of the one before.
RoundFrom(was, hop) ==
    LET next == IF was.frontier = {} THEN {} ELSE Frontier(was.reached, hop[was.frontier].reached)
    IN  [reached |-> was.reached \cup next, frontier |-> next]

Round == [reached : SUBSET Labels, frontier : SUBSET Labels]

LEMMA RoundFromRound ==
    ASSUME NEW hop, Hops(hop, Labels), NEW was \in Round
    PROVE  RoundFrom(was, hop) \in Round
<1> DEFINE next == IF was.frontier = {} THEN {}
                   ELSE Frontier(was.reached, hop[was.frontier].reached)
<1>1. was.reached \in SUBSET Labels /\ was.frontier \in SUBSET Labels
    BY DEF Round
<1>2. next \in SUBSET Labels
    BY <1>1 DEF Hops, FollowedIn, Frontier
<1>3. RoundFrom(was, hop) = [reached |-> was.reached \cup next, frontier |-> next]
    BY DEF RoundFrom
<1> HIDE DEF next
<1> QED
    BY <1>1, <1>2, <1>3 DEF Round

RoundsAre(rounds, hop, start, first) ==
    /\ rounds[0] = [reached |-> start \cup first, frontier |-> first]
    /\ \A k \in 0 .. Cardinality(Labels) : rounds[k] \in Round
    /\ \A k \in 1 .. Cardinality(Labels) : rounds[k] = RoundFrom(rounds[k - 1], hop)

LEMMA RoundsExist ==
    ASSUME question \in Questions, NEW hop, Hops(hop, Labels), NEW start \in SUBSET Labels,
           NEW first \in SUBSET Labels
    PROVE  RoundsAre(Rounds(hop, start, first), hop, start, first)
<1> DEFINE n == Cardinality(Labels)
           zero == [reached |-> start \cup first, frontier |-> first]
           Rec(f) == f = [k \in 0 .. n |-> IF k = 0 THEN zero ELSE RoundFrom(f[k - 1], hop)]
           h == [i \in 1 .. n |-> [was \in Round |-> RoundFrom(was, hop)]]
           rounds == CHOOSE f : Rec(f)
<1>1. n \in Nat
    BY LabelsFinite, FS_CardinalityType
<1>2. zero \in Round
    BY DEF Round
<1>3. rounds = Rounds(hop, start, first)
    BY DEF Rounds, RoundFrom
<1>4. \A i \in 1 .. n : \A was \in Round :
         h[i][was] = RoundFrom(was, hop) /\ h[i][was] \in Round
    <2>1. \A i \in 1 .. n : \A was \in Round : h[i][was] = RoundFrom(was, hop)
        OBVIOUS
    <2> HIDE DEF h
    <2> QED
        BY <2>1, RoundFromRound
<1> HIDE DEF n, zero, h
<1>5. PICK f : Iteration(f, n, Round, zero, h)
    BY <1>1, <1>2, <1>4, Iterates
<1>6. Rec(f)
    <2>1. f = [i \in 0 .. n |-> f[i]] /\ f[0] = zero
        BY <1>5 DEF Iteration
    <2>2. \A k \in 0 .. n : f[k] = IF k = 0 THEN zero ELSE RoundFrom(f[k - 1], hop)
        <3> TAKE k \in 0 .. n
        <3>1. CASE k = 0
            BY <2>1, <3>1
        <3>2. CASE k # 0
            <4>1. k \in 1 .. n /\ k - 1 \in 0 .. n
                BY <1>1, <3>2
            <4>2. f[k - 1] \in Round /\ f[k] = h[k][f[k - 1]]
                BY <1>5, <4>1 DEF Iteration
            <4> QED
                BY <1>4, <3>2, <4>1, <4>2
        <3> QED
            BY <3>1, <3>2
    <2> QED
        BY <2>1, <2>2
<1>7. Rec(rounds)
    BY <1>6
<1> HIDE DEF rounds
<1>8. rounds[0] = zero
    BY <1>1, <1>7
<1>9. \A k \in 1 .. n : rounds[k] = RoundFrom(rounds[k - 1], hop)
    <2> TAKE k \in 1 .. n
    <2>1. k \in 0 .. n /\ k # 0
        BY <1>1
    <2> QED
        BY <1>7, <2>1
<1> DEFINE T == {k \in Nat : rounds[k] \in Round}
<1>10. 0 \in T
    BY <1>2, <1>8
<1>11. ASSUME NEW k \in 1 .. n, k - 1 \in T PROVE k \in T
    <2>1. rounds[k - 1] \in Round /\ k \in Nat
        BY <1>1, <1>11
    <2> QED
        BY <1>9, <2>1, RoundFromRound
<1>12. \A k \in 0 .. n : k \in T
    <2> HIDE DEF T
    <2> QED
        BY <1>1, <1>10, <1>11, UpTo
<1>13. \A k \in 0 .. n : rounds[k] \in Round
    BY <1>12
<1> HIDE DEF T
<1> QED
    BY <1>3, <1>8, <1>9, <1>13 DEF RoundsAre, n, zero

\* While there is a frontier, every round reaches a label that is new.
LEMMA RoundsGrow ==
    ASSUME question \in Questions, NEW hop, NEW start, NEW first, NEW rounds,
           RoundsAre(rounds, hop, start, first)
    PROVE  rounds[Cardinality(Labels)].frontier = {}
<1> DEFINE n == Cardinality(Labels)
           Grown(k) == rounds[k].frontier # {} => Cardinality(rounds[k].reached) > k
           T == {k \in Nat : k <= n => Grown(k)}
<1>1. n \in Nat /\ IsFiniteSet(Labels)
    BY LabelsFinite, FS_CardinalityType
<1>2. \A k \in 0 .. n : /\ rounds[k].reached \in SUBSET Labels
                        /\ IsFiniteSet(rounds[k].reached)
                        /\ Cardinality(rounds[k].reached) \in Nat
                        /\ Cardinality(rounds[k].reached) <= n
    <2> TAKE k \in 0 .. n
    <2>1. rounds[k].reached \in SUBSET Labels
        BY DEF RoundsAre, Round
    <2> QED
        BY <1>1, <2>1, FS_Subset, FS_CardinalityType
<1>3. Grown(0)
    <2>1. ASSUME first # {} PROVE Cardinality(rounds[0].reached) # 0
        <3>1. rounds[0].reached # {}
            BY <2>1 DEF RoundsAre
        <3>2. IsFiniteSet(rounds[0].reached)
            BY <1>1, <1>2
        <3> QED
            BY <3>1, <3>2, FS_EmptySet
    <2>2. rounds[0].frontier = first
        BY DEF RoundsAre
    <2>3. Cardinality(rounds[0].reached) \in Nat
        BY <1>1, <1>2
    <2> QED
        BY <2>1, <2>2, <2>3
<1>4. ASSUME NEW k \in 1 .. n, Grown(k - 1) PROVE Grown(k)
    <2> DEFINE was == rounds[k - 1]
    <2>0. k - 1 \in 0 .. n /\ k \in 0 .. n /\ k \in Nat
        BY <1>1
    <2>1. rounds[k] = RoundFrom(was, hop)
        BY DEF RoundsAre
    <2> SUFFICES ASSUME rounds[k].frontier # {} PROVE Cardinality(rounds[k].reached) > k
        OBVIOUS
    <2>2. was.frontier # {}
        BY <2>1 DEF RoundFrom
    <2>3. /\ was.reached \subseteq rounds[k].reached
          /\ rounds[k].frontier \subseteq rounds[k].reached
          /\ rounds[k].frontier \cap was.reached = {}
        BY <2>1, <2>2 DEF RoundFrom, Frontier
    <2>4. was.reached # rounds[k].reached
        BY <2>3
    <2>5. /\ Cardinality(was.reached) <= Cardinality(rounds[k].reached)
          /\ Cardinality(was.reached) # Cardinality(rounds[k].reached)
        BY <1>2, <2>0, <2>3, <2>4, FS_Subset
    <2>6. Cardinality(was.reached) > k - 1
        BY <1>4, <2>2
    <2>7. Cardinality(was.reached) \in Nat /\ Cardinality(rounds[k].reached) \in Nat
        BY <1>2, <2>0
    <2> HIDE DEF was
    <2> QED
        BY <2>0, <2>5, <2>6, <2>7
<1>5. 0 \in T
    BY <1>3
<1>6. ASSUME NEW k \in 1 .. n, k - 1 \in T PROVE k \in T
    <2>1. k \in Nat /\ k - 1 <= n
        BY <1>1
    <2>2. Grown(k - 1)
        BY <1>6, <2>1
    <2> QED
        BY <1>4, <2>1, <2>2
<1>7. \A k \in 0 .. n : k \in T
    <2> HIDE DEF T, n
    <2> QED
        BY <1>1, <1>5, <1>6, UpTo
<1>8. Grown(n) /\ n \in 0 .. n
    BY <1>1, <1>7
<1> QED
    BY <1>1, <1>2, <1>8

\* Labels have been explored when what they lead to is reached.
Explored(label, hop, reached) ==
    \E X \in SUBSET Labels : label \in X /\ hop[X].reached \subseteq reached

\* In the end every reached label has been explored, unless it is a start.
LEMMA RoundsExplore ==
    ASSUME question \in Questions, NEW hop, NEW start, NEW first, NEW rounds,
           RoundsAre(rounds, hop, start, first)
    PROVE  LET reached == rounds[Cardinality(Labels)].reached
           IN  /\ start \cup first \subseteq reached
               /\ \A label \in reached : label \in start \/ Explored(label, hop, reached)
<1> DEFINE n == Cardinality(Labels)
           Close(k) == /\ start \cup first \subseteq rounds[k].reached
                       /\ \A label \in rounds[k].reached :
                             \/ label \in start \/ label \in rounds[k].frontier
                             \/ Explored(label, hop, rounds[k].reached)
           T == {k \in Nat : Close(k)}
<1>1. n \in Nat
    BY LabelsFinite, FS_CardinalityType
<1>2. Close(0)
    BY DEF RoundsAre
<1>3. ASSUME NEW k \in 1 .. n, Close(k - 1) PROVE Close(k)
    <2> DEFINE was == rounds[k - 1]
               now == rounds[k]
    <2>1. now = RoundFrom(was, hop) /\ was \in Round
        BY <1>1 DEF RoundsAre
    <2>2. /\ was.reached \subseteq now.reached /\ now.reached = was.reached \cup now.frontier
          /\ was.frontier # {} => hop[was.frontier].reached \subseteq now.reached
        BY <2>1 DEF RoundFrom, Frontier
    <2>3. \A label \in was.frontier : Explored(label, hop, now.reached)
        BY <2>1, <2>2 DEF Explored, Round
    <2>4. \A label : Explored(label, hop, was.reached) => Explored(label, hop, now.reached)
        BY <2>2 DEF Explored
    <2> HIDE DEF was, now
    <2>5. \A label \in now.reached :
             label \in start \/ label \in now.frontier \/ Explored(label, hop, now.reached)
        BY <1>3, <2>2, <2>3, <2>4 DEF was
    <2> QED
        BY <1>3, <2>2, <2>5 DEF was, now
<1>4. 0 \in T
    BY <1>2
<1>5. ASSUME NEW k \in 1 .. n, k - 1 \in T PROVE k \in T
    BY <1>1, <1>3, <1>5
<1>6. \A k \in 0 .. n : k \in T
    <2> HIDE DEF T, n
    <2> QED
        BY <1>1, <1>4, <1>5, UpTo
<1>7. Close(n)
    BY <1>1, <1>6
<1>8. rounds[n].frontier = {}
    BY RoundsGrow
<1> QED
    BY <1>7, <1>8

-----------------------------------------------------------------------------
(* The walks along paths.                                                  *)

LEMMA PathKinds ==
    ASSUME NEW p \in Paths
    PROVE  /\ p.op \in {"property", "relationship", "sequence", "alternative", "repeat"}
           /\ p.op = "relationship" => p.direction \in {"in", "out"}
           /\ p.op \in {"sequence", "alternative"} => p.items \in Seq(Paths) /\ p.items # <<>>
           /\ p.op = "repeat" => p.of \in Paths /\ p.min \in Nat /\ p.max \in Nat \cup {-1}
BY PathsAssumption DEF IsPath

LEMMA WalkStepFollowed ==
    ASSUME NEW p, NEW near \in SUBSET Labels
    PROVE  /\ WalkStep(p, near) \in FollowedIn(Labels)
           /\ WalkStep(p, near).reached = StepReaches(p, near)
           /\ WalkStep(p, near).marked = IF Declares(p, near) THEN {} ELSE {<<>>}
<1>1. StepReaches(p, near) \in SUBSET Labels
    BY DEF StepReaches, FarEnds, Labels
<1> DEFINE marked == IF Declares(p, near) THEN {} ELSE {<<>>}
<1>2. marked \in SUBSET Seq(Nat)
    OBVIOUS
<1>3. WalkStep(p, near) = Followed(StepReaches(p, near), marked)
    BY DEF WalkStep
<1> HIDE DEF marked
<1>4. /\ WalkStep(p, near) \in FollowedIn(Labels)
      /\ WalkStep(p, near).reached = StepReaches(p, near)
      /\ WalkStep(p, near).marked = marked
    BY <1>1, <1>2, <1>3, FollowedFields
<1> QED
    BY <1>4 DEF marked

\* Where a repetition that is walked leads, and its marks.
RepeatWalked(hop, min, near) ==
    LET start == IF min = 0 THEN near ELSE {}
        first == Frontier(start, hop[near].reached)
    IN  IF near = {} THEN first ELSE Rounds(hop, start, first)[Cardinality(Labels)].reached

LEMMA WalkRepeatFollowed ==
    ASSUME question \in Questions, NEW hop, Hops(hop, Labels), NEW min,
           NEW near \in SUBSET Labels
    PROVE  /\ WalkRepeat(hop, min, near) \in FollowedIn(Labels)
           /\ WalkRepeat(hop, min, near).reached = RepeatWalked(hop, min, near)
           /\ WalkRepeat(hop, min, near).marked = Under(1, hop[near].marked)
<1> DEFINE start == IF min = 0 THEN near ELSE {}
           first == Frontier(start, hop[near].reached)
           rounds == Rounds(hop, start, first)
           n == Cardinality(Labels)
<1>1. hop[near].reached \in SUBSET Labels /\ hop[near].marked \in SUBSET Seq(Nat)
    BY DEF Hops, FollowedIn
<1>2. start \in SUBSET Labels /\ first \in SUBSET Labels
    BY <1>1 DEF Frontier
<1>3. RoundsAre(rounds, hop, start, first)
    <2> HIDE DEF start, first
    <2> QED
        BY <1>2, RoundsExist
<1>4. n \in Nat
    BY LabelsFinite, FS_CardinalityType
<1>5. rounds[n].reached \in SUBSET Labels
    <2>1. rounds[n] \in Round
        <3> HIDE DEF rounds, start, first
        <3> QED
            BY <1>3, <1>4 DEF RoundsAre
    <2> HIDE DEF rounds
    <2> QED
        BY <2>1 DEF Round
<1>6. RepeatWalked(hop, min, near) = IF near = {} THEN first ELSE rounds[n].reached
    BY DEF RepeatWalked
<1>7. RepeatWalked(hop, min, near) \in SUBSET Labels
    <2> HIDE DEF rounds, first
    <2> QED
        BY <1>2, <1>5, <1>6
<1>8. Under(1, hop[near].marked) \in SUBSET Seq(Nat)
    BY <1>1, UnderPositions
<1>9. WalkRepeat(hop, min, near) =
        Followed(RepeatWalked(hop, min, near), Under(1, hop[near].marked))
    BY DEF WalkRepeat, RepeatWalked
<1> DEFINE reached == RepeatWalked(hop, min, near)
           marked == Under(1, hop[near].marked)
<1>10. reached \in SUBSET Labels /\ marked \in SUBSET Seq(Nat)
    BY <1>7, <1>8
<1>11. WalkRepeat(hop, min, near) = Followed(reached, marked)
    BY <1>9
<1> HIDE DEF start, first, rounds, n, reached, marked
<1>12. /\ Followed(reached, marked) \in FollowedIn(Labels)
       /\ Followed(reached, marked).reached = reached
       /\ Followed(reached, marked).marked = marked
    BY <1>10, FollowedFields
<1> QED
    BY <1>11, <1>12 DEF reached, marked

LEMMA WalkFollowed ==
    ASSUME question \in Questions, NEW below, Follows(below, Labels), NEW p \in Paths,
           NEW near \in SUBSET Labels
    PROVE  Walk(below, p, near) \in FollowedIn(Labels)
<1>1. CASE p.op \in {"property", "relationship"}
    <2>1. Walk(below, p, near) = WalkStep(p, near)
        BY <1>1 DEF Walk
    <2> QED
        BY <2>1, WalkStepFollowed
<1>2. CASE p.op = "sequence"
    <2>1. Walk(below, p, near) = InSequence(below, p.items, near)
        BY <1>2 DEF Walk
    <2> QED
        BY <1>2, <2>1, PathKinds, SequenceFollowed
<1>3. CASE p.op = "alternative"
    <2>1. Walk(below, p, near) = InAlternative(below, p.items, near)
        BY <1>3 DEF Walk
    <2> QED
        BY <1>3, <2>1, PathKinds, AlternativeFollowed
<1>4. CASE p.op = "repeat"
    <2>1. Walk(below, p, near) = WalkRepeat(below[p.of], p.min, near)
        BY <1>4 DEF Walk
    <2>2. Hops(below[p.of], Labels)
        BY <1>4, PathKinds DEF Hops, Follows
    <2> QED
        BY <2>1, <2>2, WalkRepeatFollowed
<1> QED
    BY <1>1, <1>2, <1>3, <1>4, PathKinds

\* Every walk is made of the walks that are less deep.
WalksAre(walks) ==
    /\ \A d \in 0 .. MaxDepth : Follows(walks[d], Labels)
    /\ \A p \in Paths, near \in SUBSET Labels : walks[0][p][near] = Followed({}, {})
    /\ \A d \in 1 .. MaxDepth : \A p \in Paths, near \in SUBSET Labels :
          walks[d][p][near] = Walk(walks[d - 1], p, near)

LEMMA WalksExist == ASSUME question \in Questions PROVE WalksAre(Walks)
<1> DEFINE V == [Paths -> [SUBSET Labels -> FollowedIn(Labels)]]
           from(b) == [p \in Paths |-> [near \in SUBSET Labels |-> Walk(b, p, near)]]
           zero == [p \in Paths |-> [near \in SUBSET Labels |-> Followed({}, {})]]
           Rec(f) == f = [d \in 0 .. MaxDepth |->
                            [p \in Paths |-> [near \in SUBSET Labels |->
                                IF d = 0 THEN Followed({}, {}) ELSE Walk(f[d - 1], p, near)]]]
           h == [i \in 1 .. MaxDepth |-> [b \in V |-> from(b)]]
           walks == CHOOSE f : Rec(f)
<1>1. MaxDepth \in Nat
    BY PathsAssumption
<1>2. walks = Walks
    BY DEF Walks
<1>3. Followed({}, {}) \in FollowedIn(Labels)
    BY FollowedFields
<1>4. zero \in V
    BY <1>3
<1>5. \A b \in V : Follows(b, Labels)
    BY DEF Follows
<1>6. \A b \in V : from(b) \in V
    <2> TAKE b \in V
    <2>1. \A p \in Paths, near \in SUBSET Labels : Walk(b, p, near) \in FollowedIn(Labels)
        BY <1>5, WalkFollowed
    <2> QED
        BY <2>1
<1>7. \A i \in 1 .. MaxDepth : \A b \in V : h[i][b] = from(b) /\ h[i][b] \in V
    <2>1. \A i \in 1 .. MaxDepth : \A b \in V : h[i][b] = from(b)
        OBVIOUS
    <2> HIDE DEF h, from, V
    <2> QED
        BY <1>6, <2>1
<1>8. PICK f : Iteration(f, MaxDepth, V, zero, h)
    <2> HIDE DEF h, V, zero
    <2> QED
        BY <1>1, <1>4, <1>7, Iterates
<1>9. f = [d \in 0 .. MaxDepth |-> f[d]] /\ f[0] = zero
    BY <1>8 DEF Iteration
<1>10. ASSUME NEW d \in 1 .. MaxDepth PROVE f[d] = from(f[d - 1])
    <2>1. d - 1 \in 0 .. MaxDepth
        BY <1>1
    <2>2. f[d - 1] \in V /\ f[d] = h[d][f[d - 1]]
        BY <1>8, <2>1 DEF Iteration
    <2> HIDE DEF h, from, V
    <2> QED
        BY <1>7, <2>2
<1> DEFINE g(w, d) == [p \in Paths |-> [near \in SUBSET Labels |->
                          IF d = 0 THEN Followed({}, {}) ELSE Walk(w[d - 1], p, near)]]
<1>11. ASSUME NEW d \in 0 .. MaxDepth PROVE f[d] = g(f, d)
    <2>1. CASE d = 0
        <3>1. g(f, d) = zero
            BY <2>1
        <3> QED
            BY <1>9, <2>1, <3>1
    <2>2. CASE d # 0
        <3>1. d \in 1 .. MaxDepth
            BY <1>1, <2>2
        <3>2. g(f, d) = from(f[d - 1])
            BY <2>2
        <3> HIDE DEF g, from
        <3> QED
            BY <1>10, <3>1, <3>2
    <2> QED
        BY <2>1, <2>2
<1>12. f = [d \in 0 .. MaxDepth |-> g(f, d)]
    <2> HIDE DEF g
    <2> QED
        BY <1>9, <1>11
<1>13. Rec(f)
    BY <1>12
<1>14. Rec(walks)
    BY <1>13
<1> HIDE DEF walks
<1>15. walks = [d \in 0 .. MaxDepth |-> g(walks, d)]
    BY <1>14
<1>16. \A d \in 0 .. MaxDepth : walks[d] = g(walks, d)
    <2> HIDE DEF g
    <2> QED
        BY <1>15
<1>17. \A p \in Paths, near \in SUBSET Labels : walks[0][p][near] = Followed({}, {})
    <2>0. 0 \in 0 .. MaxDepth
        BY <1>1
    <2>1. walks[0] = g(walks, 0)
        <3> HIDE DEF g
        <3> QED
            BY <1>16, <2>0
    <2> QED
        BY <2>1
<1>18. \A d \in 1 .. MaxDepth : \A p \in Paths, near \in SUBSET Labels :
          walks[d][p][near] = Walk(walks[d - 1], p, near)
    <2> TAKE d \in 1 .. MaxDepth
    <2>0. d \in 0 .. MaxDepth /\ d # 0
        BY <1>1
    <2>1. walks[d] = g(walks, d)
        <3> HIDE DEF g
        <3> QED
            BY <1>16, <2>0
    <2> QED
        BY <2>0, <2>1
<1> DEFINE T == {d \in Nat : Follows(walks[d], Labels)}
<1>19. 0 \in T
    BY <1>3, <1>17 DEF Follows
<1>20. ASSUME NEW d \in 1 .. MaxDepth, d - 1 \in T PROVE d \in T
    <2>1. Follows(walks[d - 1], Labels) /\ d \in Nat
        BY <1>1, <1>20
    <2>2. \A p \in Paths, near \in SUBSET Labels : walks[d][p][near] \in FollowedIn(Labels)
        BY <1>18, <2>1, WalkFollowed
    <2> QED
        BY <2>1, <2>2 DEF Follows
<1>21. \A d \in 0 .. MaxDepth : d \in T
    <2> HIDE DEF T
    <2> QED
        BY <1>1, <1>19, <1>20, UpTo
<1>22. \A d \in 0 .. MaxDepth : Follows(walks[d], Labels)
    BY <1>21
<1>23. WalksAre(walks)
    <2> HIDE DEF T, g
    <2> QED
        BY <1>17, <1>18, <1>22 DEF WalksAre
<1> QED
    BY <1>2, <1>23

-----------------------------------------------------------------------------
(* The traversals of the nodes.                                            *)

\* The values of a step from several nodes.
ValuesFrom(step, from) == UNION {ValuesOf(step, node) : node \in from}

LEMMA ValuesAreNodes ==
    ASSUME Written, NEW p \in Paths, p.op = "relationship", NEW from
    PROVE  ValuesFrom(p, from) \in SUBSET Nodes
<1>1. ASSUME NEW node PROVE ValuesOf(p, node) \subseteq Nodes
    <2>1. CASE p.direction = "out"
        BY <2>1 DEF ValuesOf, Written
    <2>2. CASE p.direction = "in"
        BY <2>2 DEF ValuesOf, Written
    <2> QED
        BY <2>1, <2>2, PathKinds
<1> QED
    BY <1>1 DEF ValuesFrom

LEMMA TraverseStepFollowed ==
    ASSUME Written, NEW p \in Paths, p.op \in {"property", "relationship"},
           NEW from \in SUBSET Nodes
    PROVE  /\ TraverseStep(p, from) \in FollowedIn(Nodes)
           /\ TraverseStep(p, from).reached =
                 IF p.op = "property" THEN {} ELSE ValuesFrom(p, from)
           /\ TraverseStep(p, from).marked = IF ValuesFrom(p, from) = {} THEN {} ELSE {<<>>}
<1> DEFINE marked == IF ValuesFrom(p, from) = {} THEN {} ELSE {<<>>}
           reached == IF p.op = "property" THEN {} ELSE ValuesFrom(p, from)
<1>1. marked \in SUBSET Seq(Nat) /\ reached \in SUBSET Nodes
    BY ValuesAreNodes
<1>2. TraverseStep(p, from) = Followed(reached, marked)
    BY DEF TraverseStep, ValuesFrom
<1> HIDE DEF marked, reached
<1>3. /\ TraverseStep(p, from) \in FollowedIn(Nodes)
      /\ TraverseStep(p, from).reached = reached
      /\ TraverseStep(p, from).marked = marked
    BY <1>1, <1>2, FollowedFields
<1> QED
    BY <1>3 DEF marked, reached

Most(max) == IF max = -1 THEN Cardinality(Nodes) ELSE max

\* What a repetition reaches, hop after hop.
HopsAre(hops, hop, min, max, from) ==
    /\ hops[0] = from
    /\ \A i \in 0 .. Most(max) : hops[i] \in SUBSET Nodes
    /\ \A i \in 1 .. Most(max) : hops[i] = hop[hops[i - 1]].reached
    /\ TraverseRepeat(hop, min, max, from) =
          Followed(UNION {hops[i] : i \in min .. Most(max)}, Under(1, hop[from].marked))

LEMMA MostIsNat == ASSUME NEW max \in Nat \cup {-1} PROVE Most(max) \in Nat
<1>1. Cardinality(Nodes) \in Nat
    BY PathsAssumption, FS_CardinalityType
<1> QED
    BY <1>1 DEF Most

LEMMA HopsExist ==
    ASSUME NEW hop, Hops(hop, Nodes), NEW min \in Nat, NEW max \in Nat \cup {-1},
           NEW from \in SUBSET Nodes
    PROVE  \E hops : HopsAre(hops, hop, min, max, from)
<1> DEFINE n == Most(max)
           h == [i \in 1 .. n |-> [X \in SUBSET Nodes |-> hop[X].reached]]
           Rec(f) == f = [i \in 0 .. n |-> IF i = 0 THEN from ELSE hop[f[i - 1]].reached]
           hops == CHOOSE f : Rec(f)
<1>1. n \in Nat
    BY MostIsNat
<1>2. \A i \in 1 .. n : \A X \in SUBSET Nodes :
         h[i][X] = hop[X].reached /\ h[i][X] \in SUBSET Nodes
    <2>1. \A X \in SUBSET Nodes : hop[X].reached \in SUBSET Nodes
        BY DEF Hops, FollowedIn
    <2> HIDE DEF n
    <2> QED
        BY <2>1
<1>3. TraverseRepeat(hop, min, max, from) =
        Followed(UNION {hops[i] : i \in min .. n}, Under(1, hop[from].marked))
    BY DEF TraverseRepeat, Most
<1> HIDE DEF n, h
<1>4. PICK f : Iteration(f, n, SUBSET Nodes, from, h)
    BY <1>1, <1>2, Iterates
<1>5. Rec(f)
    <2>1. f = [i \in 0 .. n |-> f[i]] /\ f[0] = from
        BY <1>4 DEF Iteration
    <2>2. \A i \in 0 .. n : f[i] = IF i = 0 THEN from ELSE hop[f[i - 1]].reached
        <3> TAKE i \in 0 .. n
        <3>1. CASE i = 0
            BY <2>1, <3>1
        <3>2. CASE i # 0
            <4>1. i \in 1 .. n /\ i - 1 \in 0 .. n
                BY <1>1, <3>2
            <4>2. f[i - 1] \in SUBSET Nodes /\ f[i] = h[i][f[i - 1]]
                BY <1>4, <4>1 DEF Iteration
            <4> QED
                BY <1>2, <3>2, <4>1, <4>2
        <3> QED
            BY <3>1, <3>2
    <2> QED
        BY <2>1, <2>2
<1>6. Rec(hops)
    BY <1>5
<1> HIDE DEF hops
<1>7. hops[0] = from
    BY <1>1, <1>6
<1>8. \A i \in 1 .. n : hops[i] = hop[hops[i - 1]].reached
    <2> TAKE i \in 1 .. n
    <2>1. i \in 0 .. n /\ i # 0
        BY <1>1
    <2> QED
        BY <1>6, <2>1
<1> DEFINE T == {i \in Nat : hops[i] \in SUBSET Nodes}
<1>9. 0 \in T
    BY <1>7
<1>10. ASSUME NEW i \in 1 .. n, i - 1 \in T PROVE i \in T
    BY <1>1, <1>8, <1>10 DEF Hops, FollowedIn
<1>11. \A i \in 0 .. n : i \in T
    <2> HIDE DEF T
    <2> QED
        BY <1>1, <1>9, <1>10, UpTo
<1>12. HopsAre(hops, hop, min, max, from)
    <2>1. \A i \in 0 .. n : hops[i] \in SUBSET Nodes
        BY <1>11
    <2> QED
        BY <1>3, <1>7, <1>8, <2>1 DEF HopsAre, n
<1> QED
    BY <1>12

LEMMA TraverseRepeatFollowed ==
    ASSUME NEW hop, Hops(hop, Nodes), NEW min \in Nat, NEW max \in Nat \cup {-1},
           NEW from \in SUBSET Nodes, NEW hops, HopsAre(hops, hop, min, max, from)
    PROVE  /\ TraverseRepeat(hop, min, max, from) \in FollowedIn(Nodes)
           /\ TraverseRepeat(hop, min, max, from).reached = UNION {hops[i] : i \in min .. Most(max)}
           /\ TraverseRepeat(hop, min, max, from).marked = Under(1, hop[from].marked)
<1> DEFINE reached == UNION {hops[i] : i \in min .. Most(max)}
           marked == Under(1, hop[from].marked)
<1>1. \A i \in min .. Most(max) : hops[i] \in SUBSET Nodes
    BY MostIsNat DEF HopsAre
<1>2. reached \in SUBSET Nodes
    BY <1>1
<1>3. marked \in SUBSET Seq(Nat)
    BY UnderPositions DEF Hops, FollowedIn
<1>4. TraverseRepeat(hop, min, max, from) = Followed(reached, marked)
    BY DEF HopsAre
<1> HIDE DEF reached, marked
<1>5. /\ Followed(reached, marked) \in FollowedIn(Nodes)
      /\ Followed(reached, marked).reached = reached
      /\ Followed(reached, marked).marked = marked
    BY <1>2, <1>3, FollowedFields
<1> QED
    BY <1>4, <1>5 DEF reached, marked

LEMMA TraverseFollowed ==
    ASSUME Written, NEW below, Follows(below, Nodes), NEW p \in Paths,
           NEW from \in SUBSET Nodes
    PROVE  Traverse(below, p, from) \in FollowedIn(Nodes)
<1>1. CASE p.op \in {"property", "relationship"}
    <2>1. Traverse(below, p, from) = TraverseStep(p, from)
        BY <1>1 DEF Traverse
    <2> QED
        BY <1>1, <2>1, TraverseStepFollowed
<1>2. CASE p.op = "sequence"
    <2>1. Traverse(below, p, from) = InSequence(below, p.items, from)
        BY <1>2 DEF Traverse
    <2> QED
        BY <1>2, <2>1, PathKinds, SequenceFollowed
<1>3. CASE p.op = "alternative"
    <2>1. Traverse(below, p, from) = InAlternative(below, p.items, from)
        BY <1>3 DEF Traverse
    <2> QED
        BY <1>3, <2>1, PathKinds, AlternativeFollowed
<1>4. CASE p.op = "repeat"
    <2>1. Traverse(below, p, from) = TraverseRepeat(below[p.of], p.min, p.max, from)
        BY <1>4 DEF Traverse
    <2>2. Hops(below[p.of], Nodes) /\ p.min \in Nat /\ p.max \in Nat \cup {-1}
        BY <1>4, PathKinds DEF Hops, Follows
    <2>3. PICK hops : HopsAre(hops, below[p.of], p.min, p.max, from)
        BY <2>2, HopsExist
    <2> QED
        BY <2>1, <2>2, <2>3, TraverseRepeatFollowed
<1> QED
    BY <1>1, <1>2, <1>3, <1>4, PathKinds

\* Every traversal is made of the traversals that are less deep.
TraversalsAre(traversals) ==
    /\ \A d \in 0 .. MaxDepth : Follows(traversals[d], Nodes)
    /\ \A p \in Paths, from \in SUBSET Nodes : traversals[0][p][from] = Followed({}, {})
    /\ \A d \in 1 .. MaxDepth : \A p \in Paths, from \in SUBSET Nodes :
          traversals[d][p][from] = Traverse(traversals[d - 1], p, from)

LEMMA TraversalsExist == ASSUME Written PROVE TraversalsAre(Traversals)
<1> DEFINE V == [Paths -> [SUBSET Nodes -> FollowedIn(Nodes)]]
           then(b) == [p \in Paths |-> [from \in SUBSET Nodes |-> Traverse(b, p, from)]]
           zero == [p \in Paths |-> [from \in SUBSET Nodes |-> Followed({}, {})]]
           Rec(f) == f = [d \in 0 .. MaxDepth |->
                            [p \in Paths |-> [from \in SUBSET Nodes |->
                                IF d = 0 THEN Followed({}, {}) ELSE Traverse(f[d - 1], p, from)]]]
           h == [i \in 1 .. MaxDepth |-> [b \in V |-> then(b)]]
           traversals == CHOOSE f : Rec(f)
<1>1. MaxDepth \in Nat
    BY PathsAssumption
<1>2. traversals = Traversals
    BY DEF Traversals
<1>3. Followed({}, {}) \in FollowedIn(Nodes)
    BY FollowedFields
<1>4. zero \in V
    BY <1>3
<1>5. \A b \in V : Follows(b, Nodes)
    BY DEF Follows
<1>6. \A b \in V : then(b) \in V
    <2> TAKE b \in V
    <2>1. \A p \in Paths, from \in SUBSET Nodes : Traverse(b, p, from) \in FollowedIn(Nodes)
        BY <1>5, TraverseFollowed
    <2> QED
        BY <2>1
<1>7. \A i \in 1 .. MaxDepth : \A b \in V : h[i][b] = then(b) /\ h[i][b] \in V
    <2>1. \A i \in 1 .. MaxDepth : \A b \in V : h[i][b] = then(b)
        OBVIOUS
    <2> HIDE DEF h, then, V
    <2> QED
        BY <1>6, <2>1
<1>8. PICK f : Iteration(f, MaxDepth, V, zero, h)
    <2> HIDE DEF h, V, zero
    <2> QED
        BY <1>1, <1>4, <1>7, Iterates
<1>9. f = [d \in 0 .. MaxDepth |-> f[d]] /\ f[0] = zero
    BY <1>8 DEF Iteration
<1>10. ASSUME NEW d \in 1 .. MaxDepth PROVE f[d] = then(f[d - 1])
    <2>1. d - 1 \in 0 .. MaxDepth
        BY <1>1
    <2>2. f[d - 1] \in V /\ f[d] = h[d][f[d - 1]]
        BY <1>8, <2>1 DEF Iteration
    <2> HIDE DEF h, then, V
    <2> QED
        BY <1>7, <2>2
<1> DEFINE g(w, d) == [p \in Paths |-> [from \in SUBSET Nodes |->
                          IF d = 0 THEN Followed({}, {}) ELSE Traverse(w[d - 1], p, from)]]
<1>11. ASSUME NEW d \in 0 .. MaxDepth PROVE f[d] = g(f, d)
    <2>1. CASE d = 0
        <3>1. g(f, d) = zero
            BY <2>1
        <3> QED
            BY <1>9, <2>1, <3>1
    <2>2. CASE d # 0
        <3>1. d \in 1 .. MaxDepth
            BY <1>1, <2>2
        <3>2. g(f, d) = then(f[d - 1])
            BY <2>2
        <3> HIDE DEF g, then
        <3> QED
            BY <1>10, <3>1, <3>2
    <2> QED
        BY <2>1, <2>2
<1>12. f = [d \in 0 .. MaxDepth |-> g(f, d)]
    <2> HIDE DEF g
    <2> QED
        BY <1>9, <1>11
<1>13. Rec(f)
    BY <1>12
<1>14. Rec(traversals)
    BY <1>13
<1> HIDE DEF traversals
<1>15. traversals = [d \in 0 .. MaxDepth |-> g(traversals, d)]
    BY <1>14
<1>16. \A d \in 0 .. MaxDepth : traversals[d] = g(traversals, d)
    <2> HIDE DEF g
    <2> QED
        BY <1>15
<1>17. \A p \in Paths, from \in SUBSET Nodes : traversals[0][p][from] = Followed({}, {})
    <2>0. 0 \in 0 .. MaxDepth
        BY <1>1
    <2>1. traversals[0] = g(traversals, 0)
        <3> HIDE DEF g
        <3> QED
            BY <1>16, <2>0
    <2> QED
        BY <2>1
<1>18. \A d \in 1 .. MaxDepth : \A p \in Paths, from \in SUBSET Nodes :
          traversals[d][p][from] = Traverse(traversals[d - 1], p, from)
    <2> TAKE d \in 1 .. MaxDepth
    <2>0. d \in 0 .. MaxDepth /\ d # 0
        BY <1>1
    <2>1. traversals[d] = g(traversals, d)
        <3> HIDE DEF g
        <3> QED
            BY <1>16, <2>0
    <2> QED
        BY <2>0, <2>1
<1> DEFINE T == {d \in Nat : Follows(traversals[d], Nodes)}
<1>19. 0 \in T
    BY <1>3, <1>17 DEF Follows
<1>20. ASSUME NEW d \in 1 .. MaxDepth, d - 1 \in T PROVE d \in T
    <2>1. Follows(traversals[d - 1], Nodes) /\ d \in Nat
        BY <1>1, <1>20
    <2>2. \A p \in Paths, from \in SUBSET Nodes : traversals[d][p][from] \in FollowedIn(Nodes)
        BY <1>18, <2>1, TraverseFollowed
    <2> QED
        BY <2>1, <2>2 DEF Follows
<1>21. \A d \in 0 .. MaxDepth : d \in T
    <2> HIDE DEF T
    <2> QED
        BY <1>1, <1>19, <1>20, UpTo
<1>22. \A d \in 0 .. MaxDepth : Follows(traversals[d], Nodes)
    BY <1>21
<1>23. TraversalsAre(traversals)
    <2> HIDE DEF T, g
    <2> QED
        BY <1>17, <1>18, <1>22 DEF TraversalsAre
<1> QED
    BY <1>2, <1>23

-----------------------------------------------------------------------------
(* The paths of which some part may stay.                                  *)

MayStay(below, p) ==
    CASE p.op \in {"property", "relationship"} -> FALSE
      [] p.op \in {"sequence", "alternative"} -> Range(p.items) \cap below # {}
      [] p.op = "repeat" -> p.min = 0 \/ p.of \in below

\* Whether a path stays depends on its parts, which are less deep.
StayingAre(staying) ==
    /\ \A d \in 0 .. MaxDepth : staying[d] \in SUBSET Paths
    /\ \A d \in 1 .. MaxDepth : \A p \in Paths \ staying[d] : ~ MayStay(staying[d - 1], p)
    /\ Staying = staying[MaxDepth]

LEMMA StayingExist == \E staying : StayingAre(staying)
<1> DEFINE to(b) == {p \in Paths : MayStay(b, p)}
           Rec(f) == f = [d \in 0 .. MaxDepth |-> {p \in Paths : d # 0 /\ MayStay(f[d - 1], p)}]
           h == [i \in 1 .. MaxDepth |-> [b \in SUBSET Paths |-> to(b)]]
           staying == CHOOSE f : Rec(f)
<1>1. MaxDepth \in Nat
    BY PathsAssumption
<1>2. staying[MaxDepth] = Staying
    BY DEF Staying, MayStay
<1>3. \A i \in 1 .. MaxDepth : \A b \in SUBSET Paths :
         h[i][b] = to(b) /\ h[i][b] \in SUBSET Paths
    OBVIOUS
<1>4. PICK f : Iteration(f, MaxDepth, SUBSET Paths, {}, h)
    <2> HIDE DEF h
    <2> QED
        BY <1>1, <1>3, Iterates
<1> DEFINE g(w, d) == {p \in Paths : d # 0 /\ MayStay(w[d - 1], p)}
<1>5. ASSUME NEW d \in 0 .. MaxDepth PROVE f[d] = g(f, d)
    <2>1. CASE d = 0
        <3>1. g(f, d) = {}
            BY <2>1
        <3> QED
            BY <1>4, <2>1, <3>1 DEF Iteration
    <2>2. CASE d # 0
        <3>1. d \in 1 .. MaxDepth /\ d - 1 \in 0 .. MaxDepth
            BY <1>1, <2>2
        <3>2. f[d - 1] \in SUBSET Paths /\ f[d] = h[d][f[d - 1]]
            BY <1>4, <3>1 DEF Iteration
        <3>3. f[d] = to(f[d - 1])
            <4> HIDE DEF h, to
            <4> QED
                BY <1>3, <3>1, <3>2
        <3> QED
            BY <2>2, <3>3
    <2> QED
        BY <2>1, <2>2
<1>6. f = [d \in 0 .. MaxDepth |-> g(f, d)]
    <2>1. f = [d \in 0 .. MaxDepth |-> f[d]]
        BY <1>4 DEF Iteration
    <2> HIDE DEF g
    <2> QED
        BY <1>5, <2>1
<1>7. Rec(f)
    BY <1>6
<1>8. Rec(staying)
    BY <1>7
<1> HIDE DEF staying
<1>9. staying = [d \in 0 .. MaxDepth |-> g(staying, d)]
    BY <1>8
<1>10. \A d \in 0 .. MaxDepth : staying[d] = g(staying, d)
    <2> HIDE DEF g
    <2> QED
        BY <1>9
<1>11. \A d \in 0 .. MaxDepth : staying[d] \in SUBSET Paths
    BY <1>10
<1>12. \A d \in 1 .. MaxDepth : \A p \in Paths \ staying[d] : ~ MayStay(staying[d - 1], p)
    <2> TAKE d \in 1 .. MaxDepth
    <2>1. d \in 0 .. MaxDepth /\ d # 0
        BY <1>1
    <2>2. staying[d] = {p \in Paths : d # 0 /\ MayStay(staying[d - 1], p)}
        BY <1>10, <2>1
    <2> QED
        BY <2>1, <2>2
<1> QED
    BY <1>2, <1>11, <1>12 DEF StayingAre

-----------------------------------------------------------------------------
(* Every node is reached from a single node.                               *)

\* What is reached from nodes is reached from one of them.
Distributes(hop) ==
    \A X \in SUBSET Nodes : \A m : m \in hop[X].reached <=> \E x \in X : m \in hop[{x}].reached

\* Hops from X, one after the other.
Chain(a, n, hops, X) ==
    /\ a[0] = X
    /\ \A i \in 0 .. n : a[i] \in SUBSET Nodes
    /\ \A i \in 1 .. n : a[i] = hops[i][a[i - 1]].reached

\* A chain for every node of X.
Chains(b, n, hops, X) == \A x \in X : Chain(b[x], n, hops, {x})

\* The chains of the nodes go where the one of all of them goes.
Together(a, b, n, X) == \A i \in 0 .. n : \A m : m \in a[i] <=> \E x \in X : m \in b[x][i]

AllDistribute(hops, n) == \A i \in 1 .. n : Distributes(hops[i])

LEMMA ChainDistributes ==
    ASSUME NEW n \in Nat, NEW hops, AllDistribute(hops, n), NEW X \in SUBSET Nodes,
           NEW a, Chain(a, n, hops, X), NEW b, Chains(b, n, hops, X)
    PROVE  Together(a, b, n, X)
<1> USE DEF Chains, AllDistribute
<1> SUFFICES \A i \in 0 .. n : \A m : m \in a[i] <=> \E x \in X : m \in b[x][i]
    BY DEF Together
<1> DEFINE Same(i) == \A m : m \in a[i] <=> \E x \in X : m \in b[x][i]
           T == {i \in Nat : Same(i)}
<1>1. 0 \in T
    BY DEF Chain
<1>2. ASSUME NEW i \in 1 .. n, Same(i - 1) PROVE Same(i)
    <2>0. i - 1 \in 0 .. n
        OBVIOUS
    <2>1. a[i - 1] \in SUBSET Nodes /\ a[i] = hops[i][a[i - 1]].reached
        BY <2>0 DEF Chain
    <2>2. \A x \in X : b[x][i - 1] \in SUBSET Nodes /\ b[x][i] = hops[i][b[x][i - 1]].reached
        BY <2>0 DEF Chain
    <2>3. \A m : m \in a[i] <=> \E y \in a[i - 1] : m \in hops[i][{y}].reached
        BY <2>1 DEF Distributes
    <2>4. \A x \in X : \A m : m \in b[x][i] <=> \E y \in b[x][i - 1] : m \in hops[i][{y}].reached
        BY <2>2 DEF Distributes
    <2> QED
        BY <1>2, <2>3, <2>4
<1>3. ASSUME NEW i \in 1 .. n, i - 1 \in T PROVE i \in T
    BY <1>2, <1>3
<1>4. \A i \in 0 .. n : i \in T
    <2> HIDE DEF T
    <2> QED
        BY <1>1, <1>3, UpTo
<1> QED
    BY <1>4

LEMMA StepDistributes ==
    ASSUME Written, NEW p \in Paths, p.op \in {"property", "relationship"}, NEW hop,
           \A X \in SUBSET Nodes : hop[X] = TraverseStep(p, X)
    PROVE  Distributes(hop)
<1>1. \A X \in SUBSET Nodes :
         hop[X].reached = IF p.op = "property" THEN {} ELSE ValuesFrom(p, X)
    BY TraverseStepFollowed
<1>2. \A X : \A m : m \in ValuesFrom(p, X) <=> \E x \in X : m \in ValuesFrom(p, {x})
    BY DEF ValuesFrom
<1> SUFFICES ASSUME NEW X \in SUBSET Nodes, NEW m
             PROVE  m \in hop[X].reached <=> \E x \in X : m \in hop[{x}].reached
    BY DEF Distributes
<1>3. \A x \in X : {x} \in SUBSET Nodes
    OBVIOUS
<1>4. CASE p.op = "property"
    BY <1>1, <1>3, <1>4
<1>5. CASE p.op # "property"
    <2>1. hop[X].reached = ValuesFrom(p, X)
        BY <1>1, <1>5
    <2>2. \A x \in X : hop[{x}].reached = ValuesFrom(p, {x})
        BY <1>1, <1>3, <1>5
    <2>3. m \in ValuesFrom(p, X) <=> \E x \in X : m \in ValuesFrom(p, {x})
        BY <1>2
    <2> QED
        BY <2>1, <2>2, <2>3
<1> QED
    BY <1>4, <1>5

LEMMA SequenceDistributes ==
    ASSUME NEW below, Follows(below, Nodes), \A q \in Paths : Distributes(below[q]),
           NEW items \in Seq(Paths), NEW hop,
           \A X \in SUBSET Nodes : hop[X] = InSequence(below, items, X)
    PROVE  Distributes(hop)
<1> DEFINE n == Len(items)
           hops == [i \in 1 .. n |-> below[items[i]]]
           b == [x \in Nodes |-> CHOOSE along : Leads(along, below, items, {x}, Nodes)]
<1>1. n \in Nat /\ \A i \in 1 .. n : items[i] \in Paths
    OBVIOUS
<1>2. AllDistribute(hops, n)
    BY <1>1 DEF AllDistribute
<1>3. ASSUME NEW X \in SUBSET Nodes, NEW along, Leads(along, below, items, X, Nodes)
      PROVE  Chain(along, n, hops, X) /\ hop[X].reached = along[n]
    <2>1. Chain(along, n, hops, X)
        BY <1>3 DEF Leads, Chain
    <2> DEFINE marked == UNION {Under(i, below[items[i]][along[i - 1]].marked) : i \in 1 .. n}
    <2>2. hop[X] = Followed(along[n], marked)
        BY <1>3 DEF Leads
    <2> HIDE DEF marked
    <2> QED
        BY <2>1, <2>2 DEF Followed
<1>4. ASSUME NEW x \in Nodes PROVE Leads(b[x], below, items, {x}, Nodes)
    <2>1. {x} \in SUBSET Nodes
        OBVIOUS
    <2>2. \E along : Leads(along, below, items, {x}, Nodes)
        BY <2>1, SequenceLeads
    <2> QED
        BY <2>2
<1> HIDE DEF b
<1> SUFFICES ASSUME NEW X \in SUBSET Nodes
             PROVE  \A m : m \in hop[X].reached <=> \E x \in X : m \in hop[{x}].reached
    BY DEF Distributes
<1>5. PICK a : Leads(a, below, items, X, Nodes)
    BY SequenceLeads
<1>6. Chain(a, n, hops, X) /\ hop[X].reached = a[n]
    BY <1>3, <1>5
<1>7. \A x \in X : Chain(b[x], n, hops, {x}) /\ hop[{x}].reached = b[x][n]
    BY <1>3, <1>4
<1> HIDE DEF hops, n
<1>8. Chains(b, n, hops, X)
    BY <1>7 DEF Chains
<1>9. Together(a, b, n, X)
    BY <1>1, <1>2, <1>6, <1>8, ChainDistributes
<1>10. \A m : m \in a[n] <=> \E x \in X : m \in b[x][n]
    BY <1>1, <1>9 DEF Together
<1> QED
    BY <1>6, <1>7, <1>10

LEMMA AlternativeDistributes ==
    ASSUME NEW below, Follows(below, Nodes), \A q \in Paths : Distributes(below[q]),
           NEW items \in Seq(Paths), NEW hop,
           \A X \in SUBSET Nodes : hop[X] = InAlternative(below, items, X)
    PROVE  Distributes(hop)
<1>1. Len(items) \in Nat /\ \A i \in 1 .. Len(items) : items[i] \in Paths
    OBVIOUS
<1>2. \A X \in SUBSET Nodes :
         hop[X].reached = UNION {below[items[i]][X].reached : i \in 1 .. Len(items)}
    BY AlternativeFollowed
<1> SUFFICES ASSUME NEW X \in SUBSET Nodes, NEW m
             PROVE  m \in hop[X].reached <=> \E x \in X : m \in hop[{x}].reached
    BY DEF Distributes
<1>3. ASSUME NEW Y \in SUBSET Nodes
      PROVE  m \in hop[Y].reached <=> \E i \in 1 .. Len(items) : m \in below[items[i]][Y].reached
    <2>1. hop[Y].reached = UNION {below[items[i]][Y].reached : i \in 1 .. Len(items)}
        BY <1>2
    <2> QED
        BY <2>1
<1>4. \A x \in X :
         m \in hop[{x}].reached <=> \E i \in 1 .. Len(items) : m \in below[items[i]][{x}].reached
    BY <1>3
<1>5. \A i \in 1 .. Len(items) :
         m \in below[items[i]][X].reached <=> \E x \in X : m \in below[items[i]][{x}].reached
    BY <1>1 DEF Distributes
<1> QED
    BY <1>3, <1>4, <1>5

LEMMA RepeatDistributes ==
    ASSUME NEW inner, Hops(inner, Nodes), Distributes(inner), NEW min \in Nat,
           NEW max \in Nat \cup {-1}, NEW hop,
           \A X \in SUBSET Nodes : hop[X] = TraverseRepeat(inner, min, max, X)
    PROVE  Distributes(hop)
<1> DEFINE n == Most(max)
           hops == [i \in 1 .. n |-> inner]
           b == [x \in Nodes |-> CHOOSE along : HopsAre(along, inner, min, max, {x})]
<1>1. n \in Nat
    BY MostIsNat
<1>2. AllDistribute(hops, n)
    BY DEF AllDistribute
<1>3. ASSUME NEW X \in SUBSET Nodes, NEW along, HopsAre(along, inner, min, max, X)
      PROVE  Chain(along, n, hops, X) /\ hop[X].reached = UNION {along[i] : i \in min .. n}
    <2>1. Chain(along, n, hops, X)
        BY <1>3 DEF HopsAre, Chain
    <2>2. TraverseRepeat(inner, min, max, X).reached = UNION {along[i] : i \in min .. Most(max)}
        BY <1>3, TraverseRepeatFollowed
    <2> QED
        BY <2>1, <2>2
<1>4. ASSUME NEW x \in Nodes PROVE HopsAre(b[x], inner, min, max, {x})
    <2>1. {x} \in SUBSET Nodes
        OBVIOUS
    <2>2. \E along : HopsAre(along, inner, min, max, {x})
        BY <2>1, HopsExist
    <2> QED
        BY <2>2
<1> HIDE DEF b
<1> SUFFICES ASSUME NEW X \in SUBSET Nodes, NEW m
             PROVE  m \in hop[X].reached <=> \E x \in X : m \in hop[{x}].reached
    BY DEF Distributes
<1>5. PICK a : HopsAre(a, inner, min, max, X)
    BY HopsExist
<1>6. Chain(a, n, hops, X) /\ hop[X].reached = UNION {a[i] : i \in min .. n}
    BY <1>3, <1>5
<1>7. ASSUME NEW x \in X
      PROVE  Chain(b[x], n, hops, {x}) /\ hop[{x}].reached = UNION {b[x][i] : i \in min .. n}
    <2>1. {x} \in SUBSET Nodes /\ HopsAre(b[x], inner, min, max, {x})
        BY <1>4
    <2> HIDE DEF hops, n
    <2> QED
        BY <1>3, <2>1
<1> HIDE DEF hops, n
<1>8. Chains(b, n, hops, X)
    BY <1>7 DEF Chains
<1>9. Together(a, b, n, X)
    BY <1>1, <1>2, <1>6, <1>8, ChainDistributes
<1>10. \A i \in min .. n : m \in a[i] <=> \E x \in X : m \in b[x][i]
    BY <1>1, <1>9 DEF Together
<1>11. m \in hop[X].reached <=> \E i \in min .. n : m \in a[i]
    BY <1>6
<1>12. ASSUME NEW x \in X
       PROVE  m \in hop[{x}].reached <=> \E i \in min .. n : m \in b[x][i]
    <2>1. hop[{x}].reached = UNION {b[x][i] : i \in min .. n}
        BY <1>7
    <2> QED
        BY <2>1
<1> QED
    BY <1>10, <1>11, <1>12

LEMMA TraversalsDistribute ==
    ASSUME Written, NEW traversals, TraversalsAre(traversals), NEW d \in 0 .. MaxDepth,
           NEW p \in Paths
    PROVE  Distributes(traversals[d][p])
<1> DEFINE T == {k \in Nat : \A q \in Paths : Distributes(traversals[k][q])}
<1>1. MaxDepth \in Nat
    BY PathsAssumption
<1>2. 0 \in T
    <2>1. \A q \in Paths : \A X \in SUBSET Nodes : traversals[0][q][X].reached = {}
        BY DEF TraversalsAre, Followed
    <2>2. \A q \in Paths : Distributes(traversals[0][q])
        BY <2>1 DEF Distributes
    <2> QED
        BY <2>2
<1>3. ASSUME NEW k \in 1 .. MaxDepth, k - 1 \in T PROVE k \in T
    <2> DEFINE below == traversals[k - 1]
    <2>0. k \in Nat /\ k - 1 \in 0 .. MaxDepth
        BY <1>1
    <2>1. Follows(below, Nodes) /\ \A q \in Paths : Distributes(below[q])
        BY <1>3, <2>0 DEF TraversalsAre
    <2>2. ASSUME NEW q \in Paths PROVE Distributes(traversals[k][q])
        <3> DEFINE hop == traversals[k][q]
        <3>1. \A X \in SUBSET Nodes : hop[X] = Traverse(below, q, X)
            BY DEF TraversalsAre
        <3> HIDE DEF hop, below
        <3>2. CASE q.op \in {"property", "relationship"}
            <4>1. \A X \in SUBSET Nodes : hop[X] = TraverseStep(q, X)
                BY <3>1, <3>2 DEF Traverse
            <4>2. Distributes(hop)
                BY <3>2, <4>1, StepDistributes
            <4> QED
                BY <4>2 DEF hop
        <3>3. CASE q.op = "sequence"
            <4>1. \A X \in SUBSET Nodes : hop[X] = InSequence(below, q.items, X)
                BY <3>1, <3>3 DEF Traverse
            <4>2. q.items \in Seq(Paths)
                BY <3>3, PathKinds
            <4>3. Distributes(hop)
                BY <2>1, <4>1, <4>2, SequenceDistributes
            <4> QED
                BY <4>3 DEF hop
        <3>4. CASE q.op = "alternative"
            <4>1. \A X \in SUBSET Nodes : hop[X] = InAlternative(below, q.items, X)
                BY <3>1, <3>4 DEF Traverse
            <4>2. q.items \in Seq(Paths)
                BY <3>4, PathKinds
            <4>3. Distributes(hop)
                BY <2>1, <4>1, <4>2, AlternativeDistributes
            <4> QED
                BY <4>3 DEF hop
        <3>5. CASE q.op = "repeat"
            <4> DEFINE inner == below[q.of]
            <4>1. \A X \in SUBSET Nodes : hop[X] = TraverseRepeat(inner, q.min, q.max, X)
                BY <3>1, <3>5 DEF Traverse
            <4>2. q.of \in Paths /\ q.min \in Nat /\ q.max \in Nat \cup {-1}
                BY <3>5, PathKinds
            <4>3. Hops(inner, Nodes) /\ Distributes(inner)
                BY <2>1, <4>2 DEF Follows, Hops
            <4> HIDE DEF inner
            <4>4. Distributes(hop)
                BY <4>1, <4>2, <4>3, RepeatDistributes
            <4> QED
                BY <4>4 DEF hop
        <3> QED
            BY <3>2, <3>3, <3>4, <3>5, PathKinds DEF hop
    <2> QED
        BY <2>0, <2>2
<1>4. \A k \in 0 .. MaxDepth : k \in T
    <2> HIDE DEF T
    <2> QED
        BY <1>1, <1>2, <1>3, UpTo
<1> QED
    BY <1>4

-----------------------------------------------------------------------------
(* The walk of the labels covers the traversals of the nodes.              *)

Within(nodes, labels) == \A node \in nodes : LabelOf[node] \in labels

\* The nodes are within the labels, and no step is both found and reported.
Sound(g, w) == Within(g.reached, w.reached) /\ g.marked \cap w.marked = {}

\* From known labels, nodes within them, and from labels that are not known.
Covers(g, w) ==
    \A near \in SUBSET Labels, from \in SUBSET Nodes : Within(from, near) => Sound(g[from], w[near])
CoversAll(g, w) == \A from \in SUBSET Nodes : Sound(g[from], w[{}])

CoversPaths(traversal, walk, staying) ==
    \A p \in Paths : /\ Covers(traversal[p], walk[p])
                     /\ p \notin staying => CoversAll(traversal[p], walk[p])

\* A relationship that is written joins declared labels.
LEMMA RelationshipEnds ==
    ASSUME IInv, enforced, NEW p \in Paths, p.op = "relationship",
           NEW node, NEW value \in ValuesOf(p, node)
    PROVE  /\ p.name \in DOMAIN endpoints
           /\ LabelOf[node] \in DeclaredLabels
           /\ \A near : LabelOf[node] \in near => LabelOf[value] \in FarEnds(p, near)
<1>1. IsSnapshot(question.snapshot)
    BY QuestionsAssumption DEF IInv
<1>2. ASSUME NEW t \in rels, t[2] = p.name
      PROVE  /\ p.name \in DOMAIN endpoints
             /\ <<LabelOf[t[1]], LabelOf[t[3]]>> \in endpoints[p.name]
             /\ LabelOf[t[1]] \in DeclaredLabels /\ LabelOf[t[3]] \in DeclaredLabels
    <2>1. Allows(t)
        BY DEF IInv, RelsConform
    <2>2. p.name \in DOMAIN endpoints
          /\ <<LabelOf[t[1]], LabelOf[t[3]]>> \in endpoints[p.name]
        BY <1>2, <2>1 DEF Allows
    <2> QED
        BY <1>1, <2>2 DEF IsSnapshot, DeclaredLabels, columns, endpoints
<1>3. CASE p.direction = "out"
    <2>1. PICK t \in rels : t[1] = node /\ t[2] = p.name /\ value = t[3]
        BY <1>3 DEF ValuesOf
    <2>2. /\ p.name \in DOMAIN endpoints
          /\ <<LabelOf[node], LabelOf[value]>> \in endpoints[p.name]
          /\ LabelOf[node] \in DeclaredLabels /\ LabelOf[value] \in DeclaredLabels
        BY <1>2, <2>1
    <2> QED
        BY <1>3, <2>2 DEF FarEnds
<1>4. CASE p.direction = "in"
    <2>1. PICK t \in rels : t[3] = node /\ t[2] = p.name /\ value = t[1]
        BY <1>4 DEF ValuesOf
    <2>2. /\ p.name \in DOMAIN endpoints
          /\ <<LabelOf[value], LabelOf[node]>> \in endpoints[p.name]
          /\ LabelOf[node] \in DeclaredLabels /\ LabelOf[value] \in DeclaredLabels
        BY <1>2, <2>1
    <2>3. p.direction # "out"
        BY <1>4
    <2> QED
        BY <2>2, <2>3 DEF FarEnds
<1> QED
    BY <1>3, <1>4, PathKinds

\* A value that is written has a column.
LEMMA PropertyColumn ==
    ASSUME IInv, enforced, NEW p \in Paths, p.op = "property",
           NEW node, NEW value \in ValuesOf(p, node)
    PROVE  HasColumn(LabelOf[node], p.name)
<1>1. PICK t \in props : t[1] = node /\ t[2] = p.name
    BY DEF ValuesOf
<1>2. AllowsValue(t)
    BY DEF IInv, PropsConform
<1> QED
    BY <1>1, <1>2 DEF AllowsValue

LEMMA StepSound ==
    ASSUME IInv, enforced, NEW p \in Paths, p.op \in {"property", "relationship"},
           NEW near \in SUBSET Labels, NEW from \in SUBSET Nodes, Within(from, near) \/ near = {}
    PROVE  Sound(TraverseStep(p, from), WalkStep(p, near))
<1> DEFINE g == TraverseStep(p, from)
           w == WalkStep(p, near)
<1>1. /\ g.reached = IF p.op = "property" THEN {} ELSE ValuesFrom(p, from)
      /\ g.marked = IF ValuesFrom(p, from) = {} THEN {} ELSE {<<>>}
    BY TraverseStepFollowed DEF IInv
<1>2. /\ w.reached = StepReaches(p, near)
      /\ w.marked = IF Declares(p, near) THEN {} ELSE {<<>>}
    BY WalkStepFollowed
<1> HIDE DEF g, w
<1>3. ASSUME NEW value \in ValuesFrom(p, from)
      PROVE  /\ Declares(p, near)
             /\ p.op = "relationship" => LabelOf[value] \in StepReaches(p, near)
    <2>1. PICK node \in from : value \in ValuesOf(p, node)
        BY DEF ValuesFrom
    <2>2. near # {} => LabelOf[node] \in near
        BY DEF Within
    <2>3. CASE p.op = "property"
        <3>1. HasColumn(LabelOf[node], p.name)
            BY <2>1, <2>3, PropertyColumn
        <3> QED
            BY <2>2, <2>3, <3>1 DEF Declares
    <2>4. CASE p.op = "relationship"
        <3>1. /\ p.name \in DOMAIN endpoints
              /\ LabelOf[node] \in DeclaredLabels
              /\ \A labels : LabelOf[node] \in labels => LabelOf[value] \in FarEnds(p, labels)
            BY <2>1, <2>4, RelationshipEnds
        <3>2. CASE near = {}
            <4>1. LabelOf[value] \in FarEnds(p, DeclaredLabels)
                BY <3>1
            <4> QED
                BY <2>4, <3>1, <3>2, <4>1 DEF Declares, StepReaches
        <3>3. CASE near # {}
            <4>1. LabelOf[value] \in FarEnds(p, near)
                BY <2>2, <3>1, <3>3
            <4> QED
                BY <2>4, <3>1, <3>3, <4>1 DEF Declares, StepReaches
        <3> QED
            BY <3>2, <3>3
    <2> QED
        BY <2>3, <2>4
<1>4. Within(g.reached, w.reached)
    BY <1>1, <1>2, <1>3 DEF Within
<1>5. g.marked \cap w.marked = {}
    BY <1>1, <1>2, <1>3
<1> QED
    BY <1>4, <1>5 DEF Sound, g, w

LEMMA UnderDisjoint ==
    ASSUME NEW A \in SUBSET Seq(Nat), NEW B \in SUBSET Seq(Nat), A \cap B = {}
    PROVE  Under(1, A) \cap Under(1, B) = {}
<1> SUFFICES ASSUME NEW at \in Under(1, A), at \in Under(1, B) PROVE FALSE
    OBVIOUS
<1>1. \E a \in A \cap B : at = <<1>> \o a
    BY PositionsDiffer
<1> QED
    BY <1>1

\* The marks of several parts.
AllUnder(A, n) == UNION {Under(i, A[i]) : i \in 1 .. n}

Disjoint(A, B, n) ==
    \A i \in 1 .. n : /\ A[i] \in SUBSET Seq(Nat) /\ B[i] \in SUBSET Seq(Nat)
                      /\ A[i] \cap B[i] = {}

\* Marks of parts that are disjoint are disjoint.
LEMMA PartsDisjoint ==
    ASSUME NEW n \in Nat, NEW A, NEW B, Disjoint(A, B, n)
    PROVE  AllUnder(A, n) \cap AllUnder(B, n) = {}
<1>1. ASSUME NEW at, NEW i \in 1 .. n, NEW j \in 1 .. n,
             at \in Under(i, A[i]), at \in Under(j, B[j])
      PROVE  FALSE
    <2>1. i \in Nat /\ j \in Nat /\ A[i] \in SUBSET Seq(Nat) /\ B[j] \in SUBSET Seq(Nat)
        BY DEF Disjoint
    <2>2. i = j /\ \E a \in A[i] \cap B[j] : at = <<i>> \o a
        BY <1>1, <2>1, PositionsDiffer
    <2> QED
        BY <2>2 DEF Disjoint
<1>2. \A at \in AllUnder(A, n) : \E i \in 1 .. n : at \in Under(i, A[i])
    BY DEF AllUnder
<1>3. \A at \in AllUnder(B, n) : \E i \in 1 .. n : at \in Under(i, B[i])
    BY DEF AllUnder
<1> QED
    BY <1>1, <1>2, <1>3

LEMMA SequenceSound ==
    ASSUME NEW traversal, Follows(traversal, Nodes), NEW walk, Follows(walk, Labels), NEW staying,
           CoversPaths(traversal, walk, staying), NEW items \in Seq(Paths), items # <<>>,
           NEW near \in SUBSET Labels, NEW from \in SUBSET Nodes,
           Within(from, near) \/ (near = {} /\ Range(items) \cap staying = {})
    PROVE  Sound(InSequence(traversal, items, from), InSequence(walk, items, near))
<1> DEFINE n == Len(items)
<1>1. n \in Nat /\ n # 0 /\ \A i \in 1 .. n : items[i] \in Paths /\ items[i] \in Range(items)
    BY EmptySeq DEF Range
<1>2. PICK a : Leads(a, traversal, items, from, Nodes)
    BY SequenceLeads
<1>3. PICK b : Leads(b, walk, items, near, Labels)
    BY SequenceLeads
<1> DEFINE A == [i \in 1 .. n |-> traversal[items[i]][a[i - 1]].marked]
           B == [i \in 1 .. n |-> walk[items[i]][b[i - 1]].marked]
           Known(i) == \/ Within(a[i], b[i])
                       \/ i = 0 /\ near = {} /\ Range(items) \cap staying = {}
           T == {i \in Nat : Known(i)}
<1>4. ASSUME NEW i \in 1 .. n, Known(i - 1)
      PROVE  Sound(traversal[items[i]][a[i - 1]], walk[items[i]][b[i - 1]])
    <2>1. a[i - 1] \in SUBSET Nodes /\ b[i - 1] \in SUBSET Labels
        BY <1>1, <1>2, <1>3 DEF Leads
    <2>2. Covers(traversal[items[i]], walk[items[i]])
        BY <1>1 DEF CoversPaths
    <2>3. CASE Within(a[i - 1], b[i - 1])
        BY <2>1, <2>2, <2>3 DEF Covers
    <2>4. CASE i - 1 = 0 /\ near = {} /\ Range(items) \cap staying = {}
        <3>1. CoversAll(traversal[items[i]], walk[items[i]])
            BY <1>1, <2>4 DEF CoversPaths
        <3>2. b[i - 1] = {}
            BY <1>3, <2>4 DEF Leads
        <3> QED
            BY <2>1, <3>1, <3>2 DEF CoversAll
    <2> QED
        BY <1>4, <2>3, <2>4
<1>5. 0 \in T
    BY <1>2, <1>3 DEF Leads
<1>6. ASSUME NEW i \in 1 .. n, i - 1 \in T PROVE i \in T
    <2>1. Sound(traversal[items[i]][a[i - 1]], walk[items[i]][b[i - 1]])
        BY <1>4, <1>6
    <2>2. Within(a[i], b[i])
        BY <1>2, <1>3, <2>1 DEF Leads, Sound
    <2> QED
        BY <2>2
<1>7. \A i \in 0 .. n : i \in T
    <2> HIDE DEF T, n
    <2> QED
        BY <1>1, <1>5, <1>6, UpTo
<1>8. \A i \in 1 .. n : i - 1 \in 0 .. n
    BY <1>1
<1>9. \A i \in 1 .. n : Sound(traversal[items[i]][a[i - 1]], walk[items[i]][b[i - 1]])
    <2> TAKE i \in 1 .. n
    <2>1. Known(i - 1)
        BY <1>7, <1>8
    <2> HIDE DEF Known
    <2> QED
        BY <1>4, <2>1
<1>10. Within(a[n], b[n])
    <2>1. Known(n)
        BY <1>1, <1>7
    <2> QED
        BY <1>1, <2>1
<1> HIDE DEF T, Known
<1>11. Disjoint(A, B, n)
    <2> SUFFICES ASSUME NEW i \in 1 .. n
                 PROVE  /\ A[i] \in SUBSET Seq(Nat) /\ B[i] \in SUBSET Seq(Nat)
                        /\ A[i] \cap B[i] = {}
        BY DEF Disjoint
    <2>1. a[i - 1] \in SUBSET Nodes /\ b[i - 1] \in SUBSET Labels
        BY <1>2, <1>3, <1>8 DEF Leads
    <2>2. A[i] \in SUBSET Seq(Nat) /\ B[i] \in SUBSET Seq(Nat)
        BY <1>1, <2>1 DEF Follows, FollowedIn
    <2>3. A[i] \cap B[i] = {}
        BY <1>9 DEF Sound
    <2> QED
        BY <2>2, <2>3
<1> DEFINE all == AllUnder(A, n)
           reported == AllUnder(B, n)
<1>12. all \cap reported = {}
    <2> HIDE DEF A, B, n
    <2> QED
        BY <1>1, <1>11, PartsDisjoint
<1>13. InSequence(traversal, items, from) = Followed(a[n], all)
    BY <1>2 DEF Leads, AllUnder
<1>14. InSequence(walk, items, near) = Followed(b[n], reported)
    BY <1>3 DEF Leads, AllUnder
<1> HIDE DEF all, reported, A, B, n
<1> QED
    BY <1>10, <1>12, <1>13, <1>14 DEF Sound, Followed

LEMMA AlternativeSound ==
    ASSUME NEW traversal, Follows(traversal, Nodes), NEW walk, Follows(walk, Labels), NEW staying,
           CoversPaths(traversal, walk, staying), NEW items \in Seq(Paths),
           NEW near \in SUBSET Labels, NEW from \in SUBSET Nodes,
           Within(from, near) \/ (near = {} /\ Range(items) \cap staying = {})
    PROVE  Sound(InAlternative(traversal, items, from), InAlternative(walk, items, near))
<1> DEFINE n == Len(items)
           g == InAlternative(traversal, items, from)
           w == InAlternative(walk, items, near)
           A == [i \in 1 .. n |-> traversal[items[i]][from].marked]
           B == [i \in 1 .. n |-> walk[items[i]][near].marked]
<1>1. n \in Nat /\ \A i \in 1 .. n : items[i] \in Paths /\ items[i] \in Range(items)
    BY DEF Range
<1>2. /\ g.reached = UNION {traversal[items[i]][from].reached : i \in 1 .. n}
      /\ g.marked = UNION {Under(i, traversal[items[i]][from].marked) : i \in 1 .. n}
    BY AlternativeFollowed
<1>3. /\ w.reached = UNION {walk[items[i]][near].reached : i \in 1 .. n}
      /\ w.marked = UNION {Under(i, walk[items[i]][near].marked) : i \in 1 .. n}
    BY AlternativeFollowed
<1>4. \A i \in 1 .. n : Sound(traversal[items[i]][from], walk[items[i]][near])
    <2> TAKE i \in 1 .. n
    <2>1. CASE Within(from, near)
        BY <1>1, <2>1 DEF CoversPaths, Covers
    <2>2. CASE near = {} /\ Range(items) \cap staying = {}
        BY <1>1, <2>2 DEF CoversPaths, CoversAll
    <2> QED
        BY <2>1, <2>2
<1>5. Within(g.reached, w.reached)
    <2> HIDE DEF g, w, n
    <2> QED
        BY <1>2, <1>3, <1>4 DEF Sound, Within
<1>6. Disjoint(A, B, n)
    BY <1>1, <1>4 DEF Follows, FollowedIn, Sound, Disjoint
<1>7. AllUnder(A, n) \cap AllUnder(B, n) = {}
    <2> HIDE DEF A, B, n
    <2> QED
        BY <1>1, <1>6, PartsDisjoint
<1>8. g.marked = AllUnder(A, n) /\ w.marked = AllUnder(B, n)
    BY <1>2, <1>3 DEF AllUnder
<1> HIDE DEF g, w, n, A, B
<1>9. g.marked \cap w.marked = {}
    BY <1>7, <1>8
<1>10. Sound(g, w)
    BY <1>5, <1>9 DEF Sound
<1> QED
    BY <1>10 DEF g, w

\* Where a repetition of a traversal leads, and its marks.
HopsLead(hops, inner, min, max, from) ==
    /\ HopsAre(hops, inner, min, max, from)
    /\ TraverseRepeat(inner, min, max, from).reached = UNION {hops[i] : i \in min .. Most(max)}
    /\ TraverseRepeat(inner, min, max, from).marked = Under(1, inner[from].marked)

LEMMA RepeatTraversed ==
    ASSUME NEW inner, Hops(inner, Nodes), NEW min \in Nat, NEW max \in Nat \cup {-1},
           NEW from \in SUBSET Nodes
    PROVE  \E hops : HopsLead(hops, inner, min, max, from)
<1>1. PICK hops : HopsAre(hops, inner, min, max, from)
    BY HopsExist
<1>2. /\ TraverseRepeat(inner, min, max, from).reached = UNION {hops[i] : i \in min .. Most(max)}
      /\ TraverseRepeat(inner, min, max, from).marked = Under(1, inner[from].marked)
    BY <1>1, TraverseRepeatFollowed
<1>3. HopsLead(hops, inner, min, max, from)
    BY <1>1, <1>2 DEF HopsLead
<1> QED
    BY <1>3

\* Labels that are not known: the path of the repetition has been followed at least once.
LEMMA RepeatSoundUnknown ==
    ASSUME question \in Questions, NEW inner, Hops(inner, Nodes), NEW outer, Hops(outer, Labels),
           CoversAll(inner, outer), NEW min \in Nat, min # 0, NEW max \in Nat \cup {-1},
           NEW from \in SUBSET Nodes
    PROVE  Sound(TraverseRepeat(inner, min, max, from), WalkRepeat(outer, min, {}))
<1> DEFINE g == TraverseRepeat(inner, min, max, from)
           w == WalkRepeat(outer, min, {})
           n == Most(max)
<1>0. {} \in SUBSET Labels /\ {} \in SUBSET Nodes /\ n \in Nat
    BY MostIsNat
<1>1. PICK hops : HopsLead(hops, inner, min, max, from)
    BY RepeatTraversed
<1>2. g.reached = UNION {hops[i] : i \in min .. n} /\ g.marked = Under(1, inner[from].marked)
    BY <1>1 DEF HopsLead
<1>3. w.reached = RepeatWalked(outer, min, {}) /\ w.marked = Under(1, outer[{}].marked)
    BY <1>0, WalkRepeatFollowed
<1>4. RepeatWalked(outer, min, {}) = outer[{}].reached
    BY DEF RepeatWalked, Frontier
<1>5. \A i \in 1 .. n : Within(hops[i], outer[{}].reached)
    <2> TAKE i \in 1 .. n
    <2>1. i - 1 \in 0 .. n
        BY <1>0
    <2>2. hops[i - 1] \in SUBSET Nodes /\ hops[i] = inner[hops[i - 1]].reached
        BY <1>1, <2>1 DEF HopsLead, HopsAre
    <2> QED
        BY <2>2 DEF CoversAll, Sound
<1>6. \A i \in min .. n : i \in 1 .. n
    BY <1>0
<1> HIDE DEF g, w, n
<1>7. Within(g.reached, w.reached)
    BY <1>2, <1>3, <1>4, <1>5, <1>6 DEF Within
<1>8. g.marked \cap w.marked = {}
    <2>1. inner[from].marked \in SUBSET Seq(Nat) /\ outer[{}].marked \in SUBSET Seq(Nat)
        BY <1>0 DEF Hops, FollowedIn
    <2>2. inner[from].marked \cap outer[{}].marked = {}
        BY DEF CoversAll, Sound
    <2>3. Under(1, inner[from].marked) \cap Under(1, outer[{}].marked) = {}
        BY <2>1, <2>2, UnderDisjoint
    <2> QED
        BY <1>2, <1>3, <2>3
<1>9. Sound(g, w)
    BY <1>7, <1>8 DEF Sound
<1> QED
    BY <1>9 DEF g, w

\* From labels that are known, a repetition follows every label that it reaches.
LEMMA RepeatCloses ==
    ASSUME question \in Questions, NEW outer, Hops(outer, Labels), NEW min \in Nat,
           NEW near \in SUBSET Labels, near # {}
    PROVE  LET reached == RepeatWalked(outer, min, near)
           IN  /\ min = 0 => near \subseteq reached
               /\ \A label \in near \cup reached : Explored(label, outer, reached)
<1> DEFINE start == IF min = 0 THEN near ELSE {}
           first == Frontier(start, outer[near].reached)
           rounds == Rounds(outer, start, first)
           reached == RepeatWalked(outer, min, near)
<1>1. start \in SUBSET Labels /\ first \in SUBSET Labels
    BY DEF Hops, FollowedIn, Frontier
<1>2. RoundsAre(rounds, outer, start, first)
    <2> HIDE DEF start, first
    <2> QED
        BY <1>1, RoundsExist
<1>3. reached = rounds[Cardinality(Labels)].reached
    BY DEF RepeatWalked
<1>4. outer[near].reached \subseteq start \cup first
    BY DEF Frontier
<1>5. start \subseteq near /\ (min = 0 => start = near)
    OBVIOUS
<1> HIDE DEF start, first, rounds, reached
<1>6. /\ start \cup first \subseteq reached
      /\ \A label \in reached : label \in start \/ Explored(label, outer, reached)
    BY <1>2, <1>3, RoundsExplore
<1>7. \A label \in near : Explored(label, outer, reached)
    BY <1>4, <1>6 DEF Explored
<1>8. (min = 0 => near \subseteq reached)
      /\ \A label \in near \cup reached : Explored(label, outer, reached)
    BY <1>5, <1>6, <1>7
<1> QED
    BY <1>8 DEF reached

LEMMA RepeatSound ==
    ASSUME question \in Questions, NEW inner, Hops(inner, Nodes), Distributes(inner),
           NEW outer, Hops(outer, Labels), Covers(inner, outer),
           NEW min \in Nat, NEW max \in Nat \cup {-1},
           NEW near \in SUBSET Labels, NEW from \in SUBSET Nodes, Within(from, near)
    PROVE  Sound(TraverseRepeat(inner, min, max, from), WalkRepeat(outer, min, near))
<1> DEFINE g == TraverseRepeat(inner, min, max, from)
           w == WalkRepeat(outer, min, near)
           n == Most(max)
           reached == RepeatWalked(outer, min, near)
<1>0. n \in Nat
    BY MostIsNat
<1>1. PICK hops : HopsLead(hops, inner, min, max, from)
    BY RepeatTraversed
<1>2. g.reached = UNION {hops[i] : i \in min .. n} /\ g.marked = Under(1, inner[from].marked)
    BY <1>1 DEF HopsLead
<1>3. w.reached = reached /\ w.marked = Under(1, outer[near].marked)
    BY WalkRepeatFollowed
<1>4. hops[0] = from /\ \A i \in 1 .. n :
         hops[i - 1] \in SUBSET Nodes /\ hops[i] = inner[hops[i - 1]].reached
    <2>1. \A i \in 1 .. n : i - 1 \in 0 .. n
        BY <1>0
    <2> QED
        BY <1>1, <2>1 DEF HopsLead, HopsAre
<1> HIDE DEF g, w, n
<1>5. Within(g.reached, w.reached)
    <2>1. CASE near = {}
        <3> DEFINE T == {i \in Nat : hops[i] = {}}
        <3>1. 0 \in T
            BY <1>4, <2>1 DEF Within
        <3>2. ASSUME NEW i \in 1 .. n, i - 1 \in T PROVE i \in T
            <4>1. hops[i] = inner[{}].reached /\ i \in Nat
                <5>1. hops[i - 1] = {}
                    BY <3>2
                <5>2. hops[i] = inner[hops[i - 1]].reached
                    BY <1>4
                <5>3. i \in Nat
                    BY <1>0
                <5> QED
                    BY <5>1, <5>2, <5>3
            <4>2. \A m : m \notin inner[{}].reached
                <5>1. {} \in SUBSET Nodes
                    OBVIOUS
                <5> QED
                    BY <5>1 DEF Distributes
            <4>3. inner[{}].reached \in SUBSET Nodes
                BY DEF Hops, FollowedIn
            <4> QED
                BY <4>1, <4>2, <4>3
        <3>3. \A i \in 0 .. n : i \in T
            <4> HIDE DEF T
            <4> QED
                BY <1>0, <3>1, <3>2, UpTo
        <3>4. \A i \in min .. n : hops[i] = {}
            BY <1>0, <3>3
        <3> QED
            BY <1>2, <3>4 DEF Within
    <2>2. CASE near # {}
        <3>1. /\ min = 0 => near \subseteq reached
              /\ \A label \in near \cup reached : Explored(label, outer, reached)
            BY <2>2, RepeatCloses
        <3> HIDE DEF reached
        <3> DEFINE Arrived(i) == /\ \A m \in hops[i] : Explored(LabelOf[m], outer, reached)
                                 /\ i = 0 \/ Within(hops[i], reached)
                   T == {i \in Nat : Arrived(i)}
        <3>2. 0 \in T
            BY <1>4, <3>1 DEF Within
        <3>3. ASSUME NEW i \in 1 .. n, Arrived(i - 1) PROVE Arrived(i)
            <4>1. ASSUME NEW m \in hops[i] PROVE LabelOf[m] \in reached
                <5>1. PICK x \in hops[i - 1] : m \in inner[{x}].reached
                    BY <1>4 DEF Distributes
                <5>2. PICK X \in SUBSET Labels :
                        LabelOf[x] \in X /\ outer[X].reached \subseteq reached
                    BY <3>3 DEF Explored
                <5>3. {x} \in SUBSET Nodes /\ Within({x}, X)
                    BY <1>4, <5>2 DEF Within
                <5>4. Sound(inner[{x}], outer[X])
                    BY <5>3 DEF Covers
                <5> QED
                    BY <5>1, <5>2, <5>4 DEF Sound, Within
            <4> QED
                BY <3>1, <4>1 DEF Within
        <3>4. ASSUME NEW i \in 1 .. n, i - 1 \in T PROVE i \in T
            BY <1>0, <3>3, <3>4
        <3>5. \A i \in 0 .. n : i \in T
            <4> HIDE DEF T
            <4> QED
                BY <1>0, <3>2, <3>4, UpTo
        <3>6. ASSUME NEW i \in min .. n PROVE Within(hops[i], reached)
            <4>1. i \in 0 .. n /\ (i = 0 => min = 0)
                BY <1>0
            <4>2. Arrived(i)
                BY <3>5, <4>1
            <4>3. CASE i = 0
                BY <1>4, <3>1, <4>1, <4>3 DEF Within
            <4>4. CASE i # 0
                BY <4>2, <4>4
            <4> QED
                BY <4>3, <4>4
        <3> QED
            BY <1>2, <1>3, <3>6 DEF Within
    <2> QED
        BY <2>1, <2>2
<1>6. g.marked \cap w.marked = {}
    <2>1. inner[from].marked \in SUBSET Seq(Nat) /\ outer[near].marked \in SUBSET Seq(Nat)
        BY DEF Hops, FollowedIn
    <2>2. inner[from].marked \cap outer[near].marked = {}
        BY DEF Covers, Sound
    <2>3. Under(1, inner[from].marked) \cap Under(1, outer[near].marked) = {}
        BY <2>1, <2>2, UnderDisjoint
    <2> QED
        BY <1>2, <1>3, <2>3
<1>7. Sound(g, w)
    BY <1>5, <1>6 DEF Sound
<1> QED
    BY <1>7 DEF g, w

-----------------------------------------------------------------------------

LEMMA WalksCover ==
    ASSUME IInv, enforced, NEW walks, WalksAre(walks), NEW traversals, TraversalsAre(traversals),
           NEW staying, StayingAre(staying)
    PROVE  \A d \in 0 .. MaxDepth : CoversPaths(traversals[d], walks[d], staying[d])
<1> DEFINE T == {d \in Nat : CoversPaths(traversals[d], walks[d], staying[d])}
<1>1. MaxDepth \in Nat /\ {} \in SUBSET Labels /\ Written /\ question \in Questions
    BY PathsAssumption DEF IInv
<1>2. 0 \in T
    <2>1. ASSUME NEW p \in Paths, NEW near \in SUBSET Labels, NEW from \in SUBSET Nodes
          PROVE  Sound(traversals[0][p][from], walks[0][p][near])
        <3>1. traversals[0][p][from] = Followed({}, {}) /\ walks[0][p][near] = Followed({}, {})
            BY DEF TraversalsAre, WalksAre
        <3> QED
            BY <3>1 DEF Sound, Within, Followed
    <2>2. CoversPaths(traversals[0], walks[0], staying[0])
        BY <1>1, <2>1 DEF CoversPaths, Covers, CoversAll
    <2> QED
        BY <2>2
<1>3. ASSUME NEW d \in 1 .. MaxDepth, d - 1 \in T PROVE d \in T
    <2> DEFINE traversal == traversals[d - 1]
               walk == walks[d - 1]
               below == staying[d - 1]
    <2>1. d \in Nat /\ d - 1 \in 0 .. MaxDepth
        BY <1>1
    <2>2. Follows(traversal, Nodes) /\ Follows(walk, Labels) /\ CoversPaths(traversal, walk, below)
        BY <1>3, <2>1 DEF TraversalsAre, WalksAre
    <2>3. \A p \in Paths : Distributes(traversal[p])
        BY <1>1, <2>1, TraversalsDistribute
    <2>4. \A p \in Paths : \A from \in SUBSET Nodes :
             traversals[d][p][from] = Traverse(traversal, p, from)
        BY DEF TraversalsAre
    <2>5. \A p \in Paths : \A near \in SUBSET Labels : walks[d][p][near] = Walk(walk, p, near)
        BY DEF WalksAre
    <2>6. \A p \in Paths \ staying[d] : ~ MayStay(below, p)
        BY DEF StayingAre
    <2> HIDE DEF traversal, walk, below
    <2>7. ASSUME NEW p \in Paths, NEW near \in SUBSET Labels, NEW from \in SUBSET Nodes,
                 Within(from, near) \/ (near = {} /\ p \notin staying[d])
          PROVE  Sound(Traverse(traversal, p, from), Walk(walk, p, near))
        <3>1. CASE p.op \in {"property", "relationship"}
            <4>1. /\ Traverse(traversal, p, from) = TraverseStep(p, from)
                  /\ Walk(walk, p, near) = WalkStep(p, near)
                BY <3>1 DEF Traverse, Walk
            <4>2. Sound(TraverseStep(p, from), WalkStep(p, near))
                BY <2>7, <3>1, StepSound
            <4> QED
                BY <4>1, <4>2
        <3>2. CASE p.op = "sequence"
            <4> DEFINE items == p.items
            <4>1. /\ Traverse(traversal, p, from) = InSequence(traversal, items, from)
                  /\ Walk(walk, p, near) = InSequence(walk, items, near)
                BY <3>2 DEF Traverse, Walk
            <4>2. items \in Seq(Paths) /\ items # <<>>
                BY <3>2, PathKinds
            <4>3. Within(from, near) \/ (near = {} /\ Range(items) \cap below = {})
                BY <2>6, <2>7, <3>2 DEF MayStay
            <4> HIDE DEF items
            <4>4. Sound(InSequence(traversal, items, from), InSequence(walk, items, near))
                BY <2>2, <4>2, <4>3, SequenceSound
            <4> QED
                BY <4>1, <4>4
        <3>3. CASE p.op = "alternative"
            <4> DEFINE items == p.items
            <4>1. /\ Traverse(traversal, p, from) = InAlternative(traversal, items, from)
                  /\ Walk(walk, p, near) = InAlternative(walk, items, near)
                BY <3>3 DEF Traverse, Walk
            <4>2. items \in Seq(Paths)
                BY <3>3, PathKinds
            <4>3. Within(from, near) \/ (near = {} /\ Range(items) \cap below = {})
                BY <2>6, <2>7, <3>3 DEF MayStay
            <4> HIDE DEF items
            <4>4. Sound(InAlternative(traversal, items, from), InAlternative(walk, items, near))
                BY <2>2, <4>2, <4>3, AlternativeSound
            <4> QED
                BY <4>1, <4>4
        <3>4. CASE p.op = "repeat"
            <4> DEFINE inner == traversal[p.of]
                       outer == walk[p.of]
                       min == p.min
                       max == p.max
            <4>1. /\ Traverse(traversal, p, from) = TraverseRepeat(inner, min, max, from)
                  /\ Walk(walk, p, near) = WalkRepeat(outer, min, near)
                BY <3>4 DEF Traverse, Walk
            <4>2. p.of \in Paths /\ min \in Nat /\ max \in Nat \cup {-1}
                BY <3>4, PathKinds
            <4>3. /\ Hops(inner, Nodes) /\ Hops(outer, Labels)
                  /\ Distributes(inner) /\ Covers(inner, outer)
                BY <2>2, <2>3, <4>2 DEF Hops, Follows, CoversPaths
            <4>4. Within(from, near) \/ (near = {} /\ min # 0 /\ p.of \notin below)
                BY <2>6, <2>7, <3>4 DEF MayStay
            <4>5. p.of \notin below => CoversAll(inner, outer)
                BY <2>2, <4>2 DEF CoversPaths
            <4> HIDE DEF inner, outer, min, max
            <4>6. Sound(TraverseRepeat(inner, min, max, from), WalkRepeat(outer, min, near))
                <5>1. CASE Within(from, near)
                    BY <1>1, <4>2, <4>3, <5>1, RepeatSound
                <5>2. CASE near = {} /\ min # 0 /\ p.of \notin below
                    <6>1. Sound(TraverseRepeat(inner, min, max, from), WalkRepeat(outer, min, {}))
                        BY <1>1, <4>2, <4>3, <4>5, <5>2, RepeatSoundUnknown
                    <6> QED
                        BY <5>2, <6>1
                <5> QED
                    BY <4>4, <5>1, <5>2
            <4> QED
                BY <4>1, <4>6
        <3> QED
            BY <3>1, <3>2, <3>3, <3>4, PathKinds
    <2>8. CoversPaths(traversals[d], walks[d], staying[d])
        <3> SUFFICES ASSUME NEW p \in Paths
                     PROVE  /\ Covers(traversals[d][p], walks[d][p])
                            /\ p \notin staying[d] => CoversAll(traversals[d][p], walks[d][p])
            BY DEF CoversPaths
        <3>1. Covers(traversals[d][p], walks[d][p])
            BY <2>4, <2>5, <2>7 DEF Covers
        <3>2. p \notin staying[d] => CoversAll(traversals[d][p], walks[d][p])
            BY <1>1, <2>4, <2>5, <2>7 DEF CoversAll
        <3> QED
            BY <3>1, <3>2
    <2> QED
        BY <2>1, <2>8
<1>4. \A d \in 0 .. MaxDepth : d \in T
    <2> HIDE DEF T
    <2> QED
        BY <1>1, <1>2, <1>3, UpTo
<1> QED
    BY <1>4

\* A step of the path that is reported finds nothing.
LEMMA PathMismatchesReal ==
    ASSUME IInv, enforced, ~ (focus = {} /\ question.path \in Staying)
    PROVE  Walks[MaxDepth][question.path][focus].marked \cap FoundAt = {}
<1> DEFINE p == question.path
           g == Traversals[MaxDepth][p]
           w == Walks[MaxDepth][p]
<1>1. /\ MaxDepth \in Nat /\ MaxDepth \in 0 .. MaxDepth
      /\ p \in Paths /\ focus \in SUBSET Labels /\ FocusNodes \in SUBSET Nodes
    BY PathsAssumption, QuestionsAssumption DEF IInv, Labels, FocusNodes
<1>2. PICK staying : StayingAre(staying)
    BY StayingExist
<1>3. WalksAre(Walks) /\ TraversalsAre(Traversals)
    BY WalksExist, TraversalsExist DEF IInv
<1>4. CoversPaths(Traversals[MaxDepth], Walks[MaxDepth], Staying)
    <2>1. staying[MaxDepth] = Staying
        BY <1>2 DEF StayingAre
    <2>2. CoversPaths(Traversals[MaxDepth], Walks[MaxDepth], staying[MaxDepth])
        BY <1>1, <1>2, <1>3, WalksCover
    <2> QED
        BY <2>1, <2>2
<1>5. Covers(g, w) /\ (p \notin Staying => CoversAll(g, w))
    BY <1>1, <1>4 DEF CoversPaths
<1> HIDE DEF g, w, p
<1>6. Sound(g[FocusNodes], w[focus])
    <2>1. CASE focus = {}
        <3>1. p \notin Staying
            BY <2>1 DEF p
        <3> QED
            BY <1>1, <1>5, <2>1, <3>1 DEF CoversAll
    <2>2. CASE focus # {}
        <3>1. Within(FocusNodes, focus)
            BY <2>2 DEF Within, FocusNodes
        <3> QED
            BY <1>1, <1>5, <3>1 DEF Covers
    <2> QED
        BY <2>1, <2>2
<1>7. FoundAt = g[FocusNodes].marked
    BY DEF FoundAt, g, p
<1> QED
    BY <1>6, <1>7 DEF Sound, w, p

\* No node has a label of a focus that is not declared, and is written to.
LEMMA TargetMismatchesReal ==
    ASSUME IInv, enforced, focus # {}, focus \cap DeclaredLabels = {}
    PROVE  /\ \A rel \in rels : {rel[1], rel[3]} \cap FocusNodes = {}
           /\ \A prop \in props : prop[1] \notin FocusNodes
<1>1. \A node \in FocusNodes : LabelOf[node] \notin DeclaredLabels
    BY DEF FocusNodes
<1>2. ASSUME NEW rel \in rels PROVE {rel[1], rel[3]} \cap FocusNodes = {}
    <2>1. Allows(rel)
        BY DEF IInv, RelsConform
    <2>2. LabelOf[rel[1]] \in DeclaredLabels /\ LabelOf[rel[3]] \in DeclaredLabels
        <3>1. IsSnapshot(question.snapshot)
            BY QuestionsAssumption DEF IInv
        <3>2. /\ rel[2] \in DOMAIN endpoints
              /\ <<LabelOf[rel[1]], LabelOf[rel[3]]>> \in endpoints[rel[2]]
            BY <2>1 DEF Allows
        <3> QED
            BY <3>1, <3>2 DEF IsSnapshot, DeclaredLabels, columns, endpoints
    <2> QED
        BY <1>1, <2>2
<1>3. ASSUME NEW prop \in props PROVE prop[1] \notin FocusNodes
    <2>1. AllowsValue(prop)
        BY DEF IInv, PropsConform
    <2> QED
        BY <1>1, <2>1 DEF AllowsValue, HasColumn
<1> QED
    BY <1>2, <1>3

-----------------------------------------------------------------------------

\* What is reported is what the schema gives.
DiagnosticsAreStatic == diagnostics \in {{}, StaticDiagnostics}

LEMMA WalksStay == ASSUME UNCHANGED question PROVE Walks' = Walks
BY DEF Walks, Walk, WalkStep, WalkRepeat, InSequence, InAlternative, Declares, StepReaches, FarEnds,
       HasColumn, Rounds, Labels, DeclaredLabels, columns, endpoints, focus

LEMMA StaticDiagnosticsStay ==
    ASSUME UNCHANGED question PROVE StaticDiagnostics' = StaticDiagnostics
<1>1. focus' = focus /\ DeclaredLabels' = DeclaredLabels
    BY DEF focus, DeclaredLabels, columns
<1>2. PathMismatches' = PathMismatches
    BY <1>1, WalksStay DEF PathMismatches
<1>3. ConstraintMismatches' = ConstraintMismatches
    BY SchemaStatusStays DEF ConstraintMismatches
<1>4. TargetMismatches' = TargetMismatches
    BY <1>1 DEF TargetMismatches
<1> QED
    BY <1>2, <1>3, <1>4 DEF StaticDiagnostics

LEMMA InitDiagnostics == Init => DiagnosticsAreStatic
BY DEF Init, DiagnosticsAreStatic

LEMMA NextDiagnostics == DiagnosticsAreStatic /\ [Next]_vars => DiagnosticsAreStatic'
<1> SUFFICES ASSUME DiagnosticsAreStatic, [Next]_vars PROVE DiagnosticsAreStatic'
    OBVIOUS
<1>1. StaticDiagnostics' = StaticDiagnostics
    <2>1. UNCHANGED question
        BY DEF Next, Compile, WriteRelationship, WriteProperty, vars
    <2> QED
        BY <2>1, StaticDiagnosticsStay
<1>2. diagnostics' \in {diagnostics, StaticDiagnostics}
    BY DEF Next, Compile, WriteRelationship, WriteProperty, vars
<1> QED
    BY <1>1, <1>2 DEF DiagnosticsAreStatic

LEMMA MismatchesHold == IInv /\ DiagnosticsAreStatic => MismatchesAreReal
<1> SUFFICES ASSUME IInv, DiagnosticsAreStatic, enforced,
                    ~ (focus = {} /\ question.path \in Staying), NEW mismatch \in diagnostics
             PROVE  /\ mismatch.code = "path" => mismatch.at \notin FoundAt
                    /\ mismatch.code = "target" =>
                          /\ \A rel \in rels : {rel[1], rel[3]} \cap FocusNodes = {}
                          /\ \A prop \in props : prop[1] \notin FocusNodes
    BY DEF MismatchesAreReal
<1>1. mismatch \in TargetMismatches \cup PathMismatches \cup ConstraintMismatches
    BY DEF DiagnosticsAreStatic, StaticDiagnostics
<1>2. CASE mismatch \in PathMismatches
    <2>1. PICK at \in Walks[MaxDepth][question.path][focus].marked : mismatch = Mismatch("path", at)
        BY <1>2 DEF PathMismatches
    <2>2. mismatch.code = "path" /\ mismatch.at = at
        BY <2>1 DEF Mismatch
    <2> QED
        BY <2>2, PathMismatchesReal
<1>3. CASE mismatch \in TargetMismatches
    <2>1. focus # {} /\ focus \cap DeclaredLabels = {} /\ mismatch = Mismatch("target", <<>>)
        BY <1>3 DEF TargetMismatches
    <2>2. mismatch.code = "target"
        BY <2>1 DEF Mismatch
    <2> QED
        BY <2>1, <2>2, TargetMismatchesReal
<1>4. CASE mismatch \in ConstraintMismatches
    <2>1. mismatch.code = "constraint"
        BY <1>4 DEF ConstraintMismatches, Mismatch
    <2> QED
        BY <2>1
<1> QED
    BY <1>1, <1>2, <1>3, <1>4

\* A path step that an enforced schema was found not to declare finds nothing, however
\* deep the path and however often it repeats, and a focus whose label is not declared
\* has no nodes that are written to.
THEOREM MismatchesReal == Spec => []MismatchesAreReal
<1>1. Spec => []DiagnosticsAreStatic
    BY InitDiagnostics, NextDiagnostics, PTL DEF Spec
<1> QED
    BY <1>1, Invariance, MismatchesHold, PTL
=============================================================================
