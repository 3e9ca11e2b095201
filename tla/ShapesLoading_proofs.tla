------------------------ MODULE ShapesLoading_proofs ------------------------
(***************************************************************************)
(* What the loader promises for any world and any arguments: each source   *)
(* once, given ones first and in order, and exactly those that are given   *)
(* or imported.                                                            *)
(***************************************************************************)
EXTENDS ShapesLoading, SequenceTheorems, TLAPS

\* While the given sources are parsed: those parsed and those to come are the named
\* ones, told apart by their paths, and those to come are the later ones.
GivenInv ==
    /\ pc = "arguments" => inputs = <<>>
    /\ pc = "given" => /\ Loaded \cup given = Named
                       /\ \A s, t \in Named : s.at = t.at => s = t
                       /\ \A i \in DOMAIN inputs : \A s \in given :
                             inputs[i].at < s.at
    /\ pc \in {"scan", "imports"} => Named \subseteq Loaded

\* What a pass has to look at was imported by an input; what it has looked at is
\* loaded.
PassInv ==
    /\ pc = "imports" =>
          \A iri \in pending : \E source \in Loaded : iri \in world.imports[source]
    /\ pc = "imports" /\ loadedAny = "no" =>
          \A source \in Loaded : \A iri \in world.imports[source] :
             iri \in pending \/ IsLoaded(iri)

\* The inductive invariant.
IInv ==
    /\ TypeOK
    /\ GivenInv
    /\ PassInv
    /\ EachSourceOnce
    /\ GivenComeFirst
    /\ ImportsAreClosed
    /\ NothingElseLoaded

-----------------------------------------------------------------------------
\* What the world gives for one IRI and one path.
LEMMA WorldType ==
  ASSUME TypeOK
  PROVE  /\ \A p \in Paths : world.canonical[p] \in Paths \cup {Missing}
         /\ \A iri \in Iris : world.path[iri] \in Paths
         /\ \A iri \in Iris : world.scheme[iri] \in {"file", "remote", "other"}
         /\ \A s \in Sources : world.imports[s] \in SUBSET Iris
         /\ argument.files \in SUBSET Paths
         /\ argument.documents \in Seq(Paths)
<1>1. world \in World /\ argument \in Argument
  BY DEF TypeOK
<1>2. world.canonical \in [Paths -> Paths \cup {Missing}]
  BY <1>1 DEF World
<1>3. world.path \in [Iris -> Paths]
  BY <1>1 DEF World
<1>4. world.scheme \in [Iris -> {"file", "remote", "other"}]
  BY <1>1 DEF World
<1>5. world.imports \in [Sources -> SUBSET Iris]
  BY <1>1 DEF World
<1>6. argument.files \in SUBSET Paths /\ argument.documents \in Seq(Paths)
  BY <1>1 DEF Argument
<1> QED
  BY <1>2, <1>3, <1>4, <1>5, <1>6

\* The named sources are sources.
LEMMA NamedSources ==
  ASSUME TypeOK, Missing \notin GivenFiles
  PROVE  Named \subseteq Sources
<1>1. GivenFiles \subseteq Paths
  BY WorldType DEF GivenFiles
<1>2. Range(argument.documents) \subseteq Paths
  BY WorldType DEF Range
<1> QED
  BY <1>1, <1>2 DEF Named, Sources

\* What appending a source does to the inputs.
LEMMA AppendInput ==
  ASSUME TypeOK, NEW s \in Sources, inputs' = Append(inputs, s)
  PROVE  /\ inputs' \in Seq(Sources)
         /\ Loaded' = Loaded \cup {s}
         /\ DOMAIN inputs = 1 .. Len(inputs)
         /\ DOMAIN inputs' = 1 .. Len(inputs) + 1
         /\ Len(inputs) \in Nat
         /\ \A i \in DOMAIN inputs : inputs'[i] = inputs[i]
         /\ inputs'[Len(inputs) + 1] = s
<1>1. inputs \in Seq(Sources)
  BY DEF TypeOK
<1>2. /\ inputs' \in Seq(Sources)
      /\ DOMAIN inputs = 1 .. Len(inputs)
      /\ DOMAIN inputs' = 1 .. Len(inputs) + 1
      /\ Len(inputs) \in Nat
      /\ \A i \in DOMAIN inputs : inputs'[i] = inputs[i]
      /\ inputs'[Len(inputs) + 1] = s
  BY <1>1
<1>3. DOMAIN inputs' = DOMAIN inputs \cup {Len(inputs) + 1}
  BY <1>2
<1>4. Loaded' = Loaded \cup {s}
  BY <1>2, <1>3 DEF Loaded, Range
<1> QED
  BY <1>2, <1>4

\* An import that is neither loaded nor refused has a target that is new.
LEMMA NewTarget ==
  ASSUME TypeOK, NEW iri \in Iris, ~ IsLoaded(iri), ~ Refused(iri)
  PROVE  Target(iri) \in Sources \ Loaded
<1>1. CASE world.scheme[iri] = "file"
  BY <1>1, WorldType DEF IsLoaded, Refused, Target, Sources
<1>2. CASE world.scheme[iri] = "remote"
  BY <1>2, WorldType DEF IsLoaded, Refused, Target, Sources
<1> QED
  BY <1>1, <1>2, WorldType DEF Refused

\* What the invariants that speak of the inputs alone need from an appended source:
\* it is new, it is not a named one behind others, and it has a reason to be there.
LEMMA InputsGrow ==
  ASSUME TypeOK, EachSourceOnce, GivenComeFirst, NothingElseLoaded,
         NEW s \in Sources \ Loaded,
         inputs' = Append(inputs, s),
         UNCHANGED outside,
         s \in Named => /\ Loaded \subseteq Named
                        /\ \A i \in DOMAIN inputs : inputs[i].at < s.at,
         \/ s \in Named
         \/ /\ \E source \in Loaded : \E iri \in world.imports[source] :
                  s = Target(iri)
            /\ s.kind = "remote" => world.remotes = "allowed"
  PROVE  EachSourceOnce' /\ GivenComeFirst' /\ NothingElseLoaded'
<1> DEFINE n == Len(inputs) + 1
<1>1. /\ DOMAIN inputs = 1 .. Len(inputs)
      /\ Len(inputs) \in Nat
      /\ DOMAIN inputs' = 1 .. n
      /\ \A i \in DOMAIN inputs : inputs'[i] = inputs[i]
      /\ inputs'[n] = s
  BY AppendInput
<1>2. \A i \in DOMAIN inputs' : i \in DOMAIN inputs \/ i = n
  BY <1>1
<1>3. \A i \in DOMAIN inputs : inputs[i] \in Loaded
  BY DEF Loaded, Range
<1>4. Named' = Named /\ world' = world
  BY DEF outside, Named, GivenFiles
<1>5. EachSourceOnce'
  BY <1>1, <1>2, <1>3 DEF EachSourceOnce
<1>6. GivenComeFirst'
  <2> SUFFICES ASSUME NEW i \in DOMAIN inputs', NEW j \in DOMAIN inputs',
                      i < j, inputs'[j] \in Named
               PROVE  inputs'[i] \in Named /\ inputs'[i].at < inputs'[j].at
    BY <1>4 DEF GivenComeFirst
  <2>1. i \in DOMAIN inputs
    BY <1>1
  <2>2. CASE j \in DOMAIN inputs
    BY <2>1, <2>2, <1>1 DEF GivenComeFirst
  <2>3. CASE j = n
    BY <2>1, <2>3, <1>1, <1>3
  <2> QED
    BY <2>2, <2>3, <1>2
<1>7. NothingElseLoaded'
  <2> SUFFICES ASSUME NEW i \in DOMAIN inputs', inputs'[i] \notin Named
               PROVE  /\ \E j \in 1 .. i - 1 : \E iri \in world.imports[inputs'[j]] :
                            inputs'[i] = Target(iri)
                      /\ inputs'[i].kind = "remote" => world.remotes = "allowed"
    BY <1>4 DEF NothingElseLoaded, Target
  <2>1. CASE i \in DOMAIN inputs
    <3>1. \A j \in 1 .. i - 1 : inputs'[j] = inputs[j]
      BY <1>1, <2>1
    <3> QED
      BY <1>1, <2>1, <3>1 DEF NothingElseLoaded
  <2>2. CASE i = n
    <3>1. PICK source \in Loaded : \E iri \in world.imports[source] : s = Target(iri)
      BY <2>2, <1>1
    <3>2. PICK j \in DOMAIN inputs : inputs[j] = source
      BY DEF Loaded, Range
    <3>3. j \in 1 .. i - 1 /\ inputs'[j] = source
      BY <1>1, <2>2, <3>2
    <3> QED
      BY <1>1, <2>2, <3>1, <3>3
  <2> QED
    BY <2>1, <2>2, <1>2
<1> QED
  BY <1>5, <1>6, <1>7

\* Whatever is loaded stays loaded.
LEMMA StaysLoaded ==
  ASSUME UNCHANGED outside, Loaded \subseteq Loaded', NEW iri, IsLoaded(iri)
  PROVE  IsLoaded(iri)'
BY DEF outside, IsLoaded, Target

-----------------------------------------------------------------------------
LEMMA InitIInv == Init => IInv
<1> SUFFICES ASSUME Init PROVE IInv
  OBVIOUS
<1>1. DOMAIN inputs = {} /\ Loaded = {} /\ inputs \in Seq(Sources)
  BY DEF Init, Loaded, Range
<1>2. TypeOK
  BY <1>1, ShapesLoadingAssumption DEF Init, TypeOK
<1>3. GivenInv /\ PassInv /\ ImportsAreClosed
  BY DEF Init, GivenInv, PassInv, ImportsAreClosed
<1>4. EachSourceOnce /\ GivenComeFirst /\ NothingElseLoaded
  BY <1>1 DEF EachSourceOnce, GivenComeFirst, NothingElseLoaded
<1> QED
  BY <1>2, <1>3, <1>4 DEF IInv

\* The invariants that speak of the inputs alone last while these do not change.
LEMMA InputsKept ==
  ASSUME EachSourceOnce, GivenComeFirst, NothingElseLoaded,
         UNCHANGED <<outside, inputs>>
  PROVE  /\ EachSourceOnce' /\ GivenComeFirst' /\ NothingElseLoaded'
         /\ Loaded' = Loaded
         /\ Named' = Named
<1>1. world' = world /\ Named' = Named /\ Loaded' = Loaded
  BY DEF outside, Named, GivenFiles, Loaded
<1>2. EachSourceOnce'
  BY DEF EachSourceOnce
<1>3. GivenComeFirst'
  BY <1>1 DEF GivenComeFirst
<1>4. NothingElseLoaded'
  BY <1>1 DEF NothingElseLoaded, Target
<1> QED
  BY <1>1, <1>2, <1>3, <1>4

\* A failure keeps everything the loader has done.
LEMMA FailIInv ==
  ASSUME IInv, NEW why \in Stops \ {"done"}, Fail(why)
  PROVE  IInv'
<1> USE DEF Fail
<1>1. TypeOK'
  BY DEF IInv, TypeOK, outside
<1>2. EachSourceOnce' /\ GivenComeFirst' /\ NothingElseLoaded'
  BY InputsKept DEF IInv
<1>3. GivenInv' /\ PassInv' /\ ImportsAreClosed'
  BY DEF GivenInv, PassInv, ImportsAreClosed, Stops
<1> QED
  BY <1>1, <1>2, <1>3 DEF IInv

\* Two named sources of one path are the same when no document clashes.
LEMMA NamedByPath ==
  ASSUME TypeOK, \A i \in DOMAIN argument.documents : ~ Clash(i)
  PROVE  \A s, t \in Named : s.at = t.at => s = t
<1>1. \A p \in Range(argument.documents) : p \notin GivenFiles
  BY DEF Clash, Range
<1> QED
  BY <1>1 DEF Named, File, Document

LEMMA NextIInv == IInv /\ [Next]_vars => IInv'
<1> SUFFICES ASSUME IInv, [Next]_vars PROVE IInv'
  OBVIOUS
<1> USE DEF IInv
<1>1. CASE ArgumentMissing
  BY <1>1, FailIInv DEF ArgumentMissing, Stops
<1>2. CASE DocumentRejected
  <2>1. \E why \in Stops \ {"done"} : Fail(why)
    BY <1>2 DEF DocumentRejected, Stops
  <2> QED
    BY <2>1, FailIInv
<1>3. CASE AcceptArguments
  <2> USE <1>3 DEF AcceptArguments
  <2>1. /\ EachSourceOnce' /\ GivenComeFirst' /\ NothingElseLoaded'
        /\ Loaded' = Loaded
        /\ Named' = Named
    BY InputsKept
  <2>2. DOMAIN inputs = {} /\ Loaded = {}
    BY DEF GivenInv, Loaded, Range
  <2>3. TypeOK'
    BY NamedSources DEF TypeOK, outside
  <2>4. GivenInv'
    BY <2>1, <2>2, NamedByPath DEF GivenInv
  <2>5. PassInv' /\ ImportsAreClosed'
    BY DEF PassInv, ImportsAreClosed
  <2> QED
    BY <2>1, <2>3, <2>4, <2>5
<1>4. CASE ParseGiven
  <2>1. PICK s \in given :
           /\ pc = "given"
           /\ \A other \in given : s.at <= other.at
           /\ IF s \in world.broken
              THEN Fail("failed: input")
              ELSE /\ inputs' = Append(inputs, s)
                   /\ given' = given \ {s}
                   /\ UNCHANGED <<outside, pc, pending, loadedAny>>
    BY <1>4 DEF ParseGiven
  <2>2. CASE s \in world.broken
    BY <2>1, <2>2, FailIInv DEF Stops
  <2>3. CASE s \notin world.broken
    <3>1. /\ inputs' = Append(inputs, s)
          /\ given' = given \ {s}
          /\ UNCHANGED <<outside, pc, pending, loadedAny>>
      BY <2>1, <2>3
    <3>2. s \in Sources /\ s \in Named
      BY <2>1 DEF TypeOK, GivenInv
    <3>3. \A i \in DOMAIN inputs : inputs[i].at < s.at
      BY <2>1 DEF GivenInv
    <3>4. s \notin Loaded
      <4>1. s.at \in Nat
        BY <3>2, ShapesLoadingAssumption
           DEF Sources, File, Document, Remote, Paths, Iris
      <4>2. ~ (s.at < s.at)
        BY <4>1
      <4> QED
        BY <3>3, <4>2 DEF Loaded, Range
    <3>5. Loaded \subseteq Named
      BY <2>1 DEF GivenInv
    <3>6. EachSourceOnce' /\ GivenComeFirst' /\ NothingElseLoaded'
      BY <3>1, <3>2, <3>3, <3>4, <3>5, InputsGrow
    <3>7. TypeOK'
      BY <3>1, <3>2, AppendInput DEF TypeOK, outside
    <3>8. GivenInv'
      <4>1. Loaded' = Loaded \cup {s}
        BY <3>1, <3>2, AppendInput
      <4>2. Named' = Named
        BY <3>1 DEF outside, Named, GivenFiles
      <4>3. \A t \in given' : s.at < t.at
        <5> SUFFICES ASSUME NEW t \in given, t # s PROVE s.at < t.at
          BY <3>1
        <5>1. s.at <= t.at /\ s.at # t.at
          BY <2>1, <3>2 DEF GivenInv
        <5>2. s.at \in Nat /\ t.at \in Nat
          BY ShapesLoadingAssumption
             DEF TypeOK, Sources, File, Document, Remote, Paths, Iris
        <5> QED
          BY <5>1, <5>2
      <4>4. \A i \in DOMAIN inputs' : \A t \in given' : inputs'[i].at < t.at
        <5> SUFFICES ASSUME NEW i \in DOMAIN inputs', NEW t \in given'
                     PROVE  inputs'[i].at < t.at
          OBVIOUS
        <5>1. CASE i \in DOMAIN inputs
          <6>1. inputs'[i] = inputs[i]
            BY <5>1, <3>1, <3>2, AppendInput
          <6> QED
            BY <5>1, <6>1, <2>1, <3>1 DEF GivenInv
        <5>2. CASE i \notin DOMAIN inputs
          <6>1. inputs'[i] = s
            BY <5>2, <3>1, <3>2, AppendInput
          <6> QED
            BY <6>1, <4>3
        <5> QED
          BY <5>1, <5>2
      <4> QED
        BY <2>1, <3>1, <4>1, <4>2, <4>4 DEF GivenInv
    <3>9. PassInv' /\ ImportsAreClosed'
      BY <2>1, <3>1 DEF PassInv, ImportsAreClosed
    <3> QED
      BY <3>6, <3>7, <3>8, <3>9
  <2> QED
    BY <2>2, <2>3
<1>5. CASE GivenParsed
  <2> USE <1>5 DEF GivenParsed
  <2>1. /\ EachSourceOnce' /\ GivenComeFirst' /\ NothingElseLoaded'
        /\ Loaded' = Loaded
        /\ Named' = Named
    BY InputsKept
  <2>2. TypeOK'
    BY DEF TypeOK, outside
  <2>3. GivenInv' /\ PassInv' /\ ImportsAreClosed'
    BY <2>1 DEF GivenInv, PassInv, ImportsAreClosed
  <2> QED
    BY <2>1, <2>2, <2>3
<1>6. CASE BeginPass
  <2> USE <1>6 DEF BeginPass
  <2>1. /\ EachSourceOnce' /\ GivenComeFirst' /\ NothingElseLoaded'
        /\ Loaded' = Loaded
        /\ Named' = Named
    BY InputsKept
  <2>2. Loaded \subseteq Sources
    BY DEF TypeOK, Loaded, Range
  <2>3. TypeOK'
    BY <2>2, WorldType DEF TypeOK, outside
  <2>4. GivenInv' /\ ImportsAreClosed'
    BY <2>1 DEF GivenInv, ImportsAreClosed
  <2>5. PassInv'
    BY <2>1 DEF PassInv, outside
  <2> QED
    BY <2>1, <2>3, <2>4, <2>5
<1>7. CASE SkipImport
  <2>1. PICK iri \in pending : /\ IsLoaded(iri)
                               /\ pending' = pending \ {iri}
    BY <1>7 DEF SkipImport
  <2>2. pc = "imports" /\ UNCHANGED <<outside, pc, given, inputs, loadedAny>>
    BY <1>7 DEF SkipImport
  <2>3. /\ EachSourceOnce' /\ GivenComeFirst' /\ NothingElseLoaded'
        /\ Loaded' = Loaded
        /\ Named' = Named
    BY <2>2, InputsKept
  <2>4. TypeOK'
    BY <2>1, <2>2 DEF TypeOK, outside
  <2>5. GivenInv' /\ ImportsAreClosed'
    BY <2>2, <2>3 DEF GivenInv, ImportsAreClosed
  <2>6. \A other : IsLoaded(other) => IsLoaded(other)'
    BY <2>2, <2>3, StaysLoaded
  <2>7. PassInv'
    BY <2>1, <2>2, <2>3, <2>6 DEF PassInv, outside
  <2> QED
    BY <2>3, <2>4, <2>5, <2>7
<1>8. CASE ImportRefused
  BY <1>8, FailIInv DEF ImportRefused, Stops
<1>9. CASE FetchFails
  BY <1>9, FailIInv DEF FetchFails, Stops
<1>10. CASE ImportBroken
  BY <1>10, FailIInv DEF ImportBroken, Stops
<1>11. CASE LoadImport
  <2>1. PICK iri \in pending : /\ ~ IsLoaded(iri)
                               /\ ~ Refused(iri)
                               /\ inputs' = Append(inputs, Target(iri))
                               /\ pending' = pending \ {iri}
    BY <1>11 DEF LoadImport
  <2>2. /\ pc = "imports"
        /\ loadedAny' = "yes"
        /\ UNCHANGED <<outside, pc, given>>
    BY <1>11 DEF LoadImport
  <2>3. Target(iri) \in Sources \ Loaded /\ iri \in Iris
    BY <2>1, NewTarget DEF TypeOK
  <2>4. Named \subseteq Loaded
    BY <2>2 DEF GivenInv
  <2>5. \E source \in Loaded : iri \in world.imports[source]
    BY <2>1, <2>2 DEF PassInv
  <2>6. Target(iri).kind = "remote" => world.remotes = "allowed"
    BY <2>1, <2>3, WorldType DEF Refused, Target, File
  <2>7. EachSourceOnce' /\ GivenComeFirst' /\ NothingElseLoaded'
    BY <2>1, <2>2, <2>3, <2>4, <2>5, <2>6, InputsGrow
  <2>8. Loaded' = Loaded \cup {Target(iri)} /\ inputs' \in Seq(Sources)
    BY <2>1, <2>3, AppendInput
  <2>9. TypeOK'
    BY <2>1, <2>2, <2>8 DEF TypeOK, outside
  <2>10. Named' = Named
    BY <2>2 DEF outside, Named, GivenFiles
  <2>11. GivenInv' /\ ImportsAreClosed'
    BY <2>2, <2>4, <2>8, <2>10 DEF GivenInv, ImportsAreClosed
  <2>12. PassInv'
    BY <2>1, <2>2, <2>8 DEF PassInv, outside
  <2> QED
    BY <2>7, <2>9, <2>11, <2>12
<1>12. CASE EndPass
  <2> USE <1>12 DEF EndPass
  <2>1. /\ EachSourceOnce' /\ GivenComeFirst' /\ NothingElseLoaded'
        /\ Loaded' = Loaded
        /\ Named' = Named
    BY InputsKept
  <2>2. TypeOK'
    BY DEF TypeOK, outside, Stops
  <2>3. GivenInv' /\ PassInv'
    BY <2>1 DEF GivenInv, PassInv
  <2>4. \A iri : IsLoaded(iri) => IsLoaded(iri)'
    BY <2>1, StaysLoaded
  <2>5. ImportsAreClosed'
    BY <2>1, <2>4 DEF PassInv, ImportsAreClosed, TypeOK, outside
  <2> QED
    BY <2>1, <2>2, <2>3, <2>5
<1>13. CASE UNCHANGED vars
  <2>1. /\ EachSourceOnce' /\ GivenComeFirst' /\ NothingElseLoaded'
        /\ Loaded' = Loaded
        /\ Named' = Named
    BY <1>13, InputsKept DEF vars
  <2>2. \A iri : IsLoaded(iri) => IsLoaded(iri)'
    BY <1>13, <2>1, StaysLoaded DEF vars
  <2>3. TypeOK'
    BY <1>13 DEF TypeOK, vars, outside
  <2>4. GivenInv'
    BY <1>13, <2>1 DEF GivenInv, vars
  <2>5. PassInv' /\ ImportsAreClosed'
    BY <1>13, <2>1, <2>2 DEF PassInv, ImportsAreClosed, vars, outside
  <2> QED
    BY <2>1, <2>3, <2>4, <2>5
<1> QED
  BY <1>1, <1>2, <1>3, <1>4, <1>5, <1>6, <1>7, <1>8, <1>9, <1>10, <1>11, <1>12,
     <1>13 DEF Next

\* The inductive invariant holds of every reachable state of the loader.
THEOREM Invariance == SafeSpec => []IInv
BY InitIInv, NextIInv, PTL DEF SafeSpec

-----------------------------------------------------------------------------
\* Every variable keeps its type: no import leads to a source that does not exist.
THEOREM TypeCorrect == SafeSpec => []TypeOK
<1>1. IInv => TypeOK
  BY DEF IInv
<1> QED
  BY <1>1, Invariance, PTL

\* However the inputs import one another, by links, by several spellings or in
\* cycles, no source is parsed twice.
THEOREM LoadsOnce == SafeSpec => []EachSourceOnce
<1>1. IInv => EachSourceOnce
  BY DEF IInv
<1> QED
  BY <1>1, Invariance, PTL

\* A load that succeeds has followed every import of every input.
THEOREM Closed == SafeSpec => []ImportsAreClosed
<1>1. IInv => ImportsAreClosed
  BY DEF IInv
<1> QED
  BY <1>1, Invariance, PTL

\* Every input was given or imported by an earlier one, and remote ones only with
\* permission.
THEOREM NothingElse == SafeSpec => []NothingElseLoaded
<1>1. IInv => NothingElseLoaded
  BY DEF IInv
<1> QED
  BY <1>1, Invariance, PTL

\* The given inputs are parsed first and in path order.
THEOREM GivenFirst == SafeSpec => []GivenComeFirst
<1>1. IInv => GivenComeFirst
  BY DEF IInv
<1> QED
  BY <1>1, Invariance, PTL

\* A load that succeeds has the given inputs and all they import, every source once, and
\* nothing else.
THEOREM LoadsImportClosure == SafeSpec => []LoadedIsImportClosure
<1>1. EachSourceOnce /\ ImportsAreClosed /\ NothingElseLoaded => LoadedIsImportClosure
  BY DEF LoadedIsImportClosure
<1> QED
  BY <1>1, LoadsOnce, Closed, NothingElse, PTL
=============================================================================
