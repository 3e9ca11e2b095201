------------------------- MODULE CompileRules_proofs -------------------------
(***************************************************************************)
(* What the compiler writes, for any shapes, rules, edits and failures:    *)
(* nothing before every phase and every rule went well, the two files of   *)
(* one compilation, and a manifest with every rule under an id and a name  *)
(* of its own, which it keeps from one compilation to the next.  And what  *)
(* it reads: everything that the shapes graph says, or a problem.          *)
(***************************************************************************)
EXTENDS CompileRules, SequenceTheorems, FiniteSetTheorems, NaturalsInduction,
        WellFoundedInduction, TLAPS

Before(phase) == {Phases[j] : j \in 1 .. phase}

Writing == {"create", "truncate manifest", "write manifest", "truncate cypher",
            "write cypher"}

\* Where the compiler is, and what the program counter, the directory and the
\* sequences are.
TypeOK ==
    /\ pc \in {"request", "load", "ontologies", "shapes", "hierarchy", "lower",
               "mismatches", "naming", "rendering", "failed", "done"} \cup Writing
    /\ request \in Request
    /\ rules \in Seq(Candidates)
    /\ entries \in Seq(Range(entries))
    /\ dir = [manifest |-> dir.manifest, cypher |-> dir.cypher]

\* A phase that is behind the compiler found nothing wrong.
PhasesPassed ==
    /\ pc \notin {"request", "failed"} =>
          /\ request.shapes
          /\ request.schema # "invalid"
          /\ request.ladybug => request.schema = "valid"
    /\ pc \notin {"request", "load", "failed"} => request.fails # "load"
    /\ pc \notin {"request", "load", "ontologies", "failed"} =>
          request.fails # "ontologies"
    /\ pc \notin {"request", "load", "ontologies", "shapes", "failed"} => ast # Refused
    /\ pc \notin {"request", "load", "ontologies", "shapes", "hierarchy", "failed"} =>
          request.fails # "hierarchy"
    /\ pc \notin {"request", "load", "ontologies", "shapes", "hierarchy", "lower",
                  "failed"} => request.fails # "lower"
    /\ pc \in {"naming", "rendering", "done"} \cup Writing =>
          (request.fails = "mismatches" => ~ request.failOnMismatch)

\* The render loop has made one entry for each rule behind it, and what is written
\* had no error.
LoopInv ==
    /\ pc \in Range(Phases) => entries = <<>>
    /\ pc = "rendering" => Len(entries) <= Len(rules)
    /\ pc \in Writing => errors = {} /\ Len(entries) = Len(rules)

\* The manifest in the directory is the one that queries.cypher will belong to.
FilesInv ==
    pc \in {"truncate cypher", "write cypher"} => dir.manifest = File(previous)

\* The inductive invariant.
IInv == TypeOK /\ PhasesPassed /\ LoopInv /\ FilesInv

-----------------------------------------------------------------------------
(* The sequences.                                                          *)

LEMMA PhaseNames ==
  /\ Len(Phases) = 8
  /\ Phases[1] = "request" /\ Phases[2] = "load" /\ Phases[3] = "ontologies"
  /\ Phases[4] = "shapes" /\ Phases[5] = "hierarchy" /\ Phases[6] = "lower"
  /\ Phases[7] = "mismatches" /\ Phases[8] = "naming"
  /\ Range(Phases) = {"request", "load", "ontologies", "shapes", "hierarchy", "lower",
                      "mismatches", "naming"}
<1>1. Len(Phases) = 8 /\ DOMAIN Phases = 1 .. 8
  BY DEF Phases
<1>2. /\ Phases[1] = "request" /\ Phases[2] = "load" /\ Phases[3] = "ontologies"
      /\ Phases[4] = "shapes" /\ Phases[5] = "hierarchy" /\ Phases[6] = "lower"
      /\ Phases[7] = "mismatches" /\ Phases[8] = "naming"
  BY DEF Phases
<1>3. 1 .. 8 = {1, 2, 3, 4, 5, 6, 7, 8}
  OBVIOUS
<1> QED
  BY <1>1, <1>2, <1>3 DEF Range

\* A sequence is one over the elements that it has, also when it gets another.
LEMMA OneMore ==
  ASSUME NEW s, s \in Seq(Range(s)), NEW e
  PROVE  /\ Append(s, e) \in Seq(Range(Append(s, e)))
         /\ Len(Append(s, e)) = Len(s) + 1
<1> DEFINE S == Range(s) \cup {e}
           t == Append(s, e)
<1>1. s \in Seq(S) /\ e \in S
  BY SeqDef
<1>2. t \in Seq(S) /\ Len(t) = Len(s) + 1
  BY <1>1, AppendProperties
<1>3. \A i \in 1 .. Len(t) : t[i] \in Range(t)
  BY <1>2 DEF Range
<1>4. t \in Seq(Range(t))
  BY <1>2, <1>3, IsASeq
<1> QED
  BY <1>2, <1>4

\* Whatever an author does to the shapes files, rules come of it.
LEMMA EditsKeepRules ==
  ASSUME rules \in Seq(Candidates), EditRules
  PROVE  rules' \in Seq(Candidates)
<1>1. ASSUME NEW r \in Candidates, NEW i \in 1 .. Len(rules) + 1,
             rules' = InsertAt(rules, i, r)
      PROVE  rules' \in Seq(Candidates)
  <2>1. SubSeq(rules, 1, i - 1) \in Seq(Candidates)
    BY <1>1, SubSeqProperties
  <2>2. SubSeq(rules, i, Len(rules)) \in Seq(Candidates)
    BY <1>1, SubSeqProperties
  <2> QED
    BY <1>1, <2>1, <2>2 DEF InsertAt
<1>2. ASSUME NEW i \in DOMAIN rules, rules' = RemoveAt(rules, i)
      PROVE  rules' \in Seq(Candidates)
  <2>1. SubSeq(rules, 1, i - 1) \in Seq(Candidates)
    BY <1>2, SubSeqProperties
  <2>2. SubSeq(rules, i + 1, Len(rules)) \in Seq(Candidates)
    BY <1>2, SubSeqProperties
  <2> QED
    BY <1>2, <2>1, <2>2 DEF RemoveAt
<1>3. ASSUME rules' = Reverse(rules)
      PROVE  rules' \in Seq(Candidates)
  BY <1>3 DEF Reverse
<1> QED
  BY <1>1, <1>2, <1>3 DEF EditRules

-----------------------------------------------------------------------------
(* The inductive invariant.                                                *)

LEMMA InitInv ==
  ASSUME Init PROVE IInv
<1>1. PICK c \in Compilations : request = c[1] /\ graph = c[2] /\ rules = c[3]
  BY DEF Init
<1>2. request \in Request /\ rules \in Seq(Candidates)
  BY <1>1, CompilationsAssumption
<1>3. entries \in Seq(Range(entries)) /\ entries = <<>>
  BY DEF Init
<1>4. TypeOK
  BY <1>2, <1>3 DEF Init, TypeOK
<1>5. PhasesPassed /\ LoopInv /\ FilesInv
  BY <1>3 DEF Init, PhasesPassed, LoopInv, FilesInv, Writing
<1> QED
  BY <1>4, <1>5 DEF IInv

\* A phase goes on to the next or ends the compilation.
LEMMA PhaseInv ==
  ASSUME IInv, Phase PROVE IInv'
<1>1. PICK i \in 1 .. Len(Phases) - 1 :
        /\ pc = Phases[i]
        /\ IF Faulty(pc) THEN pc' = "failed" /\ errors' = {<<pc>>}
           ELSE pc' = Phases[i + 1] /\ UNCHANGED errors
        /\ IF pc = "shapes" THEN Parse ELSE UNCHANGED <<graph, ast>>
        /\ UNCHANGED <<request, rules, line, edits, namings, entries, indexes,
                       dir, previous>>
  BY DEF Phase
<1>2. i \in {1, 2, 3, 4, 5, 6, 7}
  BY PhaseNames
<1>3. pc \in Range(Phases) /\ pc \notin Writing /\ pc \notin {"rendering", "failed", "done"}
  BY <1>1, <1>2, PhaseNames DEF Writing
<1>4. entries = <<>> /\ entries' = <<>>
  BY <1>1, <1>3 DEF IInv, LoopInv
<1>5. pc' \in Range(Phases) \cup {"failed"}
  BY <1>1, <1>2, PhaseNames
<1>6. TypeOK'
  BY <1>1, <1>5, PhaseNames DEF IInv, TypeOK
<1>7. LoopInv' /\ FilesInv'
  BY <1>4, <1>5, PhaseNames DEF LoopInv, FilesInv, Writing
<1>8. PhasesPassed'
  <2>1. CASE Faulty(pc)
    BY <1>1, <2>1 DEF PhasesPassed, Writing
  <2> SUFFICES ASSUME ~ Faulty(pc)
               PROVE  PhasesPassed'
    BY <2>1
  <2>2. /\ request' = request /\ pc' = Phases[i + 1] /\ request \in Request
        /\ pc # "shapes" => ast' = ast
    BY <1>1 DEF IInv, TypeOK
  <2>3. request.schema \in {"none", "valid", "invalid"}
    BY <2>2 DEF Request
  <2>4. PhasesPassed
    BY DEF IInv
  <2>5. CASE i = 1
    <3>1. pc = "request" /\ pc' = "load"
      BY <1>1, <2>2, <2>5, PhaseNames
    <3>2. request.shapes /\ request.schema # "invalid"
            /\ (request.ladybug => request.schema = "valid")
      BY <2>3, <3>1 DEF Faulty
    <3> QED
      BY <2>2, <2>4, <3>1, <3>2 DEF PhasesPassed, Writing
  <2>6. CASE i = 2
    <3>1. pc = "load" /\ pc' = "ontologies"
      BY <1>1, <2>2, <2>6, PhaseNames
    <3>2. request.fails # "load"
      BY <2>3, <3>1 DEF Faulty
    <3> QED
      BY <2>2, <2>4, <3>1, <3>2 DEF PhasesPassed, Writing
  <2>7. CASE i = 3
    <3>1. pc = "ontologies" /\ pc' = "shapes"
      BY <1>1, <2>2, <2>7, PhaseNames
    <3>2. request.fails # "ontologies"
      BY <2>3, <3>1 DEF Faulty
    <3> QED
      BY <2>2, <2>4, <3>1, <3>2 DEF PhasesPassed, Writing
  <2>8. CASE i = 4
    <3>1. pc = "shapes" /\ pc' = "hierarchy"
      BY <1>1, <2>2, <2>8, PhaseNames
    <3>2. PICK shapes \in BuiltShapes : ast' = <<"shapes", Shapes(shapes)>>
      <4>1. Problems = {} /\ Parse
        BY <1>1, <3>1 DEF Faulty
      <4> QED
        BY <4>1 DEF Parse
    <3>3. ast' # Refused
      BY <3>2 DEF Refused
    <3> QED
      BY <2>2, <2>4, <3>1, <3>3 DEF PhasesPassed, Writing
  <2>9. CASE i = 5
    <3>1. pc = "hierarchy" /\ pc' = "lower"
      BY <1>1, <2>2, <2>9, PhaseNames
    <3>2. request.fails # "hierarchy"
      BY <2>3, <3>1 DEF Faulty
    <3> QED
      BY <2>2, <2>4, <3>1, <3>2 DEF PhasesPassed, Writing
  <2>10. CASE i = 6
    <3>1. pc = "lower" /\ pc' = "mismatches"
      BY <1>1, <2>2, <2>10, PhaseNames
    <3>2. request.fails # "lower"
      BY <2>3, <3>1 DEF Faulty
    <3> QED
      BY <2>2, <2>4, <3>1, <3>2 DEF PhasesPassed, Writing
  <2>11. CASE i = 7
    <3>1. pc = "mismatches" /\ pc' = "naming"
      BY <1>1, <2>2, <2>11, PhaseNames
    <3>2. (request.fails = "mismatches" => ~ request.failOnMismatch)
      BY <2>3, <3>1 DEF Faulty
    <3> QED
      BY <2>2, <2>4, <3>1, <3>2 DEF PhasesPassed, Writing
  <2> QED
    BY <1>2, <2>5, <2>6, <2>7, <2>8, <2>9, <2>10, <2>11
<1> QED
  BY <1>6, <1>7, <1>8 DEF IInv

\* One turn of the loop makes one entry.
LEMMA RenderInv ==
  ASSUME IInv, RenderRule PROVE IInv'
<1>1. PICK e : entries' = Append(entries, e)
  BY DEF RenderRule
<1>2. /\ pc = "rendering" /\ pc' = pc /\ Len(entries) + 1 \in DOMAIN rules
      /\ UNCHANGED <<request, graph, ast, rules, line, edits, dir, previous>>
  BY DEF RenderRule, sourceVars, Current
<1>3. entries' \in Seq(Range(entries')) /\ Len(entries') = Len(entries) + 1
  BY <1>1, OneMore DEF IInv, TypeOK
<1>4. Len(entries') <= Len(rules)
  BY <1>2, <1>3 DEF IInv, TypeOK
<1>5. TypeOK'
  BY <1>2, <1>3 DEF IInv, TypeOK
<1>6. PhasesPassed'
  BY <1>2 DEF IInv, PhasesPassed
<1>7. LoopInv' /\ FilesInv'
  BY <1>2, <1>4, PhaseNames DEF LoopInv, FilesInv, Writing
<1> QED
  BY <1>5, <1>6, <1>7 DEF IInv

\* The loop ends when no rule is left.
LEMMA FinishInv ==
  ASSUME IInv, FinishManifest PROVE IInv'
<1>1. /\ pc = "rendering" /\ Len(entries) + 1 \notin DOMAIN rules
      /\ pc' \in {"create", "failed"}
      /\ pc' = "create" => errors = {}
      /\ UNCHANGED <<request, graph, ast, rules, line, edits, entries, errors, dir>>
  BY DEF FinishManifest, sourceVars, Current
<1>2. Len(entries) = Len(rules)
  BY <1>1 DEF IInv, TypeOK, LoopInv
<1>3. TypeOK'
  BY <1>1 DEF IInv, TypeOK, Writing
<1>4. PhasesPassed'
  BY <1>1 DEF IInv, PhasesPassed, Writing
<1>5. LoopInv' /\ FilesInv'
  BY <1>1, <1>2, PhaseNames DEF LoopInv, FilesInv, Writing
<1> QED
  BY <1>3, <1>4, <1>5 DEF IInv

\* The five steps that write: each leaves the directory a directory and ends the
\* compilation or goes on to the next.
LEMMA WriteInv ==
  ASSUME IInv,
         \/ CreateDir \/ TruncateManifest \/ WriteManifest
         \/ TruncateCypher \/ WriteCypher
  PROVE  IInv'
<1>1. /\ pc \in Writing /\ pc' \in Writing \cup {"failed", "done"}
      /\ UNCHANGED <<request, graph, ast, rules, line, edits, entries, errors, previous>>
  BY DEF CreateDir, TruncateManifest, WriteManifest, TruncateCypher, WriteCypher,
         Truncate, Write, sourceVars, Writing
<1>2. dir = [manifest |-> dir.manifest, cypher |-> dir.cypher]
  BY DEF IInv, TypeOK
<1>3. dir' = [manifest |-> dir'.manifest, cypher |-> dir'.cypher]
  BY <1>2 DEF CreateDir, TruncateManifest, WriteManifest, TruncateCypher, WriteCypher,
              Truncate, Write
<1>4. TypeOK'
  BY <1>1, <1>3 DEF IInv, TypeOK
<1>5. PhasesPassed'
  BY <1>1 DEF IInv, PhasesPassed, Writing
<1>6. LoopInv'
  BY <1>1, PhaseNames DEF IInv, LoopInv, Writing
<1>7. FilesInv'
  <2>1. CASE CreateDir
    BY <2>1 DEF CreateDir, FilesInv
  <2>2. CASE TruncateManifest
    BY <2>2 DEF TruncateManifest, Truncate, FilesInv
  <2>3. CASE WriteManifest
    BY <1>2, <2>3 DEF WriteManifest, Write, FilesInv
  <2>4. CASE TruncateCypher
    BY <1>2, <2>4 DEF TruncateCypher, Truncate, IInv, FilesInv
  <2>5. CASE WriteCypher
    BY <2>5 DEF WriteCypher, Write, FilesInv
  <2> QED
    BY <2>1, <2>2, <2>3, <2>4, <2>5
<1> QED
  BY <1>4, <1>5, <1>6, <1>7 DEF IInv

\* An edit starts the compiler afresh, on the files that were there.
LEMMA EditInv ==
  ASSUME IInv, Edit PROVE IInv'
<1>1. /\ pc' = "request" /\ entries' = <<>>
      /\ UNCHANGED <<request, ast, dir, previous>>
      /\ EditRules \/ rules' = rules
  BY DEF Edit
<1>2. rules' \in Seq(Candidates)
  BY <1>1, EditsKeepRules DEF IInv, TypeOK
<1>3. TypeOK'
  BY <1>1, <1>2 DEF IInv, TypeOK
<1>4. PhasesPassed'
  BY <1>1 DEF PhasesPassed, Writing
<1>5. LoopInv' /\ FilesInv'
  BY <1>1 DEF LoopInv, FilesInv, Writing
<1> QED
  BY <1>3, <1>4, <1>5 DEF IInv

LEMMA NamingInv ==
  ASSUME IInv, AssignNames PROVE IInv'
<1>1. /\ pc = "naming" /\ pc' \in {"rendering", "failed"}
      /\ UNCHANGED <<request, graph, ast, rules, line, edits, entries, dir, previous>>
  BY DEF AssignNames, sourceVars
<1>2. entries = <<>> /\ Len(entries) = 0
  BY <1>1, PhaseNames DEF IInv, LoopInv
<1>3. TypeOK'
  BY <1>1 DEF IInv, TypeOK
<1>4. PhasesPassed'
  BY <1>1 DEF IInv, PhasesPassed, Writing
<1>5. Len(rules) \in Nat
  BY DEF IInv, TypeOK
<1>6. Len(entries') <= Len(rules')
  BY <1>1, <1>2, <1>5
<1>7. LoopInv' /\ FilesInv'
  BY <1>1, <1>6, PhaseNames DEF LoopInv, FilesInv, Writing
<1> QED
  BY <1>3, <1>4, <1>7 DEF IInv

\* Every step keeps the invariant.
LEMMA StepInv ==
  ASSUME IInv, [Next]_vars PROVE IInv'
<1>1. CASE Next
  BY <1>1, PhaseInv, NamingInv, RenderInv, FinishInv, WriteInv, EditInv
  DEF Next, CompilerStep
<1>2. CASE UNCHANGED vars
  BY <1>2 DEF vars, sourceVars, IInv, TypeOK, PhasesPassed, LoopInv, FilesInv
<1> QED
  BY <1>1, <1>2

\* The phases, the loop and the files fit each other in every state, whatever is
\* compiled, edited and compiled again.
THEOREM Invariance == Spec => []IInv
<1>1. Init => IInv
  BY InitInv
<1>2. IInv /\ [Next]_vars => IInv'
  BY StepInv
<1> QED
  BY <1>1, <1>2, PTL DEF Spec

THEOREM TypeCorrect == Spec => []TypeOK
<1>1. IInv => TypeOK
  BY DEF IInv
<1> QED
  BY <1>1, Invariance, PTL

-----------------------------------------------------------------------------
(* The output.                                                             *)

\* Only the five steps that write change the directory.
LEMMA OnlyWriting ==
  ASSUME IInv, [Next]_vars, dir' # dir
  PROVE  pc \in Writing
<1>1. Next
  BY DEF vars
<1>2. \/ CreateDir \/ TruncateManifest \/ WriteManifest
      \/ TruncateCypher \/ WriteCypher
  BY <1>1 DEF Next, CompilerStep, Phase, AssignNames, RenderRule, FinishManifest, Edit
<1> QED
  BY <1>2 DEF CreateDir, TruncateManifest, WriteManifest, TruncateCypher, WriteCypher,
              Writing

\* The last file completes the compilation.
LEMMA DoneIsComplete ==
  ASSUME IInv, [Next]_vars, pc' = "done", pc # "done"
  PROVE  dir' = [manifest |-> File(previous), cypher |-> File(CypherFile(previous))]
<1>1. Next
  BY DEF vars
<1>2. ~ Phase
  <2> SUFFICES ASSUME Phase
               PROVE  FALSE
    OBVIOUS
  <2>1. PICK i \in 1 .. Len(Phases) - 1 : pc' = "failed" \/ pc' = Phases[i + 1]
    BY DEF Phase
  <2>2. i \in {1, 2, 3, 4, 5, 6, 7}
    BY PhaseNames
  <2> QED
    BY <2>1, <2>2, PhaseNames
<1>3. WriteCypher
  BY <1>1, <1>2 DEF Next, CompilerStep, AssignNames, RenderRule, FinishManifest, Edit,
                    CreateDir, TruncateManifest, WriteManifest, TruncateCypher,
                    Truncate, Write
<1>4. dir' = [dir EXCEPT !["cypher"] = File(CypherFile(previous))]
  BY <1>3 DEF WriteCypher, Write
<1>5. dir.manifest = File(previous)
  BY <1>3 DEF WriteCypher, IInv, FilesInv
<1>6. dir = [manifest |-> dir.manifest, cypher |-> dir.cypher]
  BY DEF IInv, TypeOK
<1> QED
  BY <1>4, <1>5, <1>6

\* For any requests, rules, edits and failures: nothing is written unless every
\* phase and every rule went well, and a success leaves the two files of one
\* compilation, each complete.
THEOREM OneCompilation == Spec => OutputIsOfOneCompilation
<1>1. ASSUME IInv, [Next]_vars, dir' # dir
      PROVE  /\ errors = {} /\ Len(entries) = Len(rules)
             /\ request.shapes /\ request.schema # "invalid"
             /\ request.ladybug => request.schema = "valid"
             /\ request.fails = "mismatches" => ~ request.failOnMismatch
             /\ request.fails \in {"none", "mismatches"}
             /\ ast # Refused
  <2>1. pc \in Writing
    BY <1>1, OnlyWriting
  <2>2. errors = {} /\ Len(entries) = Len(rules)
    BY <1>1, <2>1 DEF IInv, LoopInv
  <2>3. request.fails \in {"none", "load", "ontologies", "hierarchy", "lower", "mismatches"}
    BY <1>1 DEF IInv, TypeOK, Request
  <2>4. PhasesPassed
    BY <1>1 DEF IInv
  <2> QED
    BY <2>1, <2>2, <2>3, <2>4 DEF PhasesPassed, Writing
<1>2. IInv /\ [Next]_vars =>
        [/\ dir' # dir => /\ errors = {} /\ Len(entries) = Len(rules)
                          /\ request.shapes /\ request.schema # "invalid"
                          /\ request.ladybug => request.schema = "valid"
                          /\ request.fails = "mismatches" => ~ request.failOnMismatch
                          /\ request.fails \in {"none", "mismatches"}
                          /\ ast # Refused
         /\ pc' = "done" /\ pc # "done" =>
              dir' = [manifest |-> File(previous), cypher |-> File(CypherFile(previous))]]_vars
  BY <1>1, DoneIsComplete
<1> QED
  BY <1>2, Invariance, PTL DEF Spec, OutputIsOfOneCompilation

-----------------------------------------------------------------------------
(* Texts.                                                                  *)

LEMMA LeastNat ==
  ASSUME NEW T, T \subseteq Nat, T # {}
  PROVE  \E m \in T : \A k \in T : m <= k
<1> DEFINE R == {ss \in Nat \X Nat : ss[1] < ss[2]}
<1>1. IsWellFoundedOn(R, Nat)
  BY NatLessThanWellFounded DEF OpToRel
<1> HIDE DEF R
<1>2. PICK m \in T : \A k \in T : ~ (<<k, m>> \in R)
  BY <1>1, WFMin
<1>3. \A k \in T : ~ (k < m)
  BY <1>2 DEF R
<1> QED
  BY <1>3

Text == Seq(Nat)

\* What joining k segments gives, from what joining one less gave.
JoinedTo(segments, text, k) ==
  text[k] = IF k = 0 THEN <<>>
            ELSE IF k = 1 THEN segments[1]
            ELSE text[k - 1] \o <<Slash>> \o segments[k]

LEMMA JoinedToText ==
  ASSUME NEW s \in Seq(Text), NEW f, NEW k \in 1 .. Len(s), JoinedTo(s, f, k),
         f[k - 1] \in Text
  PROVE  f[k] \in Text
<1>1. s[k] \in Text
  OBVIOUS
<1>2. CASE k = 1
  BY <1>1, <1>2 DEF JoinedTo
<1>3. CASE k # 1
  <2>1. <<Slash>> \in Text
    BY DEF Text, Slash
  <2>2. f[k - 1] \o <<Slash>> \in Text
    BY <2>1 DEF Text
  <2>3. (f[k - 1] \o <<Slash>>) \o s[k] \in Text
    BY <1>1, <2>2 DEF Text
  <2> QED
    BY <1>3, <2>3 DEF JoinedTo
<1> QED
  BY <1>2, <1>3

Joins(s, f, m) == f \in [0 .. m -> Text] /\ \A k \in 0 .. m : JoinedTo(s, f, k)

Joinable(s, m) == \E f : Joins(s, f, m)

\* The recursion of Joined defines texts for any number of segments.
LEMMA JoinsOneMore ==
  ASSUME NEW s \in Seq(Text), NEW j \in Nat, j + 1 <= Len(s), Joinable(s, j)
  PROVE  Joinable(s, j + 1)
<1>1. PICK f : Joins(s, f, j)
  BY DEF Joinable
<1> DEFINE last == IF j = 0 THEN s[1] ELSE f[j] \o <<Slash>> \o s[j + 1]
           g == [k \in 0 .. j + 1 |-> IF k = j + 1 THEN last ELSE f[k]]
<1>2. g[j + 1] = last
  BY DEF g
<1>3. \A k \in 0 .. j : g[k] = f[k]
  <2> TAKE k \in 0 .. j
  <2>1. k \in 0 .. j + 1 /\ k # j + 1
    OBVIOUS
  <2> QED
    BY <2>1 DEF g
<1>4. DOMAIN g = 0 .. j + 1 /\ g = [k \in 0 .. j + 1 |-> g[k]]
  BY DEF g
<1> HIDE DEF g
<1>5. JoinedTo(s, g, j + 1)
  <2>1. j + 1 # 0 /\ (j + 1 = 1 <=> j = 0) /\ (j + 1) - 1 = j /\ g[j] = f[j]
    BY <1>3
  <2> QED
    BY <1>2, <2>1 DEF JoinedTo
<1>6. ASSUME NEW k \in 0 .. j
      PROVE  JoinedTo(s, g, k) /\ g[k] \in Text
  <2>1. JoinedTo(s, f, k) /\ f[k] \in Text
    BY <1>1 DEF Joins
  <2>2. g[k] = f[k] /\ (k # 0 => g[k - 1] = f[k - 1])
    BY <1>3
  <2> QED
    BY <2>1, <2>2 DEF JoinedTo
<1>7. g[j + 1] \in Text
  <2>1. j + 1 \in 1 .. Len(s) /\ (j + 1) - 1 = j /\ g[j] \in Text
    BY <1>6
  <2> QED
    BY <1>5, <2>1, JoinedToText
<1>8. \A k \in 0 .. j + 1 : k \in 0 .. j \/ k = j + 1
  OBVIOUS
<1>9. g \in [0 .. j + 1 -> Text] /\ \A k \in 0 .. j + 1 : JoinedTo(s, g, k)
  BY <1>4, <1>5, <1>6, <1>7, <1>8
<1> QED
  BY <1>9 DEF Joins, Joinable

LEMMA JoinedExists ==
  ASSUME NEW s \in Seq(Text), NEW n \in Nat, n <= Len(s)
  PROVE  Joinable(s, n)
<1> DEFINE T == {m \in Nat : m <= n /\ ~ Joinable(s, m)}
<1> SUFFICES ASSUME T # {} PROVE FALSE
  OBVIOUS
<1>1. PICK m \in T : \A k \in T : m <= k
  BY LeastNat
<1>2. m # 0
  <2>1. Joins(s, [k \in 0 .. 0 |-> <<>>], 0)
    BY DEF Joins, JoinedTo, Text
  <2> QED
    BY <1>1, <2>1 DEF Joinable
<1>3. PICK j \in Nat : m = j + 1
  BY <1>1, <1>2
<1>4. Len(s) \in Nat
  OBVIOUS
<1>5. j <= n /\ j < m /\ m <= Len(s)
  BY <1>1, <1>3, <1>4
<1>6. Joinable(s, j)
  BY <1>1, <1>5
<1>7. Joinable(s, m)
  BY <1>3, <1>5, <1>6, JoinsOneMore
<1> QED
  BY <1>1, <1>7

LEMMA JoinedIsText ==
  ASSUME NEW s \in Seq(Text)
  PROVE  Joined(s) \in Text
<1> DEFINE Rec(f) == f = [k \in 0 .. Len(s) |->
                            IF k = 0 THEN <<>>
                            ELSE IF k = 1 THEN s[1]
                            ELSE f[k - 1] \o <<Slash>> \o s[k]]
           h == CHOOSE f : Rec(f)
<1>1. Joined(s) = h[Len(s)]
  BY DEF Joined
<1>2. PICK f : Joins(s, f, Len(s))
  BY JoinedExists DEF Joinable
<1>3. Rec(f)
  BY <1>2 DEF Joins, JoinedTo
<1>4. Rec(h)
  BY <1>3
<1>5. \A k \in 0 .. Len(s) : JoinedTo(s, h, k)
  BY <1>4 DEF JoinedTo
<1> HIDE DEF h
<1> DEFINE T == {k \in Nat : k <= Len(s) /\ h[k] \notin Text}
<1>6. Len(s) \in Nat
  OBVIOUS
<1>7. SUFFICES ASSUME T # {} PROVE FALSE
  BY <1>1, <1>6
<1>8. PICK m \in T : \A k \in T : m <= k
  <2>1. T \subseteq Nat
    OBVIOUS
  <2> HIDE DEF T
  <2> QED
    BY <1>7, <2>1, LeastNat
<1>9. m \in Nat /\ m <= Len(s) /\ h[m] \notin Text /\ JoinedTo(s, h, m)
  BY <1>5, <1>6, <1>8
<1>10. m # 0
  BY <1>9 DEF JoinedTo, Text
<1>11. m - 1 \in Nat /\ m - 1 <= Len(s) /\ m - 1 < m /\ m \in 1 .. Len(s)
  BY <1>6, <1>9, <1>10
<1>12. m - 1 \notin T
  BY <1>8, <1>9, <1>11
<1>13. h[m - 1] \in Text
  BY <1>11, <1>12
<1> QED
  BY <1>9, <1>11, <1>13, JoinedToText

-----------------------------------------------------------------------------
(* The order of texts, and sorting by it.                                  *)

LEMMA PrecedesIrreflexive ==
  ASSUME NEW a \in Text
  PROVE  ~ Precedes(a, a)
BY DEF Precedes, Text

LEMMA PrecedesTransitive ==
  ASSUME NEW a \in Text, NEW b \in Text, NEW c \in Text,
         Precedes(a, b), Precedes(b, c)
  PROVE  Precedes(a, c)
<1>1. PICK k \in 1 .. Len(b) : /\ \A i \in 1 .. k - 1 : i <= Len(a) /\ a[i] = b[i]
                               /\ k <= Len(a) => a[k] < b[k]
  BY DEF Precedes
<1>2. PICK l \in 1 .. Len(c) : /\ \A i \in 1 .. l - 1 : i <= Len(b) /\ b[i] = c[i]
                               /\ l <= Len(b) => b[l] < c[l]
  BY DEF Precedes
<1>3. Len(a) \in Nat /\ Len(b) \in Nat /\ Len(c) \in Nat
  BY DEF Text
<1>4. \A i \in Nat : /\ i >= 1 /\ i <= Len(a) => a[i] \in Nat
                     /\ i >= 1 /\ i <= Len(b) => b[i] \in Nat
                     /\ i >= 1 /\ i <= Len(c) => c[i] \in Nat
  BY DEF Text
<1> DEFINE m == IF k < l THEN k ELSE l
<1>5. m \in 1 .. Len(c)
  BY <1>1, <1>2, <1>3
<1>6. ASSUME NEW i \in 1 .. m - 1
      PROVE  i <= Len(a) /\ a[i] = c[i]
  <2>1. i \in 1 .. k - 1 /\ i \in 1 .. l - 1
    BY <1>1, <1>2, <1>3
  <2> QED
    BY <1>1, <1>2, <2>1
<1>7. ASSUME m <= Len(a)
      PROVE  a[m] < c[m]
  <2>1. CASE k < l
    <3>1. k \in 1 .. l - 1 /\ k <= Len(a)
      BY <1>1, <1>2, <1>3, <1>7, <2>1
    <3>2. b[k] = c[k] /\ a[k] < b[k]
      BY <1>1, <1>2, <3>1
    <3> QED
      BY <2>1, <3>2
  <2>2. CASE l < k
    <3>1. l \in 1 .. k - 1 /\ l <= Len(b)
      BY <1>1, <1>2, <1>3, <2>2
    <3>2. a[l] = b[l] /\ b[l] < c[l]
      BY <1>1, <1>2, <3>1
    <3>3. m = l
      BY <1>1, <1>2, <1>3, <2>2
    <3> QED
      BY <3>2, <3>3
  <2>3. CASE k = l
    <3>1. m = k /\ k <= Len(b)
      BY <1>1, <2>3
    <3>2. a[k] < b[k] /\ b[k] < c[k]
      BY <1>1, <1>2, <1>7, <2>3, <3>1
    <3>3. k \in Nat /\ k >= 1 /\ k <= Len(a) /\ k <= Len(c)
      BY <1>1, <1>2, <1>3, <1>7, <2>3, <3>1
    <3>4. a[k] \in Nat /\ b[k] \in Nat /\ c[k] \in Nat
      BY <1>4, <3>1, <3>3
    <3>5. a[k] < c[k]
      BY <3>2, <3>4
    <3> QED
      BY <3>1, <3>5
  <2>4. k < l \/ l < k \/ k = l
    BY <1>1, <1>2, <1>3
  <2> QED
    BY <2>1, <2>2, <2>3, <2>4
<1> HIDE DEF m
<1> QED
  BY <1>5, <1>6, <1>7 DEF Precedes

LEMMA PrecedesTotal ==
  ASSUME NEW a \in Text, NEW b \in Text, a # b
  PROVE  Precedes(a, b) \/ Precedes(b, a)
<1> DEFINE Same(i) == i <= Len(a) /\ i <= Len(b) /\ a[i] = b[i]
           T == {i \in Nat : i >= 1 /\ (i <= Len(a) \/ i <= Len(b)) /\ ~ Same(i)}
<1>1. Len(a) \in Nat /\ Len(b) \in Nat
  BY DEF Text
<1>2. T # {}
  <2> SUFFICES ASSUME T = {} PROVE FALSE
    OBVIOUS
  <2>1. \A i \in Nat : i >= 1 /\ (i <= Len(a) \/ i <= Len(b)) => Same(i)
    OBVIOUS
  <2>2. Len(a) = Len(b)
    <3>1. CASE Len(a) < Len(b)
      <4>1. Same(Len(b))
        BY <1>1, <2>1, <3>1
      <4> QED
        BY <1>1, <3>1, <4>1
    <3>2. CASE Len(b) < Len(a)
      <4>1. Same(Len(a))
        BY <1>1, <2>1, <3>2
      <4> QED
        BY <1>1, <3>2, <4>1
    <3> QED
      BY <1>1, <3>1, <3>2
  <2>3. \A i \in 1 .. Len(a) : a[i] = b[i]
    BY <1>1, <2>1
  <2>4. a = b
    BY <2>2, <2>3, SeqEqual DEF Text
  <2> QED
    BY <2>4
<1>3. PICK m \in T : \A k \in T : m <= k
  <2>1. T \subseteq Nat
    OBVIOUS
  <2> HIDE DEF T
  <2> QED
    BY <1>2, <2>1, LeastNat
<1>4. m \in Nat /\ m >= 1 /\ (m <= Len(a) \/ m <= Len(b)) /\ ~ Same(m)
  BY <1>3
<1>5. ASSUME NEW i \in 1 .. m - 1
      PROVE  Same(i)
  <2>1. i \in Nat /\ i >= 1 /\ i < m /\ (i <= Len(a) \/ i <= Len(b))
    BY <1>1, <1>4
  <2>2. i \notin T
    BY <1>3, <1>4, <2>1
  <2> QED
    BY <2>1, <2>2
<1>6. CASE m <= Len(a) /\ m <= Len(b)
  <2>1. a[m] \in Nat /\ b[m] \in Nat
    BY <1>4, <1>6 DEF Text
  <2>2. a[m] < b[m] \/ b[m] < a[m]
    BY <1>4, <1>6, <2>1
  <2>3. m \in 1 .. Len(a) /\ m \in 1 .. Len(b)
    BY <1>1, <1>4, <1>6
  <2> QED
    BY <1>5, <2>2, <2>3 DEF Precedes
<1>7. CASE ~ (m <= Len(a))
  <2>1. m \in 1 .. Len(b)
    BY <1>1, <1>4, <1>7
  <2> QED
    BY <1>5, <1>7, <2>1 DEF Precedes
<1>8. CASE ~ (m <= Len(b))
  <2>1. m \in 1 .. Len(a)
    BY <1>1, <1>4, <1>8
  <2> QED
    BY <1>5, <1>8, <2>1 DEF Precedes
<1> QED
  BY <1>6, <1>7, <1>8

\* R is a strict total order of S.
Orders(R, S) ==
  /\ \A i \in S : <<i, i>> \notin R
  /\ \A i, j, k \in S : <<i, j>> \in R /\ <<j, k>> \in R => <<i, k>> \in R
  /\ \A i, j \in S : i = j \/ <<i, j>> \in R \/ <<j, i>> \in R

Below(R, S, i) == {j \in S : <<j, i>> \in R}

\* How many come before i.
RankIn(R, S, i) == Cardinality(Below(R, S, i))

LEMMA RankIsMonotone ==
  ASSUME NEW S, IsFiniteSet(S), NEW R, Orders(R, S),
         NEW i \in S, NEW j \in S, <<i, j>> \in R
  PROVE  RankIn(R, S, i) < RankIn(R, S, j)
<1>1. Below(R, S, i) \subseteq Below(R, S, j)
  BY DEF Orders, Below
<1>2. i \in Below(R, S, j) /\ i \notin Below(R, S, i)
  BY DEF Orders, Below
<1>3. IsFiniteSet(Below(R, S, j)) /\ IsFiniteSet(Below(R, S, i))
  BY FS_Subset DEF Below
<1>4. /\ Cardinality(Below(R, S, i)) <= Cardinality(Below(R, S, j))
      /\ Cardinality(Below(R, S, i)) # Cardinality(Below(R, S, j))
  BY <1>1, <1>2, <1>3, FS_Subset
<1>5. Cardinality(Below(R, S, i)) \in Nat /\ Cardinality(Below(R, S, j)) \in Nat
  BY <1>3, FS_CardinalityType
<1> QED
  BY <1>4, <1>5 DEF RankIn

\* In an order of n elements there is exactly one at each place.
LEMMA OneAtEachPlace ==
  ASSUME NEW S, IsFiniteSet(S), NEW R, Orders(R, S)
  PROVE  /\ \A i, j \in S : RankIn(R, S, i) = RankIn(R, S, j) => i = j
         /\ \A i \in S : RankIn(R, S, i) \in 0 .. Cardinality(S) - 1
         /\ \A k \in 0 .. Cardinality(S) - 1 : \E i \in S : RankIn(R, S, i) = k
<1> DEFINE n == Cardinality(S)
           rank == [i \in S |-> RankIn(R, S, i)]
<1>1. n \in Nat
  BY FS_CardinalityType
<1>2. ASSUME NEW i \in S
      PROVE  RankIn(R, S, i) \in 0 .. n - 1
  <2>1. Below(R, S, i) \subseteq S /\ i \notin Below(R, S, i)
    BY DEF Orders, Below
  <2>2. IsFiniteSet(Below(R, S, i)) /\ Cardinality(Below(R, S, i)) <= n
          /\ Cardinality(Below(R, S, i)) # n
    BY <2>1, FS_Subset
  <2>3. Cardinality(Below(R, S, i)) \in Nat
    BY <2>2, FS_CardinalityType
  <2> QED
    BY <1>1, <2>2, <2>3 DEF RankIn
<1>3. ASSUME NEW i \in S, NEW j \in S, RankIn(R, S, i) = RankIn(R, S, j)
      PROVE  i = j
  <2> SUFFICES ASSUME i # j PROVE FALSE
    OBVIOUS
  <2>1. <<i, j>> \in R \/ <<j, i>> \in R
    BY DEF Orders
  <2>2. RankIn(R, S, i) < RankIn(R, S, j) \/ RankIn(R, S, j) < RankIn(R, S, i)
    BY <2>1, RankIsMonotone
  <2> QED
    BY <1>1, <1>2, <1>3, <2>2
<1>4. IsFiniteSet(0 .. n - 1) /\ Cardinality(0 .. n - 1) = n
  <2>1. 0 \in Int /\ n - 1 \in Int
    BY <1>1
  <2>2. IsFiniteSet(0 .. n - 1) /\ Cardinality(0 .. n - 1) = IF 0 > n - 1 THEN 0 ELSE (n - 1) - 0 + 1
    BY <2>1, FS_Interval
  <2> QED
    BY <1>1, <2>2
<1>5. rank \in Injection(S, 0 .. n - 1)
  BY <1>2, <1>3 DEF Injection, IsInjective
<1>6. rank \in Surjection(S, 0 .. n - 1)
  BY <1>4, <1>5, FS_Injection
<1>7. \A k \in 0 .. n - 1 : \E i \in S : RankIn(R, S, i) = k
  BY <1>6 DEF Surjection
<1> QED
  BY <1>2, <1>3, <1>7

\* p lists the places of a sorted sequence, each once, in the order of the ids.
SortsBy(all, n, p) ==
  /\ p \in [1 .. n -> 1 .. n]
  /\ \A k, l \in 1 .. n : p[k] = p[l] => k = l
  /\ \A i \in 1 .. n : \E k \in 1 .. n : p[k] = i
  /\ \A k \in 1 .. n - 1 : Precedes(all[p[k]].id, all[p[k + 1]].id)

DistinctIds(all, n) ==
  /\ \A i \in 1 .. n : all[i].id \in Text
  /\ \A i, j \in 1 .. n : all[i].id = all[j].id => i = j

LEMMA SortedIsSorted ==
  ASSUME NEW all, NEW n \in Nat, DOMAIN all = 1 .. n, DistinctIds(all, n)
  PROVE  \E p : SortsBy(all, n, p) /\ Sorted(all) = [k \in 1 .. n |-> all[p[k]]]
<1> DEFINE S == 1 .. n
           R == {q \in S \X S : Precedes(all[q[1]].id, all[q[2]].id)}
           p == [k \in S |-> CHOOSE i \in S : RankIn(R, S, i) = k - 1]
<1>1. IsFiniteSet(S) /\ Cardinality(S) = n
  <2>1. 1 \in Int /\ n \in Int
    OBVIOUS
  <2>2. IsFiniteSet(1 .. n) /\ Cardinality(1 .. n) = IF 1 > n THEN 0 ELSE n - 1 + 1
    BY <2>1, FS_Interval
  <2> QED
    BY <2>2
<1>2. \A i, j \in S : <<i, j>> \in R <=> Precedes(all[i].id, all[j].id)
  OBVIOUS
<1>3. \A i \in S : all[i].id \in Text
  BY DEF DistinctIds
<1>4. Orders(R, S)
  <2> HIDE DEF R
  <2>1. \A i \in S : <<i, i>> \notin R
    BY <1>2, <1>3, PrecedesIrreflexive
  <2>2. \A i, j, k \in S : <<i, j>> \in R /\ <<j, k>> \in R => <<i, k>> \in R
    BY <1>2, <1>3, PrecedesTransitive
  <2>3. \A i, j \in S : i = j \/ <<i, j>> \in R \/ <<j, i>> \in R
    BY <1>2, <1>3, PrecedesTotal DEF DistinctIds
  <2> QED
    BY <2>1, <2>2, <2>3 DEF Orders
<1>5. \A i \in S : Below(R, S, i) = {j \in S : Precedes(all[j].id, all[i].id)}
  BY DEF Below
<1>6. Sorted(all) = [k \in S |-> all[p[k]]]
  <2>1. \A i \in S : RankIn(R, S, i) = Cardinality({j \in S : Precedes(all[j].id, all[i].id)})
    BY <1>5 DEF RankIn
  <2>2. ASSUME NEW k \in S
        PROVE  (CHOOSE i \in S : Cardinality({j \in S : Precedes(all[j].id, all[i].id)}) = k - 1)
               = p[k]
    BY <2>1
  <2>3. Sorted(all) = [k \in S |->
          all[CHOOSE i \in S :
                Cardinality({j \in S : Precedes(all[j].id, all[i].id)}) = k - 1]]
    BY DEF Sorted
  <2> HIDE DEF p
  <2> QED
    BY <2>2, <2>3
<1> HIDE DEF R
<1>7. \A k \in S : k - 1 \in 0 .. n - 1
  OBVIOUS
<1>8. /\ \A i, j \in S : RankIn(R, S, i) = RankIn(R, S, j) => i = j
      /\ \A i \in S : RankIn(R, S, i) \in 0 .. n - 1
      /\ \A k \in 0 .. n - 1 : \E i \in S : RankIn(R, S, i) = k
  BY <1>1, <1>4, OneAtEachPlace
<1>9. ASSUME NEW k \in S
      PROVE  p[k] \in S /\ RankIn(R, S, p[k]) = k - 1
  <2>1. \E i \in S : RankIn(R, S, i) = k - 1
    BY <1>7, <1>8
  <2> QED
    BY <2>1
<1> HIDE DEF p
<1>10. p \in [S -> S]
  BY <1>9 DEF p
<1>11. \A k, l \in S : p[k] = p[l] => k = l
  BY <1>9
<1>12. ASSUME NEW i \in S
       PROVE  \E k \in S : p[k] = i
  <2>1. RankIn(R, S, i) \in 0 .. n - 1
    BY <1>8
  <2> DEFINE k == RankIn(R, S, i) + 1
  <2>2. k \in S /\ k - 1 = RankIn(R, S, i)
    BY <2>1
  <2>3. p[k] \in S /\ RankIn(R, S, p[k]) = RankIn(R, S, i)
    BY <1>9, <2>2
  <2>4. p[k] = i
    BY <1>8, <2>3
  <2> QED
    BY <2>2, <2>4
<1>13. ASSUME NEW k \in 1 .. n - 1
       PROVE  Precedes(all[p[k]].id, all[p[k + 1]].id)
  <2>1. k \in S /\ k + 1 \in S /\ k # k + 1
    OBVIOUS
  <2>2. p[k] \in S /\ p[k + 1] \in S /\ p[k] # p[k + 1]
    BY <1>9, <1>11, <2>1
  <2>3. RankIn(R, S, p[k]) = k - 1 /\ RankIn(R, S, p[k + 1]) = k
    BY <1>9, <2>1
  <2>4. <<p[k + 1], p[k]>> \notin R
    <3> SUFFICES ASSUME <<p[k + 1], p[k]>> \in R PROVE FALSE
      OBVIOUS
    <3>1. RankIn(R, S, p[k + 1]) < RankIn(R, S, p[k])
      BY <1>1, <1>4, <2>2, RankIsMonotone
    <3> QED
      BY <2>3, <3>1
  <2>5. <<p[k], p[k + 1]>> \in R
    BY <1>4, <2>2, <2>4 DEF Orders
  <2> QED
    BY <1>2, <2>2, <2>5
<1>14. SortsBy(all, n, p)
  BY <1>10, <1>11, <1>12, <1>13 DEF SortsBy
<1> QED
  BY <1>6, <1>14

-----------------------------------------------------------------------------
(* The manifest.                                                           *)

\* Where the rules have their names.
Named == {"rendering", "done"} \cup Writing

\* The ids and names of rules rs whose shapes are on the lines ln.
AssignedTo(rs, ln) ==
  [i \in DOMAIN rs |->
      LET suffix == IF \E j \in DOMAIN rs : /\ j # i
                                            /\ BaseIdAt(rs[j], ln[rs[j]]) = BaseIdAt(rs[i], ln[rs[i]])
                    THEN <<Tilde, ContentHash(rs[i])>> ELSE <<>>
      IN  [id |-> BaseIdAt(rs[i], ln[rs[i]]) \o suffix,
           name |-> RuleNameAt(rs[i], ln[rs[i]]) \o suffix]]

\* No two of n rules share an id or a name.
Apart(names, n) ==
  \A i, j \in 1 .. n : names[i].id = names[j].id \/ names[i].name = names[j].name => i = j

\* What an entry says of its rule, whether or not there was an error.
Tells(e, naming, rule, at) ==
  /\ e.id = naming.id /\ e.name = naming.name
  /\ e.fingerprint = fingerprint(rule)
  /\ e.rule = rule /\ e.line = at

\* The status of an entry, when there was no error.
Judges(e, rule, lenient) ==
  /\ e.queries <=> e.status = "compiled"
  /\ rule.status = "compiled" /\ ~ rule.renders => lenient

LabelsOf(all) == UNION {e.rule.labels : e \in {e \in all : e.queries}}

NamesInv ==
  pc \in Named => /\ namings = AssignedTo(rules, line)
                  /\ Apart(namings, Len(rules))

\* Each entry is about its rule and under the naming of it.
EntriesInv ==
  pc \in Named =>
     /\ Len(entries) <= Len(rules)
     /\ \A i \in 1 .. Len(entries) :
           /\ Tells(entries[i], namings[i], rules[i], line[rules[i]])
           /\ errors = {} => Judges(entries[i], rules[i], request.lenient)
     /\ indexes = LabelsOf(Range(entries))

\* What is written, and was, is the manifest of the entries.
FinishedInv ==
  pc \in {"done"} \cup Writing => /\ previous = ManifestOf(entries, indexes)
                                  /\ errors = {} /\ Len(entries) = Len(rules)

\* An id and a name are those of the line the shape was on, with the hash where
\* the manifest has another rule of that id.
Suffix(all, e) == IF CollidesIn(all, e) THEN <<Tilde, ContentHash(e.rule)>> ELSE <<>>

SoundEntry(all, e) ==
  /\ e.fingerprint = fingerprint(e.rule)
  /\ e.id = BaseIdAt(e.rule, e.line) \o Suffix(all, e)
  /\ e.name = RuleNameAt(e.rule, e.line) \o Suffix(all, e)

SoundManifest(m) == \A e \in Range(m.rules) : SoundEntry(m.rules, e)

ManifestInv ==
  /\ line \in [Candidates -> Nat]
  /\ pc \in Range(Phases) => indexes = {}
  /\ NamesInv /\ EntriesInv /\ FinishedInv
  /\ SoundManifest(previous)

LEMMA AssignIs == Assign = AssignedTo(rules, line)
BY DEF Assign, AssignedTo, Colliding, BaseId, RuleName

LEMMA BaseIdIsText ==
  ASSUME NEW rule \in LoweredRule, NEW at \in Nat
  PROVE  BaseIdAt(rule, at) \in Text
<1>1. rule.shape \in Nat /\ rule.component \in Nat /\ rule.path \in Seq(Text)
  BY DEF LoweredRule, Text
<1>2. ShapeSegment(rule, at) \in Nat
  BY <1>1 DEF ShapeSegment, BlankAt
<1>3. <<<<ShapeSegment(rule, at)>>>> \in Seq(Text) /\ <<<<rule.component>>>> \in Seq(Text)
  BY <1>1, <1>2 DEF Text
<1>4. <<<<ShapeSegment(rule, at)>>>> \o rule.path \o <<<<rule.component>>>> \in Seq(Text)
  BY <1>1, <1>3
<1> QED
  BY <1>4, JoinedIsText DEF BaseIdAt

\* The ids that are assigned are texts.
LEMMA AssignedIds ==
  ASSUME NEW rs \in Seq(Candidates), NEW ln \in [Candidates -> Nat],
         NEW i \in 1 .. Len(rs)
  PROVE  AssignedTo(rs, ln)[i].id \in Text
<1>1. rs[i] \in Candidates /\ ln[rs[i]] \in Nat /\ i \in DOMAIN rs
  OBVIOUS
<1>2. rs[i] \in LoweredRule /\ ContentHash(rs[i]) \in Nat
  BY <1>1, CandidatesAssumption
<1>3. BaseIdAt(rs[i], ln[rs[i]]) \in Text
  BY <1>1, <1>2, BaseIdIsText
<1>4. <<Tilde, ContentHash(rs[i])>> \in Text /\ <<>> \in Text
  BY <1>2 DEF Text, Tilde
<1>5. \A s \in Text : BaseIdAt(rs[i], ln[rs[i]]) \o s \in Text
  BY <1>3 DEF Text
<1> DEFINE other == \E j \in DOMAIN rs : /\ j # i
                        /\ BaseIdAt(rs[j], ln[rs[j]]) = BaseIdAt(rs[i], ln[rs[i]])
           suffix == IF other THEN <<Tilde, ContentHash(rs[i])>> ELSE <<>>
<1>6. AssignedTo(rs, ln)[i].id = BaseIdAt(rs[i], ln[rs[i]]) \o suffix
  BY <1>1 DEF AssignedTo
<1>7. suffix \in Text
  BY <1>4
<1> QED
  BY <1>5, <1>6, <1>7

LEMMA InitManifestInv ==
  ASSUME Init PROVE ManifestInv
<1>1. line \in [Candidates -> Nat] /\ indexes = {} /\ pc = "request"
  BY DEF Init
<1>2. pc \notin Named /\ pc \notin {"done"} \cup Writing
  BY <1>1 DEF Named, Writing
<1>3. SoundManifest(previous)
  <2>1. previous.rules = <<>>
    BY DEF Init
  <2>2. Range(previous.rules) = {}
    BY <2>1 DEF Range
  <2> QED
    BY <2>2 DEF SoundManifest
<1> QED
  BY <1>1, <1>2, <1>3 DEF ManifestInv, NamesInv, EntriesInv, FinishedInv

\* A step that neither names, renders nor finishes.
LEMMA NothingNamed ==
  ASSUME ManifestInv, pc' \notin Named, line' \in [Candidates -> Nat],
         indexes' = {} \/ pc' \notin Range(Phases), UNCHANGED previous
  PROVE  ManifestInv'
<1>1. pc' \notin {"done"} \cup Writing
  BY DEF Named
<1>2. SoundManifest(previous)'
  BY DEF ManifestInv
<1> QED
  BY <1>1, <1>2 DEF ManifestInv, NamesInv, EntriesInv, FinishedInv

\* A step of the compiler after the rules have been named and rendered.
LEMMA NothingRenamed ==
  ASSUME ManifestInv, pc \in {"done"} \cup Writing,
         pc' \in {"done", "failed"} \cup Writing,
         UNCHANGED <<request, rules, line, namings, entries, indexes, errors, previous>>
  PROVE  ManifestInv'
<1>1. CASE pc' = "failed"
  BY <1>1, NothingNamed, PhaseNames DEF Named, Writing, ManifestInv
<1>2. CASE pc' # "failed"
  <2>1. pc' \in Named /\ pc \in Named /\ pc' \notin Range(Phases)
    BY <1>2, PhaseNames DEF Named, Writing
  <2>2. NamesInv'
    BY <2>1 DEF ManifestInv, NamesInv
  <2>3. EntriesInv'
    BY <2>1 DEF ManifestInv, EntriesInv
  <2>4. FinishedInv' /\ SoundManifest(previous)'
    BY DEF ManifestInv, FinishedInv
  <2> QED
    BY <2>1, <2>2, <2>3, <2>4 DEF ManifestInv
<1> QED
  BY <1>1, <1>2

\* Naming ends in an error if two rules share an id or a name.
LEMMA NamesApart ==
  ASSUME NEW all, NEW n \in Nat, DOMAIN all = 1 .. n, Duplicates(all) = {}
  PROVE  Apart(all, n)
BY DEF Duplicates, Apart

LEMMA NamingManifestInv ==
  ASSUME IInv, ManifestInv, AssignNames PROVE ManifestInv'
<1>1. /\ pc = "naming" /\ pc' \in {"rendering", "failed"}
      /\ pc' = "rendering" => Duplicates(Assign) = {}
      /\ namings' = Assign
      /\ UNCHANGED <<request, rules, line, entries, indexes, previous>>
  BY DEF AssignNames, sourceVars
<1>2. entries = <<>> /\ indexes = {}
  BY <1>1, PhaseNames DEF IInv, LoopInv, ManifestInv
<1>3. CASE pc' = "failed"
  BY <1>1, <1>3, NothingNamed, PhaseNames DEF Named, Writing, ManifestInv
<1>4. CASE pc' = "rendering"
  <2>1. rules \in Seq(Candidates)
    BY DEF IInv, TypeOK
  <2>2. namings' = AssignedTo(rules, line)
    BY <1>1, AssignIs
  <2>3. DOMAIN AssignedTo(rules, line) = 1 .. Len(rules) /\ Len(rules) \in Nat
    BY <2>1 DEF AssignedTo
  <2>4. Duplicates(AssignedTo(rules, line)) = {}
    BY <1>1, <1>4, AssignIs
  <2>5. Apart(AssignedTo(rules, line), Len(rules))
    BY <2>3, <2>4, NamesApart
  <2>6. NamesInv'
    BY <1>1, <2>2, <2>5 DEF NamesInv
  <2>7. EntriesInv'
    <3>1. Len(entries') = 0 /\ Range(entries') = {} /\ entries' = <<>>
      BY <1>1, <1>2 DEF Range
    <3>2. LabelsOf({}) = {}
      BY DEF LabelsOf
    <3>3. Len(entries') <= Len(rules') /\ \A i \in 1 .. Len(entries') : FALSE
      BY <1>1, <2>3, <3>1
    <3>4. indexes' = LabelsOf(Range(entries'))
      BY <1>1, <1>2, <3>1, <3>2
    <3> QED
      BY <3>3, <3>4 DEF EntriesInv
  <2>8. FinishedInv' /\ SoundManifest(previous)' /\ pc' \notin Range(Phases)
    BY <1>1, <1>4, PhaseNames DEF ManifestInv, FinishedInv, Writing
  <2> QED
    BY <1>1, <2>6, <2>7, <2>8 DEF ManifestInv
<1> QED
  BY <1>1, <1>3, <1>4

LEMMA OneMoreLabels ==
  ASSUME NEW s, s \in Seq(Range(s)), NEW e
  PROVE  LabelsOf(Range(Append(s, e))) = LabelsOf(Range(s)) \cup (IF e.queries THEN e.rule.labels ELSE {})
<1> DEFINE S == Range(s) \cup {e}
<1>1. s \in Seq(S) /\ e \in S
  BY SeqDef
<1>2. PICK t : t = Append(s, e)
  OBVIOUS
<1>3. /\ t \in Seq(S) /\ Len(t) = Len(s) + 1
      /\ \A i \in 1 .. Len(s) : t[i] = s[i]
      /\ t[Len(s) + 1] = e
  BY <1>1, <1>2, AppendProperties
<1>4. Range(t) = Range(s) \cup {e}
  <2>1. DOMAIN t = 1 .. Len(s) + 1 /\ DOMAIN s = 1 .. Len(s) /\ Len(s) \in Nat
    BY <1>1, <1>3
  <2>2. \A i \in 1 .. Len(s) + 1 : i \in 1 .. Len(s) \/ i = Len(s) + 1
    BY <2>1
  <2>3. Len(s) + 1 \in 1 .. Len(s) + 1 /\ \A i \in 1 .. Len(s) : i \in 1 .. Len(s) + 1
    BY <2>1
  <2> QED
    BY <1>3, <2>1, <2>2, <2>3 DEF Range
<1>5. \A T : LabelsOf(T \cup {e}) = LabelsOf(T) \cup (IF e.queries THEN e.rule.labels ELSE {})
  BY DEF LabelsOf
<1> QED
  BY <1>2, <1>4, <1>5

\* One turn of the loop: its entry tells of its rule and is judged by its status.
LEMMA RenderedEntry ==
  ASSUME IInv, RenderRule
  PROVE  \E e : /\ entries' = Append(entries, e)
                /\ Tells(e, namings[Current], rules[Current], line[rules[Current]])
                /\ errors' = {} => errors = {} /\ Judges(e, rules[Current], request.lenient)
                /\ indexes' = indexes \cup (IF e.queries THEN e.rule.labels ELSE {})
<1> DEFINE rule == rules[Current]
           ok == rule.status = "compiled" /\ rule.renders
           fails == rule.status = "compiled" /\ ~ rule.renders
           status == IF fails /\ request.lenient THEN "unsupported" ELSE rule.status
           e == Entry(status, ok)
<1>1. /\ entries' = Append(entries, e)
      /\ indexes' = indexes \cup IF ok THEN rule.labels ELSE {}
      /\ errors' = errors \cup
           IF fails /\ ~ request.lenient THEN {<<"render", namings[Current].id>>} ELSE {}
  BY DEF RenderRule
<1>2. /\ e.id = namings[Current].id /\ e.name = namings[Current].name
      /\ e.fingerprint = fingerprint(rule) /\ e.status = status
      /\ e.queries = ok /\ e.rule = rule /\ e.line = line[rule]
  BY DEF Entry
<1>3. ASSUME errors' = {}
      PROVE  errors = {} /\ ~ (fails /\ ~ request.lenient)
  BY <1>1, <1>3
<1>4. ASSUME errors' = {}
      PROVE  Judges(e, rule, request.lenient)
  <2>1. CASE fails
    <3>1. request.lenient /\ status = "unsupported"
      BY <1>3, <1>4, <2>1
    <3> QED
      BY <1>2, <2>1, <3>1 DEF Judges
  <2>2. CASE ~ fails
    <3>1. status = rule.status /\ (rule.status = "compiled" => rule.renders)
      BY <2>2
    <3> HIDE DEF e, status
    <3> QED
      BY <1>2, <3>1 DEF Judges
  <2> QED
    BY <2>1, <2>2
<1> HIDE DEF e, status
<1>5. Tells(e, namings[Current], rule, line[rule])
  BY <1>2 DEF Tells
<1>6. indexes' = indexes \cup (IF e.queries THEN e.rule.labels ELSE {})
  BY <1>1, <1>2
<1> QED
  BY <1>1, <1>3, <1>4, <1>5, <1>6

LEMMA RenderManifestInv ==
  ASSUME IInv, ManifestInv, RenderRule PROVE ManifestInv'
<1>1. PICK e : /\ entries' = Append(entries, e)
               /\ Tells(e, namings[Current], rules[Current], line[rules[Current]])
               /\ errors' = {} => errors = {} /\ Judges(e, rules[Current], request.lenient)
               /\ indexes' = indexes \cup (IF e.queries THEN e.rule.labels ELSE {})
  BY RenderedEntry
<1>2. /\ pc = "rendering" /\ pc' = pc /\ Len(entries) + 1 \in DOMAIN rules
      /\ Current = Len(entries) + 1
      /\ UNCHANGED <<request, rules, line, namings, previous>>
  BY DEF RenderRule, sourceVars, Current
<1>3. pc \in Named /\ pc \notin Range(Phases) /\ pc \notin {"done"} \cup Writing
  BY <1>2, PhaseNames DEF Named, Writing
<1>4. entries \in Seq(Range(entries)) /\ rules \in Seq(Candidates)
  BY DEF IInv, TypeOK
<1>5. PICK t : t = entries'
  OBVIOUS
<1>6. /\ Len(t) = Len(entries) + 1
      /\ \A i \in 1 .. Len(entries) : t[i] = entries[i]
      /\ t[Len(entries) + 1] = e
  <2> DEFINE S == Range(entries) \cup {e}
  <2>1. entries \in Seq(S) /\ e \in S
    BY <1>4, SeqDef
  <2> QED
    BY <1>1, <1>5, <2>1, AppendProperties
<1>7. Len(t) <= Len(rules) /\ Len(entries) \in Nat
  BY <1>2, <1>4, <1>6
<1>8. ASSUME NEW i \in 1 .. Len(t)
      PROVE  /\ Tells(t[i], namings[i], rules[i], line[rules[i]])
             /\ errors' = {} => Judges(t[i], rules[i], request.lenient)
  <2>1. CASE i = Len(entries) + 1
    BY <1>1, <1>2, <1>6, <2>1
  <2>2. CASE i # Len(entries) + 1
    <3>1. i \in 1 .. Len(entries)
      BY <1>6, <1>7, <2>2
    <3> QED
      BY <1>1, <1>3, <1>6, <3>1 DEF ManifestInv, EntriesInv
  <2> QED
    BY <2>1, <2>2
<1>9. indexes' = LabelsOf(Range(t))
  <2>1. indexes = LabelsOf(Range(entries))
    BY <1>3 DEF ManifestInv, EntriesInv
  <2> QED
    BY <1>1, <1>4, <1>5, <2>1, OneMoreLabels
<1>10. EntriesInv'
  BY <1>2, <1>5, <1>7, <1>8, <1>9 DEF EntriesInv
<1>11. NamesInv'
  BY <1>2, <1>3 DEF ManifestInv, NamesInv
<1>12. FinishedInv' /\ SoundManifest(previous)'
  BY <1>2, <1>3 DEF ManifestInv, FinishedInv
<1> QED
  BY <1>2, <1>3, <1>10, <1>11, <1>12 DEF ManifestInv

\* What a manifest made of all rules says: every entry once, in the order of ids.
LEMMA ManifestSorted ==
  ASSUME IInv, ManifestInv, pc \in Named, Len(entries) = Len(rules)
  PROVE  \E p : /\ SortsBy(entries, Len(rules), p)
                /\ Sorted(entries) = [k \in 1 .. Len(rules) |-> entries[p[k]]]
<1>1. rules \in Seq(Candidates) /\ entries \in Seq(Range(entries))
  BY DEF IInv, TypeOK
<1>2. Len(rules) \in Nat /\ DOMAIN entries = 1 .. Len(rules)
  BY <1>1
<1>3. \A i \in 1 .. Len(rules) : entries[i].id = namings[i].id
  BY DEF ManifestInv, EntriesInv, Tells
<1>4. namings = AssignedTo(rules, line) /\ Apart(namings, Len(rules))
  BY DEF ManifestInv, NamesInv
<1>5. \A i \in 1 .. Len(rules) : entries[i].id \in Text
  BY <1>1, <1>3, <1>4, AssignedIds DEF ManifestInv
<1>6. DistinctIds(entries, Len(rules))
  BY <1>3, <1>4, <1>5 DEF DistinctIds, Apart
<1> QED
  BY <1>2, <1>6, SortedIsSorted

\* Sorting loses and adds no entry.
LEMMA SortedRange ==
  ASSUME NEW all, NEW n \in Nat, DOMAIN all = 1 .. n, NEW p, SortsBy(all, n, p),
         NEW s, s = [k \in 1 .. n |-> all[p[k]]]
  PROVE  Range(s) = Range(all)
<1>1. p \in [1 .. n -> 1 .. n] /\ \A i \in 1 .. n : \E k \in 1 .. n : p[k] = i
  BY DEF SortsBy
<1>2. DOMAIN s = 1 .. n /\ \A k \in 1 .. n : s[k] = all[p[k]]
  OBVIOUS
<1> QED
  BY <1>1, <1>2 DEF Range

\* With an entry for every rule, an entry collides exactly if its rule does.
LEMMA EntriesCollide ==
  ASSUME IInv, ManifestInv, pc \in Named, Len(entries) = Len(rules),
         NEW s, Range(s) = Range(entries), NEW i \in 1 .. Len(rules)
  PROVE  SoundEntry(s, entries[i])
<1>1. rules \in Seq(Candidates) /\ entries \in Seq(Range(entries))
  BY DEF IInv, TypeOK
<1>2. DOMAIN rules = 1 .. Len(rules) /\ DOMAIN entries = 1 .. Len(rules)
  BY <1>1
<1>3. \A j \in 1 .. Len(rules) : Tells(entries[j], namings[j], rules[j], line[rules[j]])
  BY DEF ManifestInv, EntriesInv
<1>4. namings = AssignedTo(rules, line) /\ Apart(namings, Len(rules))
  BY DEF ManifestInv, NamesInv
<1> DEFINE base(j) == BaseIdAt(rules[j], line[rules[j]])
           other == \E j \in 1 .. Len(rules) : j # i /\ base(j) = base(i)
           suffix == IF other THEN <<Tilde, ContentHash(rules[i])>> ELSE <<>>
<1>5. namings[i].id = base(i) \o suffix
        /\ namings[i].name = RuleNameAt(rules[i], line[rules[i]]) \o suffix
  BY <1>2, <1>4 DEF AssignedTo
<1>6. \A j \in 1 .. Len(rules) :
        /\ entries[j] = entries[i] => j = i
        /\ BaseIdAt(entries[j].rule, entries[j].line) = base(j)
  BY <1>3, <1>4 DEF Apart, Tells
<1>7. CollidesIn(s, entries[i]) <=> other
  <2>1. CollidesIn(s, entries[i]) <=>
          \E j \in 1 .. Len(rules) :
             /\ entries[j] # entries[i]
             /\ BaseIdAt(entries[j].rule, entries[j].line)
                  = BaseIdAt(entries[i].rule, entries[i].line)
    <3>1. \A f : f \in Range(entries) <=> \E j \in 1 .. Len(rules) : f = entries[j]
      BY <1>2 DEF Range
    <3>2. CollidesIn(s, entries[i]) <=>
            \E f \in Range(entries) :
               /\ f # entries[i]
               /\ BaseIdAt(f.rule, f.line) = BaseIdAt(entries[i].rule, entries[i].line)
      BY DEF CollidesIn
    <3> QED
      BY <3>1, <3>2
  <2> QED
    BY <1>6, <2>1
<1> HIDE DEF base, other
<1>8. entries[i].rule = rules[i] /\ entries[i].line = line[rules[i]]
        /\ entries[i].fingerprint = fingerprint(rules[i])
        /\ entries[i].id = namings[i].id /\ entries[i].name = namings[i].name
  BY <1>3 DEF Tells
<1>9. Suffix(s, entries[i]) = suffix
  BY <1>7, <1>8 DEF Suffix
<1> HIDE DEF suffix
<1>10. base(i) = BaseIdAt(rules[i], line[rules[i]])
  BY DEF base
<1> QED
  BY <1>5, <1>8, <1>9, <1>10 DEF SoundEntry

LEMMA FinishManifestInv ==
  ASSUME IInv, ManifestInv, FinishManifest PROVE ManifestInv'
<1>1. /\ pc = "rendering" /\ Len(entries) + 1 \notin DOMAIN rules
      /\ pc' = IF errors = {} THEN "create" ELSE "failed"
      /\ errors = {} => previous' = ManifestOf(entries, indexes)
      /\ errors # {} => previous' = previous
      /\ UNCHANGED <<request, rules, line, namings, entries, indexes, errors>>
  BY DEF FinishManifest, sourceVars, Current
<1>2. CASE errors # {}
  <2>1. pc' = "failed"
    BY <1>1, <1>2
  <2> QED
    BY <1>1, <1>2, <2>1, NothingNamed, PhaseNames DEF Named, Writing, ManifestInv
<1>3. CASE errors = {}
  <2>1. pc \in Named /\ pc' \in Named /\ pc' \notin Range(Phases)
    BY <1>1, <1>3, PhaseNames DEF Named, Writing
  <2>2. Len(entries) = Len(rules)
    BY <1>1 DEF IInv, TypeOK, LoopInv
  <2>3. NamesInv' /\ EntriesInv'
    BY <1>1, <2>1 DEF ManifestInv, NamesInv, EntriesInv
  <2>4. FinishedInv'
    BY <1>1, <1>3, <2>2 DEF FinishedInv
  <2>5. PICK p : /\ SortsBy(entries, Len(rules), p)
                 /\ Sorted(entries) = [k \in 1 .. Len(rules) |-> entries[p[k]]]
    BY <2>1, <2>2, ManifestSorted
  <2>6. DOMAIN entries = 1 .. Len(rules) /\ Len(rules) \in Nat
    BY <2>2 DEF IInv, TypeOK
  <2>7. Range(Sorted(entries)) = Range(entries)
    BY <2>5, <2>6, SortedRange
  <2>8. previous'.rules = Sorted(entries)
    BY <1>1, <1>3 DEF ManifestOf
  <2>9. ASSUME NEW e \in Range(Sorted(entries))
        PROVE  SoundEntry(Sorted(entries), e)
    <3>1. PICK i \in 1 .. Len(rules) : e = entries[i]
      BY <2>6, <2>7 DEF Range
    <3> QED
      BY <2>1, <2>2, <2>7, <3>1, EntriesCollide
  <2>10. SoundManifest(previous')
    BY <2>8, <2>9 DEF SoundManifest
  <2> QED
    BY <1>1, <2>1, <2>3, <2>4, <2>10 DEF ManifestInv
<1> QED
  BY <1>2, <1>3

LEMMA EditManifestInv ==
  ASSUME IInv, ManifestInv, Edit PROVE ManifestInv'
<1>1. /\ pc' = "request" /\ indexes' = {} /\ UNCHANGED previous
      /\ EditRules \/ line' = line
  BY DEF Edit
<1>2. line' \in [Candidates -> Nat]
  <2>1. line \in [Candidates -> Nat]
    BY DEF ManifestInv
  <2>2. ASSUME NEW r, NEW l \in 1 .. MaxLine, line' = [line EXCEPT ![r] = l]
        PROVE  line' \in [Candidates -> Nat]
    <3>1. l \in Nat
      BY BoundsAssumption
    <3> QED
      BY <2>1, <2>2, <3>1
  <2> QED
    BY <1>1, <2>1, <2>2 DEF EditRules
<1>3. pc' \notin Named
  BY <1>1 DEF Named, Writing
<1> QED
  BY <1>1, <1>2, <1>3, NothingNamed

LEMMA PhaseManifestInv ==
  ASSUME IInv, ManifestInv, Phase PROVE ManifestInv'
<1>1. PICK i \in 1 .. Len(Phases) - 1 :
        /\ pc = Phases[i]
        /\ pc' \in {"failed", Phases[i + 1]}
        /\ UNCHANGED <<line, indexes, previous>>
  BY DEF Phase
<1>2. i \in {1, 2, 3, 4, 5, 6, 7}
  BY PhaseNames
<1>3. pc \in Range(Phases) /\ pc' \in Range(Phases) \cup {"failed"}
  BY <1>1, <1>2, PhaseNames
<1>4. indexes' = {} /\ pc' \notin Named /\ line' \in [Candidates -> Nat]
  BY <1>1, <1>3, PhaseNames DEF ManifestInv, Named, Writing
<1> QED
  BY <1>1, <1>4, NothingNamed

LEMMA StepManifestInv ==
  ASSUME IInv, ManifestInv, [Next]_vars PROVE ManifestInv'
<1>1. ASSUME \/ CreateDir \/ TruncateManifest \/ WriteManifest
             \/ TruncateCypher \/ WriteCypher
      PROVE  ManifestInv'
  <2>1. /\ pc \in Writing /\ pc' \in {"done", "failed"} \cup Writing
        /\ UNCHANGED <<request, rules, line, namings, entries, indexes, errors, previous>>
    BY <1>1 DEF CreateDir, TruncateManifest, WriteManifest, TruncateCypher, WriteCypher,
                Truncate, Write, sourceVars, Writing
  <2> QED
    BY <2>1, NothingRenamed
<1>2. CASE Next
  BY <1>1, <1>2, PhaseManifestInv, NamingManifestInv, RenderManifestInv,
     FinishManifestInv, EditManifestInv DEF Next, CompilerStep
<1>3. CASE UNCHANGED vars
  BY <1>3 DEF vars, sourceVars, ManifestInv, NamesInv, EntriesInv, FinishedInv
<1> QED
  BY <1>2, <1>3

\* Names, entries and manifests fit each other in every state.
LEMMA ManifestInvariance == Spec => [](IInv /\ ManifestInv)
<1>1. Init => IInv /\ ManifestInv
  BY InitInv, InitManifestInv
<1>2. (IInv /\ ManifestInv) /\ [Next]_vars => (IInv /\ ManifestInv)'
  BY StepInv, StepManifestInv
<1> QED
  BY <1>1, <1>2, PTL DEF Spec

LEMMA FinishedIsComplete ==
  ASSUME IInv, ManifestInv, pc \in {"done"} \cup Writing
  PROVE  LET all == previous.rules
         IN  /\ Len(all) = Len(rules)
             /\ {e.rule : e \in Range(all)} = Range(rules)
             /\ Distinct(all, LAMBDA e : e.name)
             /\ \A i \in 1 .. Len(all) - 1 : Precedes(all[i].id, all[i + 1].id)
             /\ \A e \in Range(all) :
                   /\ e.queries <=> e.status = "compiled"
                   /\ e.rule.status = "compiled" /\ ~ e.rule.renders => request.lenient
             /\ previous.indexes = UNION {e.rule.labels : e \in {e \in Range(all) : e.queries}}
<1>1. pc \in Named
  BY DEF Named
<1>2. errors = {} /\ Len(entries) = Len(rules) /\ previous = ManifestOf(entries, indexes)
  BY DEF ManifestInv, FinishedInv
<1>3. PICK n : n = Len(rules)
  OBVIOUS
<1>4. n \in Nat /\ DOMAIN entries = 1 .. n /\ DOMAIN rules = 1 .. n
  BY <1>2, <1>3 DEF IInv, TypeOK
<1>5. PICK p : SortsBy(entries, n, p) /\ Sorted(entries) = [k \in 1 .. n |-> entries[p[k]]]
  BY <1>1, <1>2, <1>3, ManifestSorted
<1>6. PICK all : all = Sorted(entries)
  OBVIOUS
<1>7. previous.rules = all /\ previous.indexes = indexes
  BY <1>2, <1>6 DEF ManifestOf
<1>8. DOMAIN all = 1 .. n /\ Len(all) = n /\ \A k \in 1 .. n : all[k] = entries[p[k]]
  <2>1. all = [k \in 1 .. n |-> entries[p[k]]]
    BY <1>5, <1>6
  <2> QED
    BY <1>4, <2>1
<1>9. /\ p \in [1 .. n -> 1 .. n]
      /\ \A k, l \in 1 .. n : p[k] = p[l] => k = l
      /\ \A k \in 1 .. n - 1 : Precedes(entries[p[k]].id, entries[p[k + 1]].id)
  BY <1>5 DEF SortsBy
<1>10. Range(all) = Range(entries)
  BY <1>4, <1>5, <1>6, SortedRange
<1>11. \A i \in 1 .. n : /\ Tells(entries[i], namings[i], rules[i], line[rules[i]])
                         /\ Judges(entries[i], rules[i], request.lenient)
  BY <1>1, <1>2, <1>3 DEF ManifestInv, EntriesInv
<1>12. Apart(namings, n)
  BY <1>1, <1>3 DEF ManifestInv, NamesInv
<1>13. indexes = LabelsOf(Range(entries))
  BY <1>1 DEF ManifestInv, EntriesInv
<1>14. \A e : e \in Range(entries) <=> \E i \in 1 .. n : e = entries[i]
  BY <1>4 DEF Range
<1>15. \A i \in 1 .. n : entries[i].rule = rules[i] /\ entries[i].name = namings[i].name
  BY <1>11 DEF Tells
<1>16. {e.rule : e \in Range(all)} = Range(rules)
  <2>1. \A r : r \in Range(rules) <=> \E i \in 1 .. n : r = rules[i]
    BY <1>4 DEF Range
  <2> QED
    BY <1>10, <1>14, <1>15, <2>1
<1>17. Distinct(all, LAMBDA e : e.name)
  <2>1. ASSUME NEW k \in 1 .. n, NEW l \in 1 .. n, all[k].name = all[l].name
        PROVE  k = l
    <3>1. p[k] \in 1 .. n /\ p[l] \in 1 .. n
      BY <1>9
    <3>2. namings[p[k]].name = namings[p[l]].name
      BY <1>8, <1>15, <2>1, <3>1
    <3>3. p[k] = p[l]
      BY <1>12, <3>1, <3>2 DEF Apart
    <3> QED
      BY <1>9, <3>3
  <2> QED
    BY <1>8, <2>1 DEF Distinct
<1>18. \A i \in 1 .. n - 1 : Precedes(all[i].id, all[i + 1].id)
  <2> TAKE i \in 1 .. n - 1
  <2>1. i \in 1 .. n /\ i + 1 \in 1 .. n
    BY <1>4
  <2> QED
    BY <1>8, <1>9, <2>1
<1>19. ASSUME NEW e \in Range(all)
       PROVE  /\ e.queries <=> e.status = "compiled"
              /\ e.rule.status = "compiled" /\ ~ e.rule.renders => request.lenient
  <2>1. PICK i \in 1 .. n : e = entries[i]
    BY <1>10, <1>14
  <2> QED
    BY <1>11, <1>15, <2>1 DEF Judges
<1>20. indexes = UNION {e.rule.labels : e \in {e \in Range(all) : e.queries}}
  BY <1>10, <1>13 DEF LabelsOf
<1> QED
  BY <1>3, <1>7, <1>8, <1>16, <1>17, <1>18, <1>19, <1>20

\* For any rules, edits and hashes: a manifest speaks of every lowered rule once,
\* in the order of the ids, under an id and a name of its own; exactly the compiled
\* rules have queries, and only their labels are recommended for an index.
THEOREM ManifestComplete == Spec => []ManifestIsComplete
<1>1. IInv /\ ManifestInv => ManifestIsComplete
  <2> SUFFICES ASSUME IInv, ManifestInv,
                      pc \notin Range(Phases) \cup {"rendering", "failed"}
               PROVE  ManifestIsComplete
    BY DEF ManifestIsComplete
  <2>1. pc \in {"done"} \cup Writing
    BY PhaseNames DEF IInv, TypeOK
  <2> QED
    BY <2>1, FinishedIsComplete DEF ManifestIsComplete
<1> QED
  BY <1>1, ManifestInvariance, PTL

\* Between two sound manifests an id and a name change only with a collision or
\* with the line of a blank shape.
LEMMA SoundEntriesAgree ==
  ASSUME NEW m, NEW n, SoundManifest(m), SoundManifest(n),
         NEW old \in Range(m.rules), NEW new \in Range(n.rules), old.rule = new.rule
  PROVE  /\ old.fingerprint = new.fingerprint
         /\ (/\ CollidesIn(m.rules, old) <=> CollidesIn(n.rules, new)
             /\ old.rule.blank => old.line = new.line)
            => old.id = new.id /\ old.name = new.name
<1>1. SoundEntry(m.rules, old) /\ SoundEntry(n.rules, new)
  BY DEF SoundManifest
<1>2. old.fingerprint = new.fingerprint
  BY <1>1 DEF SoundEntry
<1>3. ASSUME CollidesIn(m.rules, old) <=> CollidesIn(n.rules, new),
             old.rule.blank => old.line = new.line
      PROVE  old.id = new.id /\ old.name = new.name
  <2>1. Suffix(m.rules, old) = Suffix(n.rules, new)
    BY <1>3 DEF Suffix
  <2>2. ShapeSegment(old.rule, old.line) = ShapeSegment(old.rule, new.line)
    BY <1>3 DEF ShapeSegment
  <2>3. BaseIdAt(old.rule, old.line) = BaseIdAt(old.rule, new.line)
    BY <2>2 DEF BaseIdAt
  <2>4. ShapeName(old.rule, old.line) = ShapeName(old.rule, new.line)
    BY <1>3 DEF ShapeName
  <2>5. RuleNameAt(old.rule, old.line) = RuleNameAt(old.rule, new.line)
    BY <2>4 DEF RuleNameAt
  <2> QED
    BY <1>1, <2>1, <2>3, <2>5 DEF SoundEntry
<1> QED
  BY <1>2, <1>3

\* For any edits and hashes: between two manifests a rule keeps its id and its name
\* unless it began or ceased to collide with another or is a rule of a blank shape
\* that moved, and it always keeps its fingerprint.
THEOREM NamesSurvive == Spec => NamesSurviveEdits
<1>1. ManifestInv /\ ManifestInv' =>
        [\A old \in Range(previous.rules), new \in Range(previous'.rules) :
          old.rule = new.rule =>
            /\ old.fingerprint = new.fingerprint
            /\ (/\ CollidesIn(previous.rules, old) <=> CollidesIn(previous'.rules, new)
                /\ old.rule.blank => old.line = new.line)
               => old.id = new.id /\ old.name = new.name]_previous
  <2> SUFFICES ASSUME ManifestInv, ManifestInv',
                      NEW old \in Range(previous.rules), NEW new \in Range(previous'.rules),
                      old.rule = new.rule
               PROVE  /\ old.fingerprint = new.fingerprint
                      /\ (/\ CollidesIn(previous.rules, old) <=> CollidesIn(previous'.rules, new)
                          /\ old.rule.blank => old.line = new.line)
                         => old.id = new.id /\ old.name = new.name
    OBVIOUS
  <2>1. SoundManifest(previous) /\ SoundManifest(previous')
    BY DEF ManifestInv
  <2> QED
    BY <2>1, SoundEntriesAgree
<1> QED
  BY <1>1, ManifestInvariance, PTL DEF NamesSurviveEdits

-----------------------------------------------------------------------------
(* Sequences put together.                                                 *)

\* A sequence, whatever its elements are.
IsList(s) == s \in Seq(Range(s))

LEMMA ListOf ==
  ASSUME NEW S, NEW s \in Seq(S)
  PROVE  IsList(s) /\ Range(s) \subseteq S
<1>1. \A i \in 1 .. Len(s) : s[i] \in Range(s) /\ s[i] \in S
  BY DEF Range
<1>2. s \in Seq(Range(s))
  BY <1>1, IsASeq
<1>3. Range(s) \subseteq S
  BY <1>1 DEF Range
<1> QED
  BY <1>2, <1>3 DEF IsList

LEMMA ConcatLists ==
  ASSUME NEW a, NEW b, IsList(a), IsList(b)
  PROVE  IsList(a \o b) /\ Range(a \o b) = Range(a) \cup Range(b)
<1> DEFINE S == Range(a) \cup Range(b)
<1>1. a \in Seq(S) /\ b \in Seq(S)
  BY SeqDef DEF IsList
<1> HIDE DEF S
<1>2. Len(a) \in Nat /\ Len(b) \in Nat /\ DOMAIN a = 1 .. Len(a) /\ DOMAIN b = 1 .. Len(b)
  BY <1>1
<1>3. /\ a \o b \in Seq(S) /\ Len(a \o b) = Len(a) + Len(b)
      /\ \A i \in 1 .. Len(a) + Len(b) :
            (a \o b)[i] = IF i <= Len(a) THEN a[i] ELSE b[i - Len(a)]
  BY <1>1, ConcatProperties
<1> DEFINE c == a \o b
<1>4. DOMAIN c = 1 .. Len(a) + Len(b)
  BY <1>3
<1>5. \A i \in 1 .. Len(a) : c[i] = a[i] /\ i \in 1 .. Len(a) + Len(b)
  BY <1>2, <1>3
<1>6. \A i \in 1 .. Len(b) : c[Len(a) + i] = b[i] /\ Len(a) + i \in 1 .. Len(a) + Len(b)
  <2> TAKE i \in 1 .. Len(b)
  <2>1. Len(a) + i \in 1 .. Len(a) + Len(b) /\ ~ (Len(a) + i <= Len(a))
        /\ (Len(a) + i) - Len(a) = i
    BY <1>2
  <2> QED
    BY <1>3, <2>1
<1>7. \A i \in 1 .. Len(a) + Len(b) :
          \/ i \in 1 .. Len(a) /\ c[i] = a[i]
          \/ i - Len(a) \in 1 .. Len(b) /\ c[i] = b[i - Len(a)]
  BY <1>2, <1>3
<1>8. IsList(c)
  BY <1>3, ListOf
<1> HIDE DEF c
<1>9. Range(c) \subseteq Range(a) \cup Range(b)
  BY <1>2, <1>4, <1>7 DEF Range
<1>10. Range(a) \subseteq Range(c)
  BY <1>2, <1>4, <1>5 DEF Range
<1>11. Range(b) \subseteq Range(c)
  BY <1>2, <1>4, <1>6 DEF Range
<1> QED
  BY <1>8, <1>9, <1>10, <1>11 DEF c

\* The elements of the first k sequences.
Elements(ss, k) == UNION {Range(ss[i]) : i \in 1 .. k}

FlatTo(ss, f, k) == f[k] = IF k = 1 THEN ss[k] ELSE f[k - 1] \o ss[k]

Flat(ss, f, m) == DOMAIN f = 1 .. m /\ \A k \in 1 .. m : FlatTo(ss, f, k)

AllLists(ss, n) == \A i \in 1 .. n : IsList(ss[i])

Flattens(ss, f, k) == IsList(f[k]) /\ Range(f[k]) = Elements(ss, k)

LEMMA FlattensOneMore ==
  ASSUME NEW n \in Nat, NEW ss, AllLists(ss, n), NEW f, NEW k \in 1 .. n, FlatTo(ss, f, k),
         k # 1 => Flattens(ss, f, k - 1)
  PROVE  Flattens(ss, f, k)
<1>1. IsList(ss[k])
  BY DEF AllLists
<1>2. CASE k = 1
  <2>1. f[k] = ss[k] /\ 1 .. k = {k}
    BY <1>2 DEF FlatTo
  <2>2. Elements(ss, k) = Range(ss[k])
    BY <2>1 DEF Elements
  <2> QED
    BY <1>1, <2>1, <2>2 DEF Flattens
<1>3. CASE k # 1
  <2>1. 1 .. k = (1 .. k - 1) \cup {k}
    BY <1>3
  <2>2. Elements(ss, k) = Elements(ss, k - 1) \cup Range(ss[k])
    BY <2>1 DEF Elements
  <2>3. f[k] = f[k - 1] \o ss[k]
    BY <1>3 DEF FlatTo
  <2>4. IsList(f[k - 1]) /\ Range(f[k - 1]) = Elements(ss, k - 1)
    BY <1>3 DEF Flattens
  <2> QED
    BY <1>1, <2>2, <2>3, <2>4, ConcatLists DEF Flattens
<1> QED
  BY <1>2, <1>3

Flattenable(ss, m) == \E f : Flat(ss, f, m)

LEMMA FlatOneMore ==
  ASSUME NEW ss, NEW j \in Nat, Flattenable(ss, j)
  PROVE  Flattenable(ss, j + 1)
<1>1. PICK f : Flat(ss, f, j)
  BY DEF Flattenable
<1> DEFINE last == IF j = 0 THEN ss[j + 1] ELSE f[j] \o ss[j + 1]
           g == [k \in 1 .. j + 1 |-> IF k = j + 1 THEN last ELSE f[k]]
<1>2. g[j + 1] = last /\ DOMAIN g = 1 .. j + 1
  BY DEF g
<1>3. \A k \in 1 .. j : g[k] = f[k]
  <2> TAKE k \in 1 .. j
  <2>1. k \in 1 .. j + 1 /\ k # j + 1
    OBVIOUS
  <2> QED
    BY <2>1 DEF g
<1> HIDE DEF g
<1>4. FlatTo(ss, g, j + 1)
  <2>1. (j + 1 = 1 <=> j = 0) /\ (j + 1) - 1 = j /\ (j # 0 => g[j] = f[j])
    BY <1>3
  <2> QED
    BY <1>2, <2>1 DEF FlatTo
<1>5. ASSUME NEW k \in 1 .. j
      PROVE  FlatTo(ss, g, k)
  <2>1. FlatTo(ss, f, k)
    BY <1>1 DEF Flat
  <2>2. g[k] = f[k] /\ (k # 1 => g[k - 1] = f[k - 1])
    BY <1>3
  <2> QED
    BY <2>1, <2>2 DEF FlatTo
<1>6. \A k \in 1 .. j + 1 : k \in 1 .. j \/ k = j + 1
  OBVIOUS
<1> QED
  BY <1>2, <1>4, <1>5, <1>6 DEF Flat, Flattenable

\* The recursion of FlattenSeq defines a sequence for any number of sequences.
LEMMA FlatExists ==
  ASSUME NEW ss, NEW n \in Nat
  PROVE  Flattenable(ss, n)
<1> DEFINE T == {m \in Nat : ~ Flattenable(ss, m)}
<1> SUFFICES ASSUME T # {} PROVE FALSE
  OBVIOUS
<1>1. PICK m \in T : \A k \in T : m <= k
  BY LeastNat
<1>2. m # 0
  <2>1. Flat(ss, [k \in 1 .. 0 |-> <<>>], 0)
    BY DEF Flat
  <2> QED
    BY <1>1, <2>1 DEF Flattenable
<1>3. PICK j \in Nat : m = j + 1
  BY <1>1, <1>2
<1>4. Flattenable(ss, j)
  BY <1>1, <1>3
<1> QED
  BY <1>1, <1>3, <1>4, FlatOneMore

\* FlattenSeq lists what the sequences list.
LEMMA FlattenLists ==
  ASSUME NEW n \in Nat, NEW ss, DOMAIN ss = 1 .. n, ss \in Seq(Range(ss)), AllLists(ss, n)
  PROVE  IsList(FlattenSeq(ss)) /\ Range(FlattenSeq(ss)) = Elements(ss, n)
<1>1. Len(ss) = n
  OBVIOUS
<1>2. CASE n = 0
  <2>1. FlattenSeq(ss) = ss /\ IsList(ss)
    BY <1>1, <1>2 DEF FlattenSeq, IsList
  <2>2. Range(ss) = {} /\ Elements(ss, n) = {}
    BY <1>2 DEF Range, Elements
  <2> QED
    BY <2>1, <2>2
<1>3. CASE n # 0
  <2> DEFINE Rec(f) == f = [i \in 1 .. Len(ss) |-> IF i = 1 THEN ss[i] ELSE f[i - 1] \o ss[i]]
             h == CHOOSE f : Rec(f)
  <2>1. FlattenSeq(ss) = h[n]
    BY <1>1, <1>3 DEF FlattenSeq
  <2>2. PICK f : Flat(ss, f, n)
    BY FlatExists DEF Flattenable
  <2> DEFINE g == [i \in 1 .. n |-> f[i]]
  <2>3. Rec(g)
    <3>1. \A i \in 1 .. n : i # 1 => i - 1 \in 1 .. n
      OBVIOUS
    <3>2. \A i \in 1 .. n : g[i] = IF i = 1 THEN ss[i] ELSE g[i - 1] \o ss[i]
      BY <2>2, <3>1 DEF Flat, FlatTo
    <3> QED
      BY <1>1, <3>2
  <2>4. Rec(h)
    BY <2>3
  <2>5. \A k \in 1 .. n : FlatTo(ss, h, k)
    BY <1>1, <2>4 DEF FlatTo
  <2> HIDE DEF h
  <2> DEFINE T == {k \in Nat : k \in 1 .. n /\ ~ Flattens(ss, h, k)}
  <2>6. SUFFICES ASSUME T # {} PROVE FALSE
    BY <1>3, <2>1 DEF Flattens
  <2>7. PICK m \in T : \A k \in T : m <= k
    <3>1. T \subseteq Nat
      OBVIOUS
    <3> HIDE DEF T
    <3> QED
      BY <2>6, <3>1, LeastNat
  <2>8. m \in 1 .. n /\ ~ Flattens(ss, h, m)
    BY <2>7
  <2>9. m # 1 => Flattens(ss, h, m - 1)
    <3> HAVE m # 1
    <3>1. m - 1 \in 1 .. n /\ m - 1 \in Nat /\ ~ (m <= m - 1)
      BY <2>8
    <3>2. m - 1 \notin T
      BY <2>7, <3>1
    <3> QED
      BY <3>1, <3>2
  <2> QED
    BY <2>5, <2>8, <2>9, FlattensOneMore
<1> QED
  BY <1>2, <1>3

-----------------------------------------------------------------------------
(* What a graph says of a parameter.                                       *)

Occurrence(t) == [value |-> t[3], line |-> graph[t]]

About(s, p) == {t \in Triples : t[1] = s /\ t[2] = p}

LEMMA FoundAre ==
  ASSUME NEW s, NEW p
  PROVE  Found(s, p) = {Occurrence(t) : t \in About(s, p)}
BY DEF Found, About, Occurrence

Earlier(a, b) ==
  \/ a.line < b.line
  \/ a.line = b.line /\ TextRank(a.value) < TextRank(b.value)

Comparable(S) ==
  /\ \A a \in S : a = [value |-> a.value, line |-> a.line]
                  /\ a.line \in Nat /\ TextRank(a.value) \in Nat
  /\ \A a, b \in S : TextRank(a.value) = TextRank(b.value) => a.value = b.value

LEMMA FoundComparable ==
  ASSUME IsGraph(graph), NEW s, NEW p
  PROVE  IsFiniteSet(Found(s, p)) /\ Comparable(Found(s, p))
<1>1. IsFiniteSet(About(s, p))
  BY FS_Subset DEF IsGraph, About, Triples
<1>2. Found(s, p) = {Occurrence(t) : t \in About(s, p)}
  BY FoundAre
<1>3. IsFiniteSet(Found(s, p))
  <2> DEFINE f == [t \in About(s, p) |-> Occurrence(t)]
  <2>1. f \in Surjection(About(s, p), Found(s, p))
    BY <1>2 DEF Surjection
  <2> QED
    BY <1>1, <2>1, FS_Surjection
<1>4. ASSUME NEW a \in Found(s, p)
      PROVE  /\ a = [value |-> a.value, line |-> a.line]
             /\ a.line \in Nat /\ \E t \in DOMAIN graph : a.value = t[3]
  <2>1. PICK t \in About(s, p) : a = Occurrence(t)
    BY <1>2
  <2>2. t \in DOMAIN graph /\ graph[t] \in Nat
    BY DEF About, Triples, IsGraph
  <2> QED
    BY <2>1, <2>2 DEF Occurrence
<1>5. \A a, b \in Found(s, p) : /\ TextRank(a.value) \in Nat
                                /\ TextRank(a.value) = TextRank(b.value) => a.value = b.value
  BY <1>4 DEF IsGraph
<1> QED
  BY <1>3, <1>4, <1>5 DEF Comparable

LEMMA EarlierOrders ==
  ASSUME NEW S, Comparable(S)
  PROVE  Orders({x \in S \X S : Earlier(x[1], x[2])}, S)
<1> DEFINE R == {x \in S \X S : Earlier(x[1], x[2])}
<1>1. \A a, b \in S : <<a, b>> \in R <=> Earlier(a, b)
  OBVIOUS
<1> HIDE DEF R
<1>2. \A a \in S : a.line \in Nat /\ TextRank(a.value) \in Nat
  BY DEF Comparable
<1>3. \A a \in S : <<a, a>> \notin R
  BY <1>1, <1>2 DEF Earlier
<1>4. ASSUME NEW a \in S, NEW b \in S, NEW c \in S, <<a, b>> \in R, <<b, c>> \in R
      PROVE  <<a, c>> \in R
  <2>1. Earlier(a, b) /\ Earlier(b, c)
    BY <1>1, <1>4
  <2> QED
    BY <1>1, <1>2, <2>1 DEF Earlier
<1>5. ASSUME NEW a \in S, NEW b \in S, <<a, b>> \notin R, <<b, a>> \notin R
      PROVE  a = b
  <2>1. ~ Earlier(a, b) /\ ~ Earlier(b, a)
    BY <1>1, <1>5
  <2>2. a.line = b.line /\ TextRank(a.value) = TextRank(b.value)
    BY <1>2, <2>1 DEF Earlier
  <2> QED
    BY <2>2 DEF Comparable
<1>6. Orders(R, S)
  BY <1>3, <1>4, <1>5 DEF Orders
<1> QED
  BY <1>6 DEF R

\* The values of a parameter are all that the graph says of it, each once.
LEMMA ValuesAreFound ==
  ASSUME IsGraph(graph), NEW s, NEW p
  PROVE  IsList(Values(s, p)) /\ Range(Values(s, p)) = Found(s, p)
<1> DEFINE S == Found(s, p)
           R == {x \in S \X S : Earlier(x[1], x[2])}
           n == Cardinality(S)
           before(a) == {b \in S :
                          \/ b.line < a.line
                          \/ b.line = a.line /\ TextRank(b.value) < TextRank(a.value)}
           place(a) == Cardinality(before(a))
           at(k) == CHOOSE v \in S : place(v) = k - 1
<1>1. IsFiniteSet(S) /\ Comparable(S) /\ n \in Nat
  BY FoundComparable, FS_CardinalityType
<1>2. Orders(R, S)
  BY <1>1, EarlierOrders
<1>3. \A a \in S : RankIn(R, S, a) = place(a)
  <2>1. \A a \in S : Below(R, S, a) = before(a)
    BY DEF Below, Earlier
  <2> QED
    BY <2>1 DEF RankIn
<1>4. Values(s, p) = [k \in 1 .. n |-> at(k)]
  BY DEF Values
<1> HIDE DEF S, R, place
<1>5. /\ \A i, j \in S : place(i) = place(j) => i = j
      /\ \A i \in S : place(i) \in 0 .. n - 1
      /\ \A k \in 0 .. n - 1 : \E i \in S : place(i) = k
  BY <1>1, <1>2, <1>3, OneAtEachPlace
<1>6. \A k \in 1 .. n : at(k) \in S
  <2> TAKE k \in 1 .. n
  <2>1. k - 1 \in 0 .. n - 1
    BY <1>1
  <2> QED
    BY <1>5, <2>1
<1>7. \A a \in S : \E k \in 1 .. n : a = at(k)
  <2> TAKE a \in S
  <2> DEFINE k == place(a) + 1
  <2>1. k \in 1 .. n /\ k - 1 = place(a)
    BY <1>1, <1>5
  <2> HIDE DEF k
  <2>2. \E v \in S : place(v) = k - 1
    BY <2>1
  <2>3. at(k) \in S /\ place(at(k)) = k - 1
    BY <2>2
  <2>4. a = at(k)
    BY <1>5, <2>1, <2>3
  <2> QED
    BY <2>1, <2>4
<1> HIDE DEF n, at
<1>8. Values(s, p) \in Seq(S)
  BY <1>1, <1>4, <1>6
<1>9. Range(Values(s, p)) = S
  BY <1>4, <1>6, <1>7 DEF Range
<1> QED
  BY <1>8, <1>9, ListOf DEF S

-----------------------------------------------------------------------------
(* The tables of parameters and annotations.                               *)

LEMMA EachIsOfItsGroup ==
  ASSUME NEW groups, NEW p \in DOMAIN Each(groups)
  PROVE  \E g \in groups : p \in g[1] /\ Each(groups)[p] = g[2]
<1>1. p \in UNION {g[1] : g \in groups}
  BY DEF Each
<1>2. \E g \in groups : p \in g[1]
  BY <1>1
<1> DEFINE h == CHOOSE g \in groups : p \in g[1]
<1>3. h \in groups /\ p \in h[1]
  BY <1>2
<1>4. Each(groups)[p] = h[2]
  BY <1>1 DEF Each
<1> QED
  BY <1>3, <1>4

LEMMA ItemKinds ==
  /\ DOMAIN ItemKind = {"shapeList", "termList", "stringList", "iriList"}
  /\ ItemKind["shapeList"] = "shapes"
<1> DEFINE G == {<<{"shapeList"}, "shapes">>, <<{"termList"}, "term">>,
                 <<{"stringList"}, "strings">>, <<{"iriList"}, "iris">>}
<1>1. ItemKind = Each(G)
  BY DEF ItemKind
<1>2. DOMAIN ItemKind = UNION {g[1] : g \in G}
  BY <1>1 DEF Each
<1>3. {g[1] : g \in G} = {{"shapeList"}, {"termList"}, {"stringList"},
                          {"iriList"}}
  OBVIOUS
<1> HIDE DEF G
<1>4. DOMAIN ItemKind = {"shapeList", "termList", "stringList", "iriList"}
  BY <1>2, <1>3
<1>5. PICK g \in G : "shapeList" \in g[1] /\ ItemKind["shapeList"] = g[2]
  BY <1>1, <1>4, EachIsOfItsGroup
<1>6. g[2] = "shapes"
  BY <1>5 DEF G
<1> QED
  BY <1>4, <1>5, <1>6

LEMMA PlainNames ==
  Range(Plain) = {"sh:minCount", "sh:maxCount", "sh:datatype", "sh:nodeKind", "sh:class",
           "sh:minInclusive", "sh:maxInclusive", "sh:minExclusive", "sh:maxExclusive",
           "sh:minLength", "sh:maxLength", "sh:in", "sh:hasValue", "sh:equals",
           "sh:disjoint", "sh:lessThan", "sh:lessThanOrEquals", "sh:node", "sh:not",
           "sh:and", "sh:or", "sh:xone", "sh:languageIn", "sh:sparql"}
<1>1. DOMAIN Plain = 1 .. 24
  BY DEF Plain
<1>2. 1 .. 24 = {1, 2, 3, 4, 5, 6, 7, 8, 9, 10, 11, 12, 13, 14, 15, 16, 17, 18, 19, 20,
                 21, 22, 23, 24}
  OBVIOUS
<1> QED
  BY <1>1, <1>2 DEF Plain, Range

\* The parameters that become constraints.
ConstraintParameters ==
  Range(Plain) \cup {"sh:pattern", "sh:closed", "sh:uniqueLang", "sh:qualifiedValueShape"}

ParameterNames ==
  {"sh:minCount", "sh:maxCount", "sh:minLength", "sh:maxLength",
        "sh:qualifiedMinCount", "sh:qualifiedMaxCount", 
     "sh:minInclusive", "sh:maxInclusive", "sh:minExclusive", "sh:maxExclusive", 
     "sh:closed", "sh:uniqueLang", "sh:deactivated", "sh:qualifiedValueShapesDisjoint", 
     "sh:class", "sh:equals", "sh:disjoint", "sh:lessThan", "sh:lessThanOrEquals",
        "sh:targetClass", "sh:targetSubjectsOf", "sh:targetObjectsOf", 
     "sh:property", "sh:node", "sh:not", "sh:qualifiedValueShape",
     "sh:and", "sh:or", "sh:xone",
     "sh:hasValue", "sh:sparql", "sh:targetNode", 
     "sh:datatype", "sh:severity", "sh:nodeKind", "sh:path", "sh:flags", 
     "sh:pattern", "s2c:targetRelationship", "sh:message", "sh:in", "sh:languageIn",
     "sh:ignoredProperties"}

LEMMA ParametersAre == DOMAIN Parameters = ParameterNames
<1>1. DOMAIN Parameters = UNION {g[1] : g \in ParameterGroups}
  BY DEF Parameters, Each
<1> DEFINE D == UNION {g[1] : g \in ParameterGroups}
<1>2. D \subseteq ParameterNames
  BY DEF ParameterGroups, References, Connectives, ParameterNames
<1>3. ParameterNames \subseteq D
  <2> SUFFICES ASSUME NEW p \in ParameterNames
               PROVE  \E g \in ParameterGroups : p \in g[1]
    OBVIOUS
  <2> QED
    BY DEF ParameterGroups, References, Connectives, ParameterNames
<1> QED
  BY <1>1, <1>2, <1>3

LEMMA ParameterKinds ==
  /\ \A p \in ConstraintParameters : p \in DOMAIN Parameters /\ Parameters[p].kind # "path"
  /\ \A p \in References : p \in DOMAIN Parameters /\ Parameters[p].kind = "shape"
  /\ \A p \in Connectives : p \in DOMAIN Parameters /\ Parameters[p].kind = "shapeList"
  /\ \A p \in {"sh:closed", "sh:uniqueLang"} : Parameters[p].kind = "boolean"
<1>1. \A p \in DOMAIN Parameters : \E g \in ParameterGroups : p \in g[1] /\ Parameters[p] = g[2]
  BY EachIsOfItsGroup DEF Parameters
<1>2. ASSUME NEW p \in ConstraintParameters
      PROVE  p \in DOMAIN Parameters /\ Parameters[p].kind # "path"
  <2>1. p \in ParameterNames /\ p # "sh:path"
    BY PlainNames DEF ConstraintParameters, ParameterNames
  <2>2. PICK g \in ParameterGroups : p \in g[1] /\ Parameters[p] = g[2]
    BY <1>1, <2>1, ParametersAre
  <2>3. g[2].kind = "path" => g[1] = {"sh:path"}
    BY DEF ParameterGroups, Many, One
  <2> QED
    BY <2>1, <2>2, <2>3, ParametersAre
<1>3. ASSUME NEW p \in References
      PROVE  p \in DOMAIN Parameters /\ Parameters[p].kind = "shape"
  <2>1. p \in ParameterNames
    BY DEF References, ParameterNames
  <2>2. PICK g \in ParameterGroups : p \in g[1] /\ Parameters[p] = g[2]
    BY <1>1, <2>1, ParametersAre
  <2>3. g = <<References, Many("shape")>>
    BY <2>2 DEF ParameterGroups, References, Connectives
  <2> QED
    BY <2>1, <2>2, <2>3, ParametersAre DEF Many
<1>4. ASSUME NEW p \in Connectives
      PROVE  p \in DOMAIN Parameters /\ Parameters[p].kind = "shapeList"
  <2>1. p \in ParameterNames
    BY DEF Connectives, ParameterNames
  <2>2. PICK g \in ParameterGroups : p \in g[1] /\ Parameters[p] = g[2]
    BY <1>1, <2>1, ParametersAre
  <2>3. g = <<Connectives, Many("shapeList")>>
    BY <2>2 DEF ParameterGroups, References, Connectives
  <2> QED
    BY <2>1, <2>2, <2>3, ParametersAre DEF Many
<1>5. ASSUME NEW p \in {"sh:closed", "sh:uniqueLang"}
      PROVE  Parameters[p].kind = "boolean"
  <2>1. p \in ParameterNames
    BY DEF ParameterNames
  <2>2. PICK g \in ParameterGroups : p \in g[1] /\ Parameters[p] = g[2]
    BY <1>1, <2>1, ParametersAre
  <2>3. g[2] = One("boolean")
    BY <2>2 DEF ParameterGroups, References, Connectives
  <2> QED
    BY <2>2, <2>3 DEF One
<1> QED
  BY <1>2, <1>3, <1>4, <1>5

LEMMA UsageKinds ==
  \A p \in DOMAIN Usage : Usage[p][1].kind \in {"text", "direction"} /\ "none" \notin Usage[p][2]
<1> SUFFICES ASSUME NEW p \in DOMAIN Usage
             PROVE  Usage[p][1].kind \in {"text", "direction"} /\ "none" \notin Usage[p][2]
  OBVIOUS
<1> DEFINE G == {<<{"s2c:label"}, <<One("text"), {"nodeShape", "iri"}>>>>,
          <<{"s2c:property", "s2c:relationship", "s2c:datatype"},
            <<One("text"), {"propertyShape", "iri"}>>>>,
          <<{"s2c:direction"}, <<One("direction"), {"propertyShape", "iri"}>>>>,
          <<{"s2c:key"}, <<One("text"), {"nodeShape"}>>>>,
          <<{"s2c:name"}, <<One("text"), {"nodeShape", "propertyShape"}>>>>}
<1>1. Usage = Each(G)
  BY DEF Usage
<1> HIDE DEF G
<1>2. PICK g \in G : p \in g[1] /\ Usage[p] = g[2]
  BY <1>1, EachIsOfItsGroup
<1>3. g[2] \in {<<One("text"), {"nodeShape", "iri"}>>, <<One("text"), {"propertyShape", "iri"}>>,
                <<One("direction"), {"propertyShape", "iri"}>>, <<One("text"), {"nodeShape"}>>,
                <<One("text"), {"nodeShape", "propertyShape"}>>}
  BY DEF G
<1>4. g[2][1] \in {One("text"), One("direction")} /\ "none" \notin g[2][2]
  BY <1>3
<1>5. g[2][1].kind \in {"text", "direction"}
  BY <1>4 DEF One
<1> QED
  BY <1>2, <1>4, <1>5

LEMMA ConstraintSubjects ==
  \A p \in ConstraintParameters : p \in ShapeSubjectParameters
<1> SUFFICES ASSUME NEW p \in ConstraintParameters
             PROVE  p \in ShapeSubjectParameters
  OBVIOUS
<1>1. p \in DOMAIN Parameters
  BY ParameterKinds
<1>2. p \notin {"sh:severity", "sh:message", "sh:deactivated", "sh:flags",
                "sh:ignoredProperties", "sh:qualifiedMinCount",
                "sh:qualifiedMaxCount", "sh:qualifiedValueShapesDisjoint"}
  BY PlainNames DEF ConstraintParameters
<1> QED
  BY <1>1, <1>2 DEF ShapeSubjectParameters

-----------------------------------------------------------------------------
(* Reading values.                                                         *)

\* What is read of a value that can be read.
ReadsTo(p, kind, v) ==
  /\ ReadValue(p, kind, v).read
  /\ ReadValue(p, kind, v).value \in {v.value, ListAt(v.value)}
  /\ kind \notin DOMAIN ItemKind =>
        ReadValue(p, kind, v).value = v.value /\ Accepts(kind, v.value)
  /\ kind = "shapeList" =>
        /\ ReadValue(p, kind, v).value = ListAt(v.value)
        /\ ListAt(v.value) # Unlisted
        /\ \A i \in DOMAIN Items(ListAt(v.value)) : IsNode(Items(ListAt(v.value))[i])

LEMMA ReadIsValue ==
  ASSUME NEW p, NEW kind, kind # "path", NEW v, ReadValue(p, kind, v).faults = {}
  PROVE  ReadsTo(p, kind, v)
<1> DEFINE list == ListAt(v.value)
           fault == <<v.line, p, "value">>
           r == ReadValue(p, kind, v)
<1>1. CASE kind \in DOMAIN ItemKind
  <2>1. r = ReadItems(list, ItemKind[kind], fault)
    BY <1>1 DEF ReadValue
  <2> DEFINE k == ItemKind[kind]
  <2>2. /\ list # Unlisted
        /\ \A i \in DOMAIN Items(list) : Accepts(k, Items(list)[i])
        /\ r = Reading(list, {})
    <3> HIDE DEF list, fault, r, k
    <3>1. Unread({fault}).faults # {}
      BY DEF Unread
    <3>2. r.faults = {}
      BY DEF r
    <3> QED
      BY <2>1, <3>1, <3>2 DEF ReadItems, k
  <2>3. r.read /\ r.value = list
    BY <2>2 DEF Reading
  <2>4. kind = "shapeList" => \A i \in DOMAIN Items(list) : IsNode(Items(list)[i])
    <3> HAVE kind = "shapeList"
    <3>1. k = "shapes"
      BY ItemKinds
    <3> HIDE DEF list, r, k
    <3> QED
      BY <2>2, <3>1 DEF Accepts
  <2> QED
    BY <1>1, <2>2, <2>3, <2>4 DEF ReadsTo
<1>2. CASE kind \notin DOMAIN ItemKind
  <2>1. r = IF Accepts(kind, v.value) THEN Reading(v.value, {}) ELSE Unread({fault})
    BY <1>2 DEF ReadValue
  <2>2. Accepts(kind, v.value) /\ r = Reading(v.value, {})
    <3> HIDE DEF fault, r
    <3>1. Unread({fault}).faults # {}
      BY DEF Unread
    <3>2. r.faults = {}
      BY DEF r
    <3> QED
      BY <2>1, <3>1, <3>2
  <2>3. r.read /\ r.value = v.value
    BY <2>2 DEF Reading
  <2>4. kind # "shapeList"
    BY <1>2, ItemKinds
  <2> QED
    BY <1>2, <2>2, <2>3, <2>4 DEF ReadsTo
<1> QED
  BY <1>1, <1>2

LEMMA OneElement ==
  ASSUME NEW x
  PROVE  IsList(<<x>>) /\ Range(<<x>>) = {x}
<1>1. <<x>> \in Seq({x})
  OBVIOUS
<1>2. Range(<<x>>) = {x}
  BY DEF Range
<1> QED
  BY <1>1, <1>2 DEF IsList

LEMMA AllOrOne ==
  ASSUME NEW all, IsList(all), NEW p, NEW single, TooMany(p, all, single) = {}
  PROVE  Given(all, single) = all
<1>1. all \in Seq(Range(all))
  BY DEF IsList
<1>2. single => ~ (Len(all) > 1)
  BY DEF TooMany
<1>3. CASE single /\ all # <<>>
  <2>0. Len(all) \in Nat /\ Len(all) # 0 /\ DOMAIN all = 1 .. Len(all)
    BY <1>1, <1>3, EmptySeq
  <2>1. Len(all) = 1 /\ DOMAIN all = 1 .. 1
    BY <1>2, <1>3, <2>0
  <2>2. all = <<all[1]>>
    BY <1>1, <2>1
  <2> QED
    BY <1>3, <2>2 DEF Given
<1>4. CASE ~ (single /\ all # <<>>)
  BY <1>4 DEF Given
<1> QED
  BY <1>3, <1>4

\* What is read of the triple t by a parameter of this kind, when all is well.
Read(kind, t) == ReadValue(t[2], kind, Occurrence(t))

ReadSoundly(kind, t) ==
  /\ Read(kind, t).value \in {t[3], ListAt(t[3])}
  /\ kind \notin DOMAIN ItemKind => Read(kind, t).value = t[3] /\ Accepts(kind, t[3])
  /\ kind = "shapeList" =>
        /\ Read(kind, t).value = ListAt(t[3])
        /\ ListAt(t[3]) # Unlisted
        /\ \A i \in DOMAIN Items(ListAt(t[3])) : IsNode(Items(ListAt(t[3]))[i])

LEMMA ReadTriple ==
  ASSUME NEW kind, kind # "path", NEW t, Read(kind, t).faults = {}
  PROVE  ReadSoundly(kind, t)
<1> DEFINE v == Occurrence(t)
           p == t[2]
<1>1. v.value = t[3]
  BY DEF Occurrence
<1>2. ReadValue(p, kind, v).faults = {} /\ Read(kind, t) = ReadValue(p, kind, v)
  BY DEF Read
<1> HIDE DEF v, p
<1>3. ReadsTo(p, kind, v)
  BY <1>2, ReadIsValue
<1> QED
  BY <1>1, <1>2, <1>3 DEF ReadSoundly, ReadsTo

ReadAll(values, T, kind) ==
  /\ IsList(values)
  /\ \A t \in T : Read(kind, t).faults = {}
                  /\ \E x \in Range(values) : x.value = Read(kind, t).value
  /\ \A x \in Range(values) :
        \E t \in T : Read(kind, t).faults = {} /\ x.value = Read(kind, t).value

\* Without a problem every triple with the parameter is read, and nothing else.
LEMMA InputReads ==
  ASSUME IsGraph(graph), NEW s, NEW p, NEW use, use.kind # "path", Input(s, p, use).faults = {}
  PROVE  ReadAll(Input(s, p, use).values, About(s, p), use.kind)
<1> DEFINE all == Values(s, p)
           kind == use.kind
           n == Len(all)
           reading(i) == ReadValue(p, kind, all[i])
           item(i) == [value |-> reading(i).value, line |-> all[i].line]
           ss == [i \in 1 .. n |-> <<item(i)>>]
<1>1. IsList(all) /\ Range(all) = Found(s, p)
  BY ValuesAreFound
<1>2. all \in Seq(Range(all)) /\ n \in Nat /\ DOMAIN all = 1 .. n
  BY <1>1 DEF IsList
<1> DEFINE given == Given(all, use.single)
           readings == [i \in DOMAIN given |-> ReadValue(p, kind, given[i])]
<1>3. Input(s, p, use) = Collected(given, readings, TooMany(p, all, use.single))
  BY DEF Input, ReadGiven
<1>4. given = all
  <2>1. TooMany(p, all, use.single) = {}
    BY <1>3 DEF Collected
  <2> QED
    BY <1>1, <2>1, AllOrOne
<1>5. UNION {readings[i].faults : i \in DOMAIN all} = {}
  BY <1>3, <1>4 DEF Collected
<1>0. \A i \in 1 .. n : readings[i] = reading(i)
  BY <1>2, <1>4
<1> HIDE DEF readings
<1>6. \A i \in 1 .. n : reading(i).faults = {} /\ reading(i).read
  <2> TAKE i \in 1 .. n
  <2>1. reading(i).faults = {}
    BY <1>0, <1>2, <1>5
  <2> QED
    BY <2>1, ReadIsValue DEF ReadsTo
<1>7. Input(s, p, use).values = FlattenSeq(ss)
  <2>1. Input(s, p, use).values =
          FlattenSeq([i \in DOMAIN all |->
             IF readings[i].read THEN <<[value |-> readings[i].value, line |-> all[i].line]>>
             ELSE <<>>])
    BY <1>3, <1>4 DEF Collected
  <2>2. [i \in DOMAIN all |->
           IF readings[i].read THEN <<[value |-> readings[i].value, line |-> all[i].line]>>
           ELSE <<>>] = ss
    BY <1>0, <1>2, <1>6
  <2> QED
    BY <2>1, <2>2
<1> HIDE DEF all, n, reading, item
<1>8. DOMAIN ss = 1 .. n /\ \A i \in 1 .. n : ss[i] = <<item(i)>>
  OBVIOUS
<1>9. ss \in Seq(Range(ss))
  <2>1. \A i \in 1 .. n : ss[i] \in Range(ss)
    BY <1>8 DEF Range
  <2> HIDE DEF ss
  <2>2. ss = [i \in 1 .. n |-> ss[i]]
    BY DEF ss
  <2> QED
    BY <1>2, <2>1, <2>2
<1> HIDE DEF ss
<1>10. AllLists(ss, n)
  BY <1>8, OneElement DEF AllLists
<1>11. IsList(FlattenSeq(ss)) /\ Range(FlattenSeq(ss)) = Elements(ss, n)
  BY <1>2, <1>8, <1>9, <1>10, FlattenLists
<1>12. Elements(ss, n) = {item(i) : i \in 1 .. n}
  <2>1. \A i \in 1 .. n : Range(ss[i]) = {item(i)}
    BY <1>8, OneElement
  <2> QED
    BY <2>1 DEF Elements
<1>13. ASSUME NEW i \in 1 .. n
       PROVE  \E t \in About(s, p) : Read(kind, t) = reading(i)
  <2>1. all[i] \in Found(s, p)
    BY <1>1, <1>2 DEF Range
  <2>2. PICK t \in About(s, p) : all[i] = Occurrence(t)
    BY <2>1, FoundAre
  <2>3. t[2] = p
    BY DEF About
  <2> QED
    BY <2>2, <2>3 DEF Read, reading
<1>14. ASSUME NEW t \in About(s, p)
       PROVE  \E i \in 1 .. n : Read(kind, t) = reading(i)
  <2>1. Occurrence(t) \in Range(all)
    BY <1>1, FoundAre
  <2>2. PICK i \in 1 .. n : all[i] = Occurrence(t)
    BY <1>2, <2>1 DEF Range
  <2>3. t[2] = p
    BY DEF About
  <2> QED
    BY <2>2, <2>3 DEF Read, reading
<1>15. \A i \in 1 .. n : item(i).value = reading(i).value
  BY DEF item
<1> DEFINE values == Input(s, p, use).values
<1>16. IsList(values) /\ Range(values) = {item(i) : i \in 1 .. n}
  BY <1>7, <1>11, <1>12
<1> HIDE DEF values
<1>17. \A t \in About(s, p) :
          Read(kind, t).faults = {} /\ \E x \in Range(values) : x.value = Read(kind, t).value
  <2> TAKE t \in About(s, p)
  <2>1. PICK i \in 1 .. n : Read(kind, t) = reading(i)
    BY <1>14
  <2>2. item(i) \in Range(values) /\ item(i).value = reading(i).value
    BY <1>15, <1>16
  <2> QED
    BY <1>6, <2>1, <2>2
<1>18. \A x \in Range(values) :
          \E t \in About(s, p) : Read(kind, t).faults = {} /\ x.value = Read(kind, t).value
  <2> TAKE x \in Range(values)
  <2>1. PICK i \in 1 .. n : x = item(i)
    BY <1>16
  <2>2. PICK t \in About(s, p) : Read(kind, t) = reading(i)
    BY <1>13
  <2> QED
    BY <1>6, <1>15, <2>1, <2>2
<1>19. ReadAll(values, About(s, p), kind)
  BY <1>16, <1>17, <1>18 DEF ReadAll
<1> QED
  BY <1>19 DEF values

-----------------------------------------------------------------------------
(* The constraints of a shape.                                             *)

ConstraintOf(p, v, with) == [constraint |-> p, value |-> v.value, with |-> with, line |-> v.line]

LEMMA MadeLists ==
  ASSUME NEW p, NEW values, IsList(values), NEW with
  PROVE  /\ IsList(Made(p, values, with))
         /\ Range(Made(p, values, with)) = {ConstraintOf(p, v, with) : v \in Range(values)}
<1> DEFINE S == {ConstraintOf(p, v, with) : v \in Range(values)}
           n == Len(values)
           made == [i \in 1 .. n |-> ConstraintOf(p, values[i], with)]
<1>1. n \in Nat /\ DOMAIN values = 1 .. n
  BY DEF IsList
<1>2. Made(p, values, with) = made
  BY <1>1 DEF Made, ConstraintOf
<1>3. \A i \in 1 .. n : values[i] \in Range(values)
  BY <1>1 DEF Range
<1> HIDE DEF n
<1>4. made \in Seq(S)
  BY <1>1, <1>3
<1>5. Range(made) = S
  BY <1>1, <1>3 DEF Range
<1> QED
  BY <1>2, <1>4, <1>5, ListOf

\* Whether the values of a parameter become constraints.
Counted(given, p) ==
  /\ p \in {"sh:closed", "sh:uniqueLang"} => Flag(given, p)
  /\ p = "sh:qualifiedValueShape" => DOMAIN QualifiedCounts(given) # {}

Makes(given, c, p) == \E v \in Range(given[p].values) : c.constraint = p /\ c.value = v.value

MakesAll(cs, given, p) ==
  \A v \in Range(given[p].values) : \E c \in Range(cs) : c.constraint = p /\ c.value = v.value

\* cs are the constraints of the parameters P.
MadeOf(cs, given, P) ==
  /\ IsList(cs)
  /\ \A c \in Range(cs) : \E p \in P : Makes(given, c, p)
  /\ \A p \in P : Counted(given, p) => MakesAll(cs, given, p)

LEMMA MadeOfOne ==
  ASSUME NEW given, NEW p, IsList(given[p].values), NEW with
  PROVE  MadeOf(Made(p, given[p].values, with), given, {p})
<1> DEFINE cs == Made(p, given[p].values, with)
           S == Range(given[p].values)
<1>1. IsList(cs) /\ Range(cs) = {ConstraintOf(p, v, with) : v \in S}
  BY MadeLists
<1> HIDE DEF cs
<1>2. \A v \in S : ConstraintOf(p, v, with).constraint = p
                   /\ ConstraintOf(p, v, with).value = v.value
  BY DEF ConstraintOf
<1>3. \A c \in Range(cs) : Makes(given, c, p)
  BY <1>1, <1>2 DEF Makes
<1>4. MakesAll(cs, given, p)
  BY <1>1, <1>2 DEF MakesAll
<1>5. MadeOf(cs, given, {p})
  BY <1>1, <1>3, <1>4 DEF MadeOf
<1> QED
  BY <1>5 DEF cs

LEMMA MadeOfNone ==
  ASSUME NEW given, NEW p, ~ Counted(given, p)
  PROVE  MadeOf(<<>>, given, {p})
<1>1. Range(<<>>) = {} /\ <<>> \in Seq({})
  BY DEF Range
<1>2. IsList(<<>>) /\ Range(<<>>) = {}
  BY <1>1 DEF IsList
<1> QED
  BY <1>2 DEF MadeOf

LEMMA MadeOfBoth ==
  ASSUME NEW given, NEW as, NEW bs, NEW A, NEW B, MadeOf(as, given, A), MadeOf(bs, given, B)
  PROVE  MadeOf(as \o bs, given, A \cup B)
<1> DEFINE cs == as \o bs
<1>1. IsList(as) /\ IsList(bs)
  BY DEF MadeOf
<1>2. IsList(cs) /\ Range(cs) = Range(as) \cup Range(bs)
  BY <1>1, ConcatLists
<1> HIDE DEF cs
<1>3. \A c \in Range(cs) : \E p \in A \cup B : Makes(given, c, p)
  BY <1>2 DEF MadeOf
<1>4. \A p \in A \cup B : Counted(given, p) => MakesAll(cs, given, p)
  <2>1. \A p : MakesAll(as, given, p) \/ MakesAll(bs, given, p) => MakesAll(cs, given, p)
    BY <1>2 DEF MakesAll
  <2> QED
    BY <2>1 DEF MadeOf
<1>5. MadeOf(cs, given, A \cup B)
  BY <1>2, <1>3, <1>4 DEF MadeOf
<1> QED
  BY <1>5 DEF cs

LEMMA MadeOfPlain ==
  ASSUME NEW given, \A p \in Range(Plain) : IsList(given[p].values)
  PROVE  MadeOf(FlattenSeq([i \in DOMAIN Plain |-> Made(Plain[i], given[Plain[i]].values, <<>>)]),
                given, Range(Plain))
<1> DEFINE n == Len(Plain)
           ss == [i \in DOMAIN Plain |-> Made(Plain[i], given[Plain[i]].values, <<>>)]
           cs == FlattenSeq(ss)
<1>1. n \in Nat /\ DOMAIN Plain = 1 .. n
  BY DEF Plain
<1> HIDE DEF n
<1>2. DOMAIN ss = 1 .. n /\ \A i \in 1 .. n : ss[i] = Made(Plain[i], given[Plain[i]].values, <<>>)
  BY <1>1
<1>3. ss \in Seq(Range(ss))
  <2>1. \A i \in 1 .. n : ss[i] \in Range(ss)
    BY <1>2 DEF Range
  <2>2. ss = [i \in 1 .. n |-> ss[i]]
    BY <1>1
  <2> HIDE DEF ss
  <2> QED
    BY <1>1, <2>1, <2>2
<1> HIDE DEF ss
<1>4. ASSUME NEW i \in 1 .. n
      PROVE  MadeOf(ss[i], given, {Plain[i]})
  <2>1. Plain[i] \in Range(Plain)
    BY <1>1 DEF Range
  <2> QED
    BY <1>2, <2>1, MadeOfOne
<1>5. AllLists(ss, n)
  BY <1>4 DEF AllLists, MadeOf
<1>6. IsList(cs) /\ Range(cs) = Elements(ss, n)
  BY <1>1, <1>2, <1>3, <1>5, FlattenLists
<1> HIDE DEF cs
<1>7. ASSUME NEW c \in Range(cs)
      PROVE  \E p \in Range(Plain) : Makes(given, c, p)
  <2>1. PICK i \in 1 .. n : c \in Range(ss[i])
    BY <1>6 DEF Elements
  <2>2. Makes(given, c, Plain[i])
    BY <1>4, <2>1 DEF MadeOf
  <2>3. Plain[i] \in Range(Plain)
    BY <1>1 DEF Range
  <2> QED
    BY <2>2, <2>3
<1>8. ASSUME NEW p \in Range(Plain), Counted(given, p)
      PROVE  MakesAll(cs, given, p)
  <2>1. PICK i \in 1 .. n : p = Plain[i]
    BY <1>1 DEF Range
  <2>2. MakesAll(ss[i], given, p)
    BY <1>4, <1>8, <2>1 DEF MadeOf
  <2>3. Range(ss[i]) \subseteq Range(cs)
    BY <1>6 DEF Elements
  <2> QED
    BY <2>2, <2>3 DEF MakesAll
<1>9. MadeOf(cs, given, Range(Plain))
  BY <1>6, <1>7, <1>8 DEF MadeOf
<1> QED
  BY <1>9 DEF cs, ss

LEMMA ConstraintsAreMade ==
  ASSUME NEW given, \A p \in ConstraintParameters : IsList(given[p].values)
  PROVE  MadeOf(Constraints(given), given, ConstraintParameters)
<1> DEFINE plain == FlattenSeq([i \in DOMAIN Plain |-> Made(Plain[i], given[Plain[i]].values, <<>>)])
           flags == [i \in DOMAIN given["sh:flags"].values |-> given["sh:flags"].values[i].value]
           pattern == Made("sh:pattern", given["sh:pattern"].values, <<"flags", flags>>)
           ignored == given["sh:ignoredProperties"].values
           closed == IF ~ Flag(given, "sh:closed") THEN <<>>
                     ELSE Made("sh:closed", given["sh:closed"].values,
                               <<"ignored", IF ignored = <<>> THEN <<>> ELSE Items(ignored[1].value)>>)
           unique == IF Flag(given, "sh:uniqueLang")
                     THEN Made("sh:uniqueLang", given["sh:uniqueLang"].values, <<>>) ELSE <<>>
<1>1. Constraints(given) = plain \o pattern \o closed \o Qualified(given) \o unique
  BY DEF Constraints
<1>2. MadeOf(plain, given, Range(Plain))
  BY MadeOfPlain DEF ConstraintParameters
<1>3. MadeOf(pattern, given, {"sh:pattern"})
  BY MadeOfOne DEF ConstraintParameters
<1>4. MadeOf(closed, given, {"sh:closed"})
  <2>1. CASE Flag(given, "sh:closed")
    BY <2>1, MadeOfOne DEF ConstraintParameters
  <2>2. CASE ~ Flag(given, "sh:closed")
    <3>1. ~ Counted(given, "sh:closed") /\ closed = <<>>
      BY <2>2 DEF Counted
    <3> QED
      BY <3>1, MadeOfNone
  <2> QED
    BY <2>1, <2>2
<1>5. MadeOf(Qualified(given), given, {"sh:qualifiedValueShape"})
  <2>1. CASE DOMAIN QualifiedCounts(given) = {}
    <3>1. ~ Counted(given, "sh:qualifiedValueShape") /\ Qualified(given) = <<>>
      BY <2>1 DEF Counted, Qualified
    <3> QED
      BY <3>1, MadeOfNone
  <2>2. CASE DOMAIN QualifiedCounts(given) # {}
    <3> DEFINE with == <<"counts", QualifiedCounts(given),
                         Flag(given, "sh:qualifiedValueShapesDisjoint")>>
    <3>1. Qualified(given) =
            Made("sh:qualifiedValueShape", given["sh:qualifiedValueShape"].values, with)
      BY <2>2 DEF Qualified
    <3> QED
      BY <3>1, MadeOfOne DEF ConstraintParameters
  <2> QED
    BY <2>1, <2>2
<1>6. MadeOf(unique, given, {"sh:uniqueLang"})
  <2>1. CASE Flag(given, "sh:uniqueLang")
    BY <2>1, MadeOfOne DEF ConstraintParameters
  <2>2. CASE ~ Flag(given, "sh:uniqueLang")
    <3>1. ~ Counted(given, "sh:uniqueLang") /\ unique = <<>>
      BY <2>2 DEF Counted
    <3> QED
      BY <3>1, MadeOfNone
  <2> QED
    BY <2>1, <2>2
<1> HIDE DEF plain, pattern, closed, unique
<1>7. MadeOf(plain \o pattern, given, Range(Plain) \cup {"sh:pattern"})
  BY <1>2, <1>3, MadeOfBoth
<1>8. MadeOf(plain \o pattern \o closed, given,
             Range(Plain) \cup {"sh:pattern"} \cup {"sh:closed"})
  BY <1>4, <1>7, MadeOfBoth
<1>9. MadeOf(plain \o pattern \o closed \o Qualified(given), given,
             Range(Plain) \cup {"sh:pattern"} \cup {"sh:closed"} \cup {"sh:qualifiedValueShape"})
  BY <1>5, <1>8, MadeOfBoth
<1>10. MadeOf(Constraints(given), given,
              Range(Plain) \cup {"sh:pattern"} \cup {"sh:closed"} \cup {"sh:qualifiedValueShape"}
              \cup {"sh:uniqueLang"})
  BY <1>1, <1>6, <1>9, MadeOfBoth
<1>11. Range(Plain) \cup {"sh:pattern"} \cup {"sh:closed"} \cup {"sh:qualifiedValueShape"}
         \cup {"sh:uniqueLang"} = ConstraintParameters
  BY DEF ConstraintParameters
<1> QED
  BY <1>10, <1>11

-----------------------------------------------------------------------------
(* Nothing is ignored.                                                     *)

KindOf(p) == Parameters[p].kind

\* All that is given of a shape by the parameters that become constraints or
\* property shapes is read.
SettingsRead(s, given) ==
  \A p \in ConstraintParameters \cup {"sh:property"} :
      ReadAll(given[p].values, About(s, p), KindOf(p))

LEMMA NoFaults ==
  ASSUME Problems = {}, NEW s \in ShapeIds
  PROVE  ShapeFaults(s, Settings(s)) = {}
<1> DEFINE x == [shape |-> s, given |-> Settings(s)]
<1>1. ShapeFaults(x.shape, x.given) \subseteq Problems
  BY DEF Problems
<1> QED
  BY <1>1

LEMMA QualifiedAreCounted ==
  ASSUME NEW s, NEW given, QualifiedFaults(s, given) = {}
  PROVE  /\ given["sh:qualifiedValueShape"].faults = {}
         /\ Values(s, "sh:qualifiedValueShape") # <<>> => DOMAIN QualifiedCounts(given) # {}
<1> DEFINE shapes == Values(s, "sh:qualifiedValueShape")
           min == given["sh:qualifiedMinCount"].values
           max == given["sh:qualifiedMaxCount"].values
           counts == min \o max
           none == IF shapes = <<>> /\ counts # <<>>
                   THEN {<<counts[1].line, "counts", "no shape">>}
                   ELSE IF shapes # <<>> /\ counts = <<>>
                   THEN {<<shapes[1].line, "sh:qualifiedValueShape", "no counts">>}
                   ELSE given["sh:qualifiedValueShape"].faults
           read == UNION {given[p].faults : p \in Counts \cup {"sh:qualifiedValueShapesDisjoint"}}
<1>1. none = {}
  <2>1. QualifiedFaults(s, given) = read \cup none
    BY DEF QualifiedFaults
  <2> HIDE DEF read, none
  <2> QED
    BY <2>1
<1>2. /\ ~ (shapes = <<>> /\ counts # <<>>)
      /\ ~ (shapes # <<>> /\ counts = <<>>)
      /\ given["sh:qualifiedValueShape"].faults = {}
  <2> HIDE DEF shapes, counts
  <2> QED
    BY <1>1
<1>3. shapes # <<>> => DOMAIN QualifiedCounts(given) # {}
  <2> HAVE shapes # <<>>
  <2>1. min \o max # <<>>
    BY <1>2
  <2> HIDE DEF min, max
  <2>2. min # <<>> \/ max # <<>>
    <3>1. <<>> \o <<>> = <<>>
      OBVIOUS
    <3> QED
      BY <2>1, <3>1
  <2>3. DOMAIN QualifiedCounts(given) = {q \in Counts : given[q].values # <<>>}
    BY DEF QualifiedCounts
  <2> QED
    BY <2>2, <2>3 DEF Counts, min, max
<1> QED
  BY <1>2, <1>3

LEMMA ShapesAreRead ==
  ASSUME IsGraph(graph), Problems = {}, NEW s \in ShapeIds
  PROVE  /\ SettingsRead(s, Settings(s))
         /\ Values(s, "sh:qualifiedValueShape") # <<>> =>
               DOMAIN QualifiedCounts(Settings(s)) # {}
<1> DEFINE given == Settings(s)
<1>1. /\ QualifiedFaults(s, given) = {}
      /\ \A p \in DOMAIN Parameters \
            {"sh:qualifiedValueShape", "sh:qualifiedMinCount", "sh:qualifiedMaxCount",
             "sh:qualifiedValueShapesDisjoint", "sh:ignoredProperties"} : given[p].faults = {}
  <2> HIDE DEF given
  <2> DEFINE P == DOMAIN Parameters \
            {"sh:qualifiedValueShape", "sh:qualifiedMinCount", "sh:qualifiedMaxCount",
             "sh:qualifiedValueShapesDisjoint", "sh:ignoredProperties"}
             read == UNION {given[p].faults : p \in P}
             closed == IF Flag(given, "sh:closed") THEN given["sh:ignoredProperties"].faults ELSE {}
  <2>1. ShapeFaults(s, given) = {}
    BY NoFaults DEF given
  <2>2. ShapeFaults(s, given) = read \cup QualifiedFaults(s, given) \cup closed
    BY DEF ShapeFaults
  <2> HIDE DEF P, closed
  <2>3. QualifiedFaults(s, given) = {} /\ \A p \in P : given[p].faults = {}
    BY <2>1, <2>2
  <2> QED
    BY <2>3 DEF P
<1>2. /\ given["sh:qualifiedValueShape"].faults = {}
      /\ Values(s, "sh:qualifiedValueShape") # <<>> => DOMAIN QualifiedCounts(given) # {}
  BY <1>1, QualifiedAreCounted
<1>3. ASSUME NEW p \in ConstraintParameters \cup {"sh:property"}
      PROVE  ReadAll(given[p].values, About(s, p), KindOf(p))
  <2>1. p \in DOMAIN Parameters /\ Parameters[p].kind # "path"
    <3>1. "sh:property" \in References
      BY DEF References
    <3> QED
      BY <3>1, ParameterKinds
  <2>2. p \notin {"sh:qualifiedMinCount", "sh:qualifiedMaxCount",
                  "sh:qualifiedValueShapesDisjoint", "sh:ignoredProperties"}
    BY PlainNames DEF ConstraintParameters
  <2>3. given[p].faults = {}
    BY <1>1, <1>2, <2>1, <2>2
  <2>4. given[p] = Input(s, p, Parameters[p])
    BY <2>1 DEF Settings
  <2> QED
    BY <2>1, <2>3, <2>4, InputReads DEF KindOf
<1> QED
  BY <1>2, <1>3 DEF SettingsRead

BuiltConstraints(s) == Constraints(Settings(s))

\* What a triple with a constraint parameter becomes.
LEMMA TripleIsConstraint ==
  ASSUME IsGraph(graph), Problems = {}, NEW t \in Triples, t[2] \in ConstraintParameters, ~ IsOff(t)
  PROVE  /\ t[1] \in ShapeIds
         /\ \E c \in Range(BuiltConstraints(t[1])) :
               c.constraint = t[2] /\ c.value \in {t[3], ListAt(t[3])}
<1> DEFINE s == t[1]
           p == t[2]
           given == Settings(s)
           k == KindOf(p)
<1>1. s \in ShapeIds
  BY ConstraintSubjects DEF ShapeIds
<1>2. /\ SettingsRead(s, given)
      /\ Values(s, "sh:qualifiedValueShape") # <<>> => DOMAIN QualifiedCounts(given) # {}
  BY <1>1, ShapesAreRead
<1>3. t \in About(s, p)
  BY DEF About
<1>4. ReadAll(given[p].values, About(s, p), k)
  BY <1>2 DEF SettingsRead
<1>5. Read(k, t).faults = {} /\ \E x \in Range(given[p].values) : x.value = Read(k, t).value
  BY <1>3, <1>4 DEF ReadAll
<1>6. PICK x \in Range(given[p].values) : x.value = Read(k, t).value
  BY <1>5
<1>8. k # "path"
  BY ParameterKinds DEF KindOf
<1>9. /\ x.value \in {t[3], ListAt(t[3])}
      /\ k \notin DOMAIN ItemKind => x.value = t[3] /\ Accepts(k, t[3])
  <2>1. ReadSoundly(k, t)
    BY <1>5, <1>8, ReadTriple
  <2> QED
    BY <1>6, <2>1 DEF ReadSoundly
<1>10. p \in {"sh:closed", "sh:uniqueLang"} => Flag(given, p)
  <2> HAVE p \in {"sh:closed", "sh:uniqueLang"}
  <2>1. k = "boolean" /\ k \notin DOMAIN ItemKind
    BY ParameterKinds, ItemKinds DEF KindOf
  <2>2. x.value = t[3] /\ t[3][3] \in {"true", "false"}
    BY <1>9, <2>1 DEF Accepts
  <2>3. x.value[3] = "true"
    BY <2>2 DEF IsOff
  <2> QED
    BY <2>3 DEF Flag
<1>11. p = "sh:qualifiedValueShape" => DOMAIN QualifiedCounts(given) # {}
  <2> HAVE p = "sh:qualifiedValueShape"
  <2>1. Occurrence(t) \in Range(Values(s, p))
    BY <1>3, ValuesAreFound, FoundAre
  <2>2. Values(s, p) # <<>>
    BY <2>1 DEF Range
  <2> QED
    BY <1>2, <2>2
<1>12. \A q \in ConstraintParameters : IsList(given[q].values)
  BY <1>2 DEF SettingsRead, ReadAll
<1>13. MadeOf(Constraints(given), given, ConstraintParameters)
  BY <1>12, ConstraintsAreMade
<1>14. MakesAll(Constraints(given), given, p)
  BY <1>10, <1>11, <1>13 DEF MadeOf, Counted
<1>15. \E c \in Range(Constraints(given)) : c.constraint = p /\ c.value = x.value
  BY <1>14 DEF MakesAll
<1> QED
  BY <1>1, <1>9, <1>15 DEF BuiltConstraints

\* Every shape that a constraint of a shape refers to is among the shapes.
LEMMA ReferredAreShapes ==
  ASSUME IsGraph(graph), Problems = {}, NEW s \in ShapeIds,
         NEW c \in Range(BuiltConstraints(s))
  PROVE  Range(Referred(c)) \subseteq ShapeIds
<1> DEFINE given == Settings(s)
<1>1. SettingsRead(s, given)
  BY ShapesAreRead
<1>2. \A q \in ConstraintParameters : IsList(given[q].values)
  BY <1>1 DEF SettingsRead, ReadAll
<1>3. MadeOf(Constraints(given), given, ConstraintParameters)
  BY <1>2, ConstraintsAreMade
<1>4. PICK p \in ConstraintParameters : Makes(given, c, p)
  BY <1>3 DEF MadeOf, BuiltConstraints
<1>5. PICK v \in Range(given[p].values) : c.constraint = p /\ c.value = v.value
  BY <1>4 DEF Makes
<1> DEFINE k == KindOf(p)
<1>6. PICK t \in About(s, p) : Read(k, t).faults = {} /\ v.value = Read(k, t).value
  BY <1>1 DEF SettingsRead, ReadAll
<1>7. t \in Triples /\ t[2] = p
  BY DEF About
<1>8. k # "path"
  BY ParameterKinds DEF KindOf
<1>9. ReadSoundly(k, t)
  BY <1>6, <1>8, ReadTriple
<1>10. CASE p \in Connectives
  <2>1. k = "shapeList"
    BY <1>10, ParameterKinds DEF KindOf
  <2>2. /\ c.value = ListAt(t[3]) /\ ListAt(t[3]) # Unlisted
        /\ \A i \in DOMAIN Items(ListAt(t[3])) : IsNode(Items(ListAt(t[3]))[i])
    BY <1>5, <1>6, <1>9, <2>1 DEF ReadSoundly
  <2>3. Referred(c) = Items(ListAt(t[3]))
    BY <1>5, <1>10, <2>2 DEF Referred
  <2>4. \A i \in Range(Items(ListAt(t[3]))) : IsNode(i)
    BY <2>2 DEF Range
  <2>5. Range(Items(ListAt(t[3]))) \subseteq ShapeIds
    BY <1>7, <1>10, <2>2, <2>4 DEF ShapeIds
  <2> QED
    BY <2>3, <2>5
<1>11. CASE p \notin Connectives /\ p \in References
  <2>1. k = "shape" /\ k \notin DOMAIN ItemKind
    BY <1>11, ParameterKinds, ItemKinds DEF KindOf
  <2>2. c.value = t[3] /\ IsNode(t[3])
    BY <1>5, <1>6, <1>9, <2>1 DEF ReadSoundly, Accepts
  <2>3. Referred(c) = <<t[3]>>
    BY <1>5, <1>11, <2>2 DEF Referred
  <2>4. t[3] \in ShapeIds
    BY <1>7, <1>11, <2>2 DEF ShapeIds
  <2> QED
    BY <2>3, <2>4, OneElement
<1>12. CASE p \notin Connectives /\ p \notin References
  <2>1. Referred(c) = <<>>
    BY <1>5, <1>12 DEF Referred
  <2> QED
    BY <2>1 DEF Range
<1> QED
  BY <1>10, <1>11, <1>12

LEMMA PropertiesAreShapes ==
  ASSUME IsGraph(graph), Problems = {}, NEW s \in ShapeIds,
         NEW v \in Range(Settings(s)["sh:property"].values)
  PROVE  v.value \in ShapeIds
<1> DEFINE p == "sh:property"
           k == KindOf(p)
<1>1. SettingsRead(s, Settings(s))
  BY ShapesAreRead
<1>2. ReadAll(Settings(s)[p].values, About(s, p), k)
  BY <1>1 DEF SettingsRead
<1>3. PICK t \in About(s, p) : Read(k, t).faults = {} /\ v.value = Read(k, t).value
  BY <1>2 DEF ReadAll
<1>4. t \in Triples /\ t[2] = p
  BY DEF About
<1>5. p \in References
  BY DEF References
<1>6. k = "shape" /\ k \notin DOMAIN ItemKind /\ k # "path"
  BY <1>5, ParameterKinds, ItemKinds DEF KindOf
<1>7. ReadSoundly(k, t)
  BY <1>3, <1>6, ReadTriple
<1>8. v.value = t[3] /\ IsNode(t[3])
  BY <1>3, <1>6, <1>7 DEF ReadSoundly, Accepts
<1> QED
  BY <1>4, <1>5, <1>8 DEF ShapeIds

LEMMA AnnotationIsRead ==
  ASSUME IsGraph(graph), Problems = {}, NEW t \in Triples, t[2] \in DOMAIN Usage
  PROVE  <<t[2], t[3]>> \in Annotations(t[1])
<1> DEFINE s == t[1]
           p == t[2]
           use == Usage[p][1]
<1>1. t \in AnnotationTriples
  BY DEF AnnotationTriples
<1>2. AnnotationFaults = {}
  BY DEF Problems
<1> DEFINE placed == UNION {PlacementFaults(u, SubjectKind(u[1])) : u \in AnnotationTriples}
           read == UNION {Input(u[1], u[2], Usage[u[2]][1]).faults : u \in {u \in AnnotationTriples :
                              u[2] \in DOMAIN Usage /\ (u[1] \in ShapeIds \/ IsIri(u[1]))}}
<1>3. AnnotationFaults = placed \cup read
  BY DEF AnnotationFaults
<1>4. placed = {} /\ read = {}
  <2> HIDE DEF placed, read
  <2> QED
    BY <1>2, <1>3
<1>5. PlacementFaults(t, SubjectKind(s)) = {}
  BY <1>1, <1>4
<1>6. SubjectKind(s) \in Usage[p][2]
  BY <1>5 DEF PlacementFaults
<1>7. s \in ShapeIds \/ IsIri(s)
  BY <1>6, UsageKinds DEF SubjectKind
<1>8. Input(s, p, use).faults = {}
  BY <1>1, <1>4, <1>7
<1> HIDE DEF placed, read
<1>9. use.kind # "path" /\ use.kind \notin DOMAIN ItemKind
  BY UsageKinds, ItemKinds
<1>10. ReadAll(Input(s, p, use).values, About(s, p), use.kind)
  BY <1>8, <1>9, InputReads
<1>11. t \in About(s, p)
  BY DEF About
<1> HIDE DEF use
<1>12. PICK x \in Range(Input(s, p, use).values) : x.value = Read(use.kind, t).value
  BY <1>10, <1>11 DEF ReadAll
<1>13. Read(use.kind, t).faults = {}
  BY <1>10, <1>11 DEF ReadAll
<1>14. Read(use.kind, t).value = t[3]
  BY <1>9, <1>13, ReadTriple DEF ReadSoundly
<1>15. <<p, x.value>> \in {<<p, v.value>> : v \in Range(Input(s, p, Usage[p][1]).values)}
  BY DEF use
<1>16. <<p, x.value>> \in Annotations(s)
  BY <1>15 DEF Annotations
<1> QED
  BY <1>12, <1>14, <1>16

LEMMA SoundGraphIsRead ==
  ASSUME IsGraph(graph)
  PROVE  NothingIsIgnored
<1> SUFFICES ASSUME Problems = {}, NEW shapes \in BuiltShapes
             PROVE  /\ \A t \in Triples :
                          /\ t[2] \in ConstraintParameters /\ ~ IsOff(t) =>
                                /\ t[1] \in DOMAIN shapes
                                /\ \E c \in Range(shapes[t[1]].constraints) :
                                      c.constraint = t[2] /\ c.value \in {t[3], ListAt(t[3])}
                          /\ t[2] \in DOMAIN Usage => <<t[2], t[3]>> \in Annotations(t[1])
                    /\ \A s \in DOMAIN shapes :
                          /\ \A c \in Range(shapes[s].constraints) :
                                Range(Referred(c)) \subseteq ShapeIds
                          /\ \A p \in Range(shapes[s].properties) : p.value \in ShapeIds
  BY DEF NothingIsIgnored, ConstraintParameters
<1>1. shapes = Built([s \in ShapeIds |-> Settings(s)])
  BY DEF BuiltShapes
<1>2. DOMAIN shapes = ShapeIds /\ \A s \in ShapeIds :
          /\ shapes[s].constraints = BuiltConstraints(s)
          /\ shapes[s].properties = Settings(s)["sh:property"].values
  BY <1>1 DEF Built, BuiltConstraints
<1>3. ASSUME NEW t \in Triples, t[2] \in ConstraintParameters, ~ IsOff(t)
      PROVE  /\ t[1] \in DOMAIN shapes
             /\ \E c \in Range(shapes[t[1]].constraints) :
                   c.constraint = t[2] /\ c.value \in {t[3], ListAt(t[3])}
  BY <1>2, <1>3, TripleIsConstraint
<1>4. ASSUME NEW s \in DOMAIN shapes
      PROVE  /\ \A c \in Range(shapes[s].constraints) : Range(Referred(c)) \subseteq ShapeIds
             /\ \A p \in Range(shapes[s].properties) : p.value \in ShapeIds
  BY <1>2, ReferredAreShapes, PropertiesAreShapes
<1> QED
  BY <1>3, <1>4, AnnotationIsRead

\* Another order of the triples is the same graph for a reader.
LEMMA RearrangedIsGraph ==
  ASSUME IsGraph(graph), Rearrange
  PROVE  IsGraph(graph')
<1>1. ASSUME NEW t \in Triples, NEW u \in Triples,
             graph' = [graph EXCEPT ![t] = graph[u], ![u] = graph[t]]
      PROVE  IsGraph(graph')
  <2>1. DOMAIN graph' = DOMAIN graph
    BY <1>1
  <2>2. \A x \in DOMAIN graph : graph'[x] \in Nat
    BY <1>1 DEF IsGraph, Triples
  <2> QED
    BY <2>1, <2>2 DEF IsGraph
<1>2. ASSUME NEW a \in Blanks, NEW b \in Blanks,
             LET to(t) == <<Renamed(t[1], a, b), t[2], Renamed(t[3], a, b)>>
             IN  graph' = [u \in {to(t) : t \in Triples} |-> graph[to(u)]]
      PROVE  IsGraph(graph')
  <2> DEFINE to(t) == <<Renamed(t[1], a, b), t[2], Renamed(t[3], a, b)>>
             D == {to(t) : t \in Triples}
             terms == UNION {{t[1], t[3]} : t \in DOMAIN graph}
  <2>1. graph' = [u \in D |-> graph[to(u)]]
    BY <1>2
  <2>2. IsFiniteSet(D)
    <3> DEFINE f == [t \in Triples |-> to(t)]
    <3>1. f \in Surjection(Triples, D)
      BY DEF Surjection
    <3>2. IsFiniteSet(Triples)
      BY DEF IsGraph, Triples
    <3> QED
      BY <3>1, <3>2, FS_Surjection
  <2>3. a \in terms /\ b \in terms
    BY DEF Blanks, Terms, Subjects, Triples
  <2>4. ASSUME NEW t \in Triples
        PROVE  /\ to(t) = <<to(t)[1], to(t)[2], to(t)[3]>>
               /\ to(t)[1] \in terms /\ to(t)[3] \in terms
               /\ graph[to(to(t))] \in Nat
    <3>1. t \in DOMAIN graph /\ t = <<t[1], t[2], t[3]>> /\ graph[t] \in Nat
      BY DEF IsGraph, Triples
    <3>2. t[1] \in terms /\ t[3] \in terms
      BY <3>1
    <3>3. \A x : Renamed(Renamed(x, a, b), a, b) = x /\ (x \in terms => Renamed(x, a, b) \in terms)
      BY <2>3 DEF Renamed
    <3>4. to(t)[1] = Renamed(t[1], a, b) /\ to(t)[2] = t[2] /\ to(t)[3] = Renamed(t[3], a, b)
      OBVIOUS
    <3>5. to(to(t)) = t
      BY <3>1, <3>3, <3>4
    <3> HIDE DEF terms
    <3> QED
      BY <3>1, <3>2, <3>3, <3>4, <3>5
  <2>5. DOMAIN graph' = D /\ \A u \in D : u = <<u[1], u[2], u[3]>> /\ graph'[u] \in Nat
    BY <2>1, <2>4
  <2>6. \A x \in UNION {{u[1], u[3]} : u \in D} : x \in terms
    <3>1. \A u \in D : u[1] \in terms /\ u[3] \in terms
      BY <2>4
    <3> HIDE DEF D, terms
    <3> QED
      BY <3>1
  <2>7. \A x, y \in terms : TextRank(x) \in Nat /\ (TextRank(x) = TextRank(y) => x = y)
    BY DEF IsGraph
  <2> HIDE DEF D, terms
  <2> QED
    BY <2>2, <2>5, <2>6, <2>7 DEF IsGraph
<1> QED
  BY <1>1, <1>2 DEF Rearrange

LEMMA GraphStays == Spec => []IsGraph(graph)
<1>1. Init => IsGraph(graph)
  BY CompilationsAssumption DEF Init
<1>2. IsGraph(graph) /\ [Next]_vars => IsGraph(graph)'
  <2> SUFFICES ASSUME IsGraph(graph), [Next]_vars
               PROVE  IsGraph(graph')
    OBVIOUS
  <2>1. graph' = graph \/ Rearrange
    BY DEF Next, CompilerStep, Phase, Parse, AssignNames, RenderRule, FinishManifest, CreateDir,
           TruncateManifest, WriteManifest, TruncateCypher, WriteCypher, Truncate, Write, Edit,
           vars, sourceVars
  <2> QED
    BY <2>1, RearrangedIsGraph
<1> QED
  BY <1>1, <1>2, PTL DEF Spec

\* When no problem is reported, every triple with a constraint parameter has become a
\* constraint of its subject, every annotation is read, and every shape that a shape
\* refers to is among the shapes: whatever the documents say, in whatever order.
THEOREM NothingIgnored == Spec => []NothingIsIgnored
<1>1. IsGraph(graph) => NothingIsIgnored
  BY SoundGraphIsRead
<1> QED
  BY <1>1, GraphStays, PTL

=============================================================================
