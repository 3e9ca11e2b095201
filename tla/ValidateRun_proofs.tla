------------------------- MODULE ValidateRun_proofs -------------------------
(***************************************************************************)
(* Proofs about ValidateRun, for any number of rules and any database.     *)
(***************************************************************************)
EXTENDS ValidateRun, FiniteSetTheorems, TLAPS

\* What the history says of the database.
HeldInv == \A i \in Rules : db[i] \in held[i] /\ (Quiet => held[i] = {db[i]})

\* What each result says of its rule: the status follows from whether the rule
\* has queries and from the count, which the database has held since, as it has
\* held the rows that are listed.
ResultsInv ==
    \A i \in 1 .. Len(results) :
        /\ results[i].counted <=> results[i].status \in {"passed", "failed"}
        /\ results[i].status \in {"passed", "failed", "timeout", "error"}
              <=> HasQueries(i)
        /\ results[i].status = "failed" <=> results[i].count > 0
        /\ results[i].counted => results[i].count \in held[i]
        /\ results[i].listed => \E n \in held[i] : results[i].rows = Listed(n)

\* The detail query is about the rule whose count was just read.
DetailInv ==
    pc = "detail" => /\ Current \in Rules
                     /\ HasQueries(Current)
                     /\ count \in held[Current]

ProgressInv ==
    /\ pc = "report" => Len(results) = RuleCount
    /\ pc \notin {"rules", "detail", "report"} => results = <<>> /\ asked = 0
    /\ Foreign => pc \in {"checking", "failed: manifest"}

IInv == TypeOK /\ HeldInv /\ ResultsInv /\ DetailInv /\ ProgressInv

-----------------------------------------------------------------------------
LEMMA InitIInv == Init => IInv
<1> SUFFICES ASSUME Init PROVE IInv
  OBVIOUS
<1>1. Len(results) = 0
  BY DEF Init
<1>2. TypeOK
  BY <1>1, ValidateRunAssumption DEF Init, TypeOK, PCs, RuleStatus
<1>3. HeldInv /\ ResultsInv /\ DetailInv
  BY <1>1 DEF Init, HeldInv, Rules, ResultsInv, DetailInv
<1>4. ProgressInv
  BY DEF Init, ProgressInv, Foreign, Target
<1> QED
  BY <1>2, <1>3, <1>4 DEF IInv

\* Appending the result of the current rule keeps what is known of the others.
LEMMA AppendResult ==
  ASSUME TypeOK, ResultsInv, Current \in Rules,
         NEW r \in RuleResult,
         results' = Append(results, r),
         UNCHANGED inputVars,
         \A i \in 1 .. Len(results) : held'[i] = held[i],
         r.counted <=> r.status \in {"passed", "failed"},
         r.status \in {"passed", "failed", "timeout", "error"}
            <=> HasQueries(Current),
         r.status = "failed" <=> r.count > 0,
         r.counted => r.count \in held'[Current],
         r.listed => \E n \in held'[Current] : r.rows = Listed(n)
  PROVE  /\ ResultsInv'
         /\ Len(results') = Len(results) + 1
         /\ Len(results') <= RuleCount
         /\ results' \in Seq(RuleResult)
<1>1. results \in Seq(RuleResult)
  BY DEF TypeOK
<1>3. /\ results' \in Seq(RuleResult)
      /\ Len(results') = Len(results) + 1
      /\ \A i \in 1 .. Len(results) : results'[i] = results[i]
      /\ results'[Len(results) + 1] = r
  BY <1>1
<1>4. Len(results) + 1 <= RuleCount
  BY <1>1, ValidateRunAssumption DEF Current, Rules
<1>5. \A i : HasQueries(i)' <=> HasQueries(i)
  BY DEF HasQueries, inputVars
<1>6. ASSUME NEW i \in 1 .. Len(results')
      PROVE
        /\ results'[i].counted <=> results'[i].status \in {"passed", "failed"}
        /\ results'[i].status \in {"passed", "failed", "timeout", "error"}
              <=> HasQueries(i)
        /\ results'[i].status = "failed" <=> results'[i].count > 0
        /\ results'[i].counted => results'[i].count \in held'[i]
        /\ results'[i].listed => \E n \in held'[i] : results'[i].rows = Listed(n)
  <2>1. CASE i \in 1 .. Len(results)
    BY <1>3, <2>1 DEF ResultsInv
  <2>2. CASE i = Len(results) + 1
    BY <1>3, <2>2 DEF Current
  <2> QED
    BY <1>1, <1>3, <2>1, <2>2
<1> QED
  BY <1>3, <1>4, <1>5, <1>6 DEF ResultsInv

LEMMA ResultFields ==
  ASSUME NEW status, NEW n
  PROVE  /\ Result(status, n).status = status
         /\ Result(status, n).counted <=> status \in {"passed", "failed"}
         /\ Result(status, n).count = n
         /\ ~ Result(status, n).listed
         /\ status \in RuleStatus /\ n \in 0 .. MaxViolations =>
              Result(status, n) \in RuleResult
<1>1. 0 \in 0 .. MaxViolations
  BY ValidateRunAssumption
<1>2. (status \in {"passed", "failed"}) \in BOOLEAN
  OBVIOUS
<1> QED
  BY <1>1, <1>2 DEF Result, RuleResult

LEMMA NextIInv == IInv /\ [Next]_vars => IInv'
<1> SUFFICES ASSUME IInv, [Next]_vars PROVE IInv'
  OBVIOUS
<1> USE DEF IInv
<1>1. CASE SchemaFails \/ Compile \/ CheckDialect
  <2>1. /\ UNCHANGED <<inputVars, world, count, results, asked>>
        /\ pc \in {"compiling", "checking"}
        /\ pc' \in PCs \ {"detail", "report"}
        /\ results = <<>> /\ asked = 0
        /\ Foreign => pc' = "failed: manifest"
    BY <1>1 DEF SchemaFails, Compile, CheckDialect, PCs, ProgressInv
  <2> QED
    BY <2>1 DEF TypeOK, HeldInv, ResultsInv, DetailInv, ProgressInv, HasQueries,
                Quiet, Foreign, inputVars, world
<1>2. CASE ReportUnqueried
  <2>1. PICK status \in {"guaranteed-by-schema", "skipped"} :
           results' = Append(results, Result(status, 0))
    BY <1>2 DEF ReportUnqueried
  <2>2. /\ Current \in Rules /\ ~ HasQueries(Current)
        /\ UNCHANGED <<inputVars, world, pc, count, asked>>
        /\ pc = "rules"
    BY <1>2 DEF ReportUnqueried
  <2>3. /\ ResultsInv'
        /\ Len(results') <= RuleCount
        /\ results' \in Seq(RuleResult)
    BY <2>1, <2>2, AppendResult, ResultFields, ValidateRunAssumption
       DEF RuleStatus, world
  <2> QED
    BY <2>2, <2>3 DEF TypeOK, HeldInv, Quiet, DetailInv, ProgressInv, Foreign, inputVars, world
<1>3. CASE SummaryFails
  <2>1. PICK status \in {"timeout", "error"} :
           results' = Append(results, Result(status, 0))
    BY <1>3 DEF SummaryFails
  <2>2. /\ Current \in Rules /\ HasQueries(Current)
        /\ UNCHANGED <<inputVars, world, pc, count>>
        /\ pc = "rules" /\ asked' = asked + 1
    BY <1>3 DEF SummaryFails
  <2>3. /\ ResultsInv'
        /\ Len(results') <= RuleCount
        /\ results' \in Seq(RuleResult)
    BY <2>1, <2>2, AppendResult, ResultFields, ValidateRunAssumption
       DEF RuleStatus, world
  <2> QED
    BY <2>2, <2>3 DEF TypeOK, HeldInv, Quiet, DetailInv, ProgressInv, Foreign, inputVars, world
<1>4. CASE SummaryAnswers
  <2>1. /\ Current \in Rules /\ HasQueries(Current)
        /\ held' = [held EXCEPT ![Current] = {db[Current]}]
        /\ UNCHANGED <<inputVars, db, writes>>
        /\ pc = "rules" /\ asked' = asked + 1
    BY <1>4 DEF SummaryAnswers
  <2>2. /\ held' \in [Rules -> SUBSET (0 .. MaxViolations)]
        /\ held'[Current] = {db[Current]}
        /\ \A i \in 1 .. Len(results) : held'[i] = held[i]
    BY <2>1 DEF TypeOK, Current, Rules
  <2>3. HeldInv'
    BY <2>1 DEF HeldInv, Quiet, TypeOK
  <2>4. CASE db[Current] = 0 /\ results' = Append(results, Result("passed", 0))
             /\ UNCHANGED <<pc, count>>
    <3>1. /\ ResultsInv'
          /\ Len(results') <= RuleCount
          /\ results' \in Seq(RuleResult)
      BY <2>1, <2>2, <2>4, AppendResult, ResultFields, ValidateRunAssumption
         DEF RuleStatus
    <3> QED
      BY <2>1, <2>2, <2>3, <2>4, <3>1 DEF TypeOK, DetailInv, ProgressInv, Foreign, inputVars
  <2>5. CASE db[Current] > 0 /\ count' = db[Current] /\ pc' = "detail"
             /\ UNCHANGED results
    <3>1. count' \in 0 .. MaxViolations /\ count' > 0
      BY <2>1, <2>5 DEF TypeOK
    <3>2. ResultsInv'
      BY <2>1, <2>2, <2>5 DEF ResultsInv, HasQueries, inputVars
    <3>3. DetailInv' /\ ProgressInv'
      BY <2>1, <2>2, <2>5 DEF DetailInv, ProgressInv, HasQueries, Current, Foreign, inputVars
    <3> QED
      BY <2>1, <2>2, <2>3, <2>5, <3>1, <3>2, <3>3 DEF TypeOK, PCs, inputVars
  <2> QED
    BY <1>4, <2>4, <2>5 DEF SummaryAnswers
<1>5. CASE DetailFails \/ DetailAnswers
  <2>1. /\ Current \in Rules /\ HasQueries(Current)
        /\ count \in held[Current] /\ db[Current] \in held[Current]
        /\ count \in 0 .. MaxViolations /\ count > 0
        /\ UNCHANGED <<inputVars, world>>
        /\ pc = "detail" /\ pc' = "rules" /\ count' = 0 /\ asked' = asked + 1
    BY <1>5 DEF DetailFails, DetailAnswers, DetailInv, HeldInv, TypeOK
  <2>2. \E r \in RuleResult :
           /\ results' = Append(results, r)
           /\ r.status = "failed" /\ r.counted /\ r.count = count
           /\ r.listed => \E n \in held[Current] : r.rows = Listed(n)
    <3>1. Result("failed", count) \in RuleResult
      BY <2>1, ResultFields DEF RuleStatus
    <3>2. CASE DetailFails
      BY <3>1, <3>2, ResultFields DEF DetailFails
    <3>3. CASE DetailAnswers
      <4> DEFINE rows == IF db[Current] < Limit THEN db[Current] ELSE Limit
                 r == [Result("failed", count) EXCEPT !.rows = rows, !.listed = TRUE]
      <4>1. rows \in 0 .. MaxViolations
        BY <2>1, ValidateRunAssumption DEF TypeOK
      <4> HIDE DEF rows
      <4>2. /\ r \in RuleResult
            /\ r.status = "failed" /\ r.counted /\ r.count = count
            /\ r.rows = rows
        BY <3>1, <4>1, ResultFields DEF Result, RuleStatus, RuleResult
      <4>3. results' = Append(results, r)
        BY <3>3 DEF DetailAnswers, rows
      <4>4. \E n \in held[Current] : rows = Listed(n)
        BY <2>1 DEF rows, Listed
      <4> QED
        BY <4>2, <4>3, <4>4
    <3> QED
      BY <1>5, <3>2, <3>3
  <2>3. /\ ResultsInv'
        /\ Len(results') <= RuleCount
        /\ results' \in Seq(RuleResult)
    <3>1. PICK r \in RuleResult :
             /\ results' = Append(results, r)
             /\ r.status = "failed" /\ r.counted /\ r.count = count
             /\ r.listed => \E n \in held[Current] : r.rows = Listed(n)
      BY <2>2
    <3>2. /\ r.counted <=> r.status \in {"passed", "failed"}
          /\ r.status \in {"passed", "failed", "timeout", "error"}
                <=> HasQueries(Current)
          /\ r.status = "failed" <=> r.count > 0
          /\ r.counted => r.count \in held'[Current]
          /\ r.listed => \E n \in held'[Current] : r.rows = Listed(n)
          /\ held' = held
      BY <2>1, <3>1 DEF world
    <3> QED
      BY <2>1, <3>1, <3>2, AppendResult
  <2> QED
    BY <2>1, <2>3, ValidateRunAssumption DEF TypeOK, PCs, HeldInv, Quiet, DetailInv,
         ProgressInv, Foreign, inputVars, world
<1>6. CASE Report
  <2>1. Len(results) = RuleCount
    BY <1>6, ValidateRunAssumption DEF Report, Rules, Current, TypeOK
  <2> QED
    BY <1>6, <2>1 DEF Report, TypeOK, PCs, HeldInv, ResultsInv, DetailInv, ProgressInv,
         HasQueries, Quiet, Foreign, inputVars, world
<1>7. CASE Write
  <2>1. PICK i \in Rules, n \in 0 .. MaxViolations :
          /\ db' = [db EXCEPT ![i] = n]
          /\ held' = [held EXCEPT ![i] = @ \cup {n}]
    BY <1>7 DEF Write
  <2>2. /\ writes' \in 0 .. MaxWrites /\ ~ Quiet'
        /\ UNCHANGED <<inputVars, pc, count, results, asked>>
    BY <1>7, ValidateRunAssumption DEF Write, TypeOK, Quiet
  <2>3. /\ db' \in [Rules -> 0 .. MaxViolations]
        /\ held' \in [Rules -> SUBSET (0 .. MaxViolations)]
        /\ \A j \in Rules : held[j] \subseteq held'[j] /\ db'[j] \in held'[j]
    BY <2>1 DEF TypeOK, HeldInv
  <2>4. HeldInv'
    BY <2>2, <2>3 DEF HeldInv
  <2>5. ResultsInv'
    <3>1. 1 .. Len(results) \subseteq Rules
      BY ValidateRunAssumption DEF TypeOK, Rules
    <3> QED
      BY <2>2, <2>3, <3>1 DEF ResultsInv, HasQueries, inputVars
  <2>6. DetailInv' /\ ProgressInv'
    BY <2>2, <2>3 DEF DetailInv, ProgressInv, HasQueries, Current, Foreign, inputVars
  <2> QED
    BY <2>2, <2>3, <2>4, <2>5, <2>6 DEF TypeOK, inputVars
<1>8. CASE UNCHANGED vars
  BY <1>8 DEF vars, world, inputVars, TypeOK, HeldInv, ResultsInv, DetailInv, ProgressInv,
              HasQueries, Quiet, Foreign, Current
<1> QED
  BY <1>1, <1>2, <1>3, <1>4, <1>5, <1>6, <1>7, <1>8 DEF Next, JobStep

\* The invariant holds of every reachable state.
THEOREM Invariance == SafeSpec => []IInv
BY InitIInv, NextIInv, PTL DEF SafeSpec

-----------------------------------------------------------------------------
\* A tally is zero when no result has that status.
LEMMA ZeroTally ==
  ASSUME TypeOK, NEW status
  PROVE  Cardinality(WithStatus(status)) = 0
            <=> \A i \in 1 .. Len(results) : results[i].status # status
<1>1. IsFiniteSet(1 .. Len(results))
  BY FS_Interval DEF TypeOK
<1>2. WithStatus(status) \subseteq 1 .. Len(results)
  BY DEF WithStatus, TypeOK
<1>3. IsFiniteSet(WithStatus(status))
  BY <1>1, <1>2, FS_Subset
<1>4. Cardinality(WithStatus(status)) = 0 <=> WithStatus(status) = {}
  BY <1>3, FS_EmptySet
<1> QED
  BY <1>4 DEF WithStatus, TypeOK

\* A report tells for every rule with queries whether it is violated, unless its
\* query timed out or failed.
LEMMA ReportInv ==
  ASSUME IInv, pc = "report", Quiet, NEW i \in Rules, HasQueries(i)
  PROVE  /\ i \in 1 .. Len(results)
         /\ results[i].status = "passed" => db[i] = 0
         /\ results[i].status = "failed" => db[i] > 0 /\ results[i].count > 0
         /\ results[i].status \in {"passed", "failed", "timeout", "error"}
<1>1. i \in 1 .. Len(results)
  BY DEF IInv, ProgressInv, Rules
<1>3. results[i] \in RuleResult
  BY <1>1 DEF IInv, TypeOK
<1>2. results[i].count \in 0 .. MaxViolations
  BY <1>3 DEF RuleResult
<1>4. results[i].counted => results[i].count = db[i]
  BY <1>1 DEF IInv, HeldInv, ResultsInv
<1> QED
  BY <1>1, <1>2, <1>4 DEF IInv, ResultsInv

\* A complete report on a quiet database conforms exactly when no rule with
\* queries is violated.
THEOREM VerdictTrue == SafeSpec => []VerdictIsTrue
<1>1. IInv => VerdictIsTrue
  <2> SUFFICES ASSUME IInv, pc = "report", Quiet, complete
               PROVE  conforms <=> \A i \in Rules : HasQueries(i) => db[i] = 0
    BY DEF VerdictIsTrue
  <2>1. \A i \in 1 .. Len(results) : results[i].status \notin {"timeout", "error"}
    BY ZeroTally DEF complete, IInv
  <2>2. conforms <=> \A i \in 1 .. Len(results) : results[i].status # "failed"
    BY ZeroTally DEF conforms, IInv
  <2>3. Rules = 1 .. Len(results)
    BY DEF IInv, ProgressInv, Rules
  <2>4. ASSUME NEW i \in Rules
        PROVE  (HasQueries(i) => db[i] = 0) <=> results[i].status # "failed"
    <3>1. CASE HasQueries(i)
      BY <2>1, <3>1, ReportInv DEF IInv, TypeOK
    <3>2. CASE ~ HasQueries(i)
      BY <2>3, <3>2 DEF IInv, ResultsInv
    <3> QED
      BY <3>1, <3>2
  <2> QED
    BY <2>2, <2>3, <2>4
<1> QED
  BY <1>1, Invariance, PTL

\* The exit code promises no more than the database holds.
THEOREM ExitCodeTrue == SafeSpec => []ExitCodeIsTrue
<1>1. IInv => ExitCodeIsTrue
  <2> SUFFICES ASSUME IInv, pc = "report", Quiet, NEW failOn \in FailOns
               PROVE  LET counted == {i \in Rules : HasQueries(i)
                                      /\ Rank(manifest[i].severity) >= failOn}
        IN  /\ ExitCode(failOn) = 0 => \A i \in counted : db[i] = 0
            /\ ExitCode(failOn) = 1 => \E i \in counted : db[i] > 0
            /\ ExitCode(failOn) = 3 =>
                  \E i \in Rules : HasQueries(i) /\ ~ results[i].counted
    BY DEF ExitCodeIsTrue
  <2>1. Rules = 1 .. Len(results) /\ DOMAIN results = 1 .. Len(results)
    BY DEF IInv, ProgressInv, Rules, TypeOK
  <2>2. complete <=> \A i \in 1 .. Len(results) :
                        results[i].status \notin {"timeout", "error"}
    BY ZeroTally DEF complete, IInv
  <2>3. ASSUME ExitCode(failOn) = 0, NEW i \in Rules, HasQueries(i),
               Rank(manifest[i].severity) >= failOn
        PROVE  db[i] = 0
    <3>1. complete /\ ~ Failing(failOn)
      BY <2>3 DEF ExitCode
    <3>2. ~ (results[i].count > 0)
      BY <2>1, <2>3, <3>1 DEF Failing
    <3> QED
      BY <2>1, <2>2, <2>3, <3>1, <3>2, ReportInv
  <2>4. ASSUME ExitCode(failOn) = 1
        PROVE  \E i \in Rules : /\ HasQueries(i)
                                /\ Rank(manifest[i].severity) >= failOn
                                /\ db[i] > 0
    <3>1. PICK i \in Rules : /\ results[i].count > 0
                             /\ Rank(manifest[i].severity) >= failOn
      BY <2>1, <2>4 DEF ExitCode, Failing
    <3>2. results[i].status = "failed" /\ HasQueries(i)
      BY <2>1, <3>1 DEF IInv, ResultsInv
    <3> QED
      BY <3>1, <3>2, ReportInv
  <2>5. ASSUME ExitCode(failOn) = 3
        PROVE  \E i \in Rules : HasQueries(i) /\ ~ results[i].counted
    <3>1. ~ complete
      BY <2>5 DEF ExitCode
    <3> QED
      BY <2>1, <2>2, <3>1 DEF IInv, ResultsInv
  <2> QED
    BY <2>3, <2>4, <2>5
<1> QED
  BY <1>1, Invariance, PTL

\* Other clients may come between the summary query and the detail query of a rule: the
\* count and the rows of a result are nevertheless both what the database has held since
\* the rule was counted, and the verdict goes by the count.
THEOREM ResultsHeld == SafeSpec => []ResultsWereHeld
<1>1. IInv => ResultsWereHeld
  <2> SUFFICES ASSUME IInv, NEW i \in DOMAIN results
               PROVE  /\ results[i].counted =>
                            /\ results[i].count \in held[i]
                            /\ results[i].status = "failed" <=> results[i].count > 0
                      /\ results[i].listed => \E n \in held[i] : results[i].rows = Listed(n)
    BY DEF ResultsWereHeld
  <2>1. i \in 1 .. Len(results)
    BY DEF IInv, TypeOK
  <2> QED
    BY <2>1 DEF IInv, ResultsInv
<1> QED
  BY <1>1, Invariance, PTL

\* A manifest for another dialect sends no query to the database.
THEOREM ForeignNeverRuns == SafeSpec => []ForeignManifestNeverRuns
<1>1. IInv => ForeignManifestNeverRuns
  BY DEF IInv, ProgressInv, ForeignManifestNeverRuns
<1> QED
  BY <1>1, Invariance, PTL

\* Every variable keeps its type.
THEOREM TypeCorrect == SafeSpec => []TypeOK
<1>1. IInv => TypeOK
  BY DEF IInv
<1> QED
  BY <1>1, Invariance, PTL
=============================================================================
