----------------------------- MODULE ValidateRun -----------------------------
(***************************************************************************)
(* One validation job, from the worker thread taking it to its report:     *)
(* run_validate of worker.rs, compile_for and check_dialect of session.rs, *)
(* validate, run_rule and exit_code of validate.rs, and the same flow as   *)
(* the command line drives it.                                             *)
(*                                                                         *)
(* The database is shared: other clients may change it between any two     *)
(* queries.  The executor answers a query with the rows the database holds *)
(* at that moment, or with one of the errors of executor.rs.               *)
(***************************************************************************)
EXTENDS Integers, Sequences, FiniteSets, Functions

CONSTANTS RuleCount,      \* rules of the manifest
          Severities,     \* severities of the manifest
          MaxViolations,  \* bound: violations of a rule the database may hold
          MaxWrites,      \* bound: changes other clients make to the database
          Limit           \* detail rows asked for, the limit of ValidateOptions

ASSUME ValidateRunAssumption ==
    /\ RuleCount \in Nat
    /\ MaxViolations \in Nat
    /\ MaxWrites \in Nat
    /\ Limit \in Nat

Rules == 1 .. RuleCount

ManifestStatus == {"compiled", "guaranteed-by-schema", "schema-mismatch",
                   "deactivated", "unsupported"}
ErrorKind == {"timeout", "query", "connection"}
RuleStatus == {"passed", "failed", "timeout", "error", "skipped",
               "guaranteed-by-schema"}

\* A manifest comes with the job, or is compiled for the database first.
Target == [kind : {"manifest"}, foreign : BOOLEAN]
            \cup [kind : {"shapes"}, dumpsSchema : BOOLEAN]

VARIABLES
    target,    \* what the job validates
    manifest,  \* its rules: status (queries come with "compiled") and severity
    db,        \* violations of each rule that the database holds now
    writes,    \* changes made by other clients so far
    pc,        \* what the job does next
    count,     \* the violation count read by the summary query, for the detail query
    results,   \* the RuleResults so far, in manifest order
    asked,     \* queries sent to the database so far
    held       \* history: what db held of each rule since its summary query, and
               \* since the job began where that is still to come

inputVars == <<target, manifest>>
world == <<db, writes, held>>
vars == <<inputVars, world, pc, count, results, asked>>

Current == Len(results) + 1

HasQueries(i) == manifest[i].status = "compiled"

Init ==
    /\ target \in Target
    /\ manifest \in [Rules -> [status : ManifestStatus, severity : Severities]]
    /\ db \in [Rules -> 0 .. MaxViolations]
    /\ writes = 0
    /\ pc = IF target.kind = "shapes" THEN "compiling" ELSE "checking"
    /\ count = 0
    /\ results = <<>>
    /\ asked = 0
    /\ held = [i \in Rules |-> {db[i]}]

-----------------------------------------------------------------------------
(* Before the first query.                                                 *)

\* compile_for reads the schema of a LadybugDB database when none is given.
SchemaFails ==
    /\ pc = "compiling"
    /\ target.dumpsSchema
    /\ pc' = "failed: exec"
    /\ UNCHANGED <<inputVars, world, count, results, asked>>

Compile ==
    /\ pc = "compiling"
    /\ pc' \in {"checking", "failed: compile"}
    /\ UNCHANGED <<inputVars, world, count, results, asked>>

Foreign == target.kind = "manifest" /\ target.foreign

CheckDialect ==
    /\ pc = "checking"
    /\ pc' = IF Foreign THEN "failed: manifest" ELSE "rules"
    /\ UNCHANGED <<inputVars, world, count, results, asked>>

-----------------------------------------------------------------------------
(* run_rule, one rule after the other.                                     *)

\* violation_count is an Option: counted tells whether it is there.  rows is the
\* number of detail rows, listed whether the detail query delivered them.
RuleResult == [status : RuleStatus, counted : BOOLEAN, count : 0 .. MaxViolations,
               rows : 0 .. MaxViolations, listed : BOOLEAN]

Result(status, n) ==
    [status |-> status, counted |-> status \in {"passed", "failed"},
     count |-> n, rows |-> 0, listed |-> FALSE]

\* A rule without queries is reported from its manifest status alone.
ReportUnqueried ==
    /\ pc = "rules"
    /\ Current \in Rules
    /\ ~ HasQueries(Current)
    /\ results' = Append(results,
                    Result(IF manifest[Current].status = "guaranteed-by-schema"
                           THEN "guaranteed-by-schema" ELSE "skipped", 0))
    /\ UNCHANGED <<inputVars, world, pc, count, asked>>

\* Mutant: a summary query that fails ends the run.
SummaryErrorEndsRun ==
    /\ pc = "rules"
    /\ Current \in Rules
    /\ HasQueries(Current)
    /\ asked' = asked + 1
    /\ results' = Append(results, Result("error", 0))
    /\ pc' = "report"
    /\ UNCHANGED <<inputVars, world, count>>

\* A summary row without violationCount is a query error.
SummaryFails ==
    /\ pc = "rules"
    /\ Current \in Rules
    /\ HasQueries(Current)
    /\ asked' = asked + 1
    /\ \E error \in ErrorKind :
          results' = Append(results,
                       Result(IF error = "timeout" THEN "timeout" ELSE "error", 0))
    /\ UNCHANGED <<inputVars, world, pc, count>>

SummaryAnswers ==
    /\ pc = "rules"
    /\ Current \in Rules
    /\ HasQueries(Current)
    /\ asked' = asked + 1
    /\ \/ /\ db[Current] = 0
          /\ results' = Append(results, Result("passed", 0))
          /\ UNCHANGED <<pc, count>>
       \/ /\ db[Current] > 0
          /\ count' = db[Current]
          /\ pc' = "detail"
          /\ UNCHANGED results
    /\ held' = [held EXCEPT ![Current] = {db[Current]}]
    /\ UNCHANGED <<inputVars, db, writes>>

\* A failed detail query leaves the rule failed, with a reason and no rows.
DetailFails ==
    /\ pc = "detail"
    /\ asked' = asked + 1
    /\ results' = Append(results, Result("failed", count))
    /\ pc' = "rules"
    /\ count' = 0
    /\ UNCHANGED <<inputVars, world>>

\* Mutant: the limit is not passed to the detail query.
DetailAnswersUnlimited ==
    /\ pc = "detail"
    /\ asked' = asked + 1
    /\ results' = Append(results, [Result("failed", count) EXCEPT
                                      !.rows = db[Current], !.listed = TRUE])
    /\ pc' = "rules"
    /\ count' = 0
    /\ UNCHANGED <<inputVars, world>>

DetailAnswers ==
    /\ pc = "detail"
    /\ asked' = asked + 1
    /\ results' = Append(results,
                    [Result("failed", count) EXCEPT
                        !.rows = IF db[Current] < Limit THEN db[Current] ELSE Limit,
                        !.listed = TRUE])
    /\ pc' = "rules"
    /\ count' = 0
    /\ UNCHANGED <<inputVars, world>>

Report ==
    /\ pc = "rules"
    /\ Current \notin Rules
    /\ pc' = "report"
    /\ UNCHANGED <<inputVars, world, count, results, asked>>

\* Another client changes what one rule finds.
Write ==
    /\ writes < MaxWrites
    /\ writes' = writes + 1
    /\ \E i \in Rules, n \in 0 .. MaxViolations :
          /\ db' = [db EXCEPT ![i] = n]
          /\ held' = [held EXCEPT ![i] = @ \cup {n}]
    /\ UNCHANGED <<inputVars, pc, count, results, asked>>

-----------------------------------------------------------------------------
JobStep ==
    \/ SchemaFails \/ Compile \/ CheckDialect
    \/ ReportUnqueried \/ SummaryFails \/ SummaryAnswers
    \/ DetailFails \/ DetailAnswers \/ Report

Next == JobStep \/ Write

SafeSpec == Init /\ [][Next]_vars

\* Every query returns, times out or fails.
Spec == SafeSpec /\ WF_vars(JobStep)

-----------------------------------------------------------------------------
(* The report and the exit code.                                           *)

WithStatus(status) == {i \in DOMAIN results : results[i].status = status}

\* Mutant: a rule whose query failed does not make the report incomplete.
CompleteDespiteErrors == Cardinality(WithStatus("timeout")) = 0

conforms == Cardinality(WithStatus("failed")) = 0
complete == /\ Cardinality(WithStatus("timeout")) = 0
            /\ Cardinality(WithStatus("error")) = 0

\* FailOn, ordered from least to most severe; a custom severity ranks highest.
Rank(severity) == CASE severity = "Info" -> 1
                    [] severity = "Warning" -> 2
                    [] OTHER -> 3

FailOns == 1 .. 3

\* Mutant: the threshold is exclusive.
FailingAbove(failOn) ==
    \E i \in DOMAIN results : results[i].count > 0
                              /\ Rank(manifest[i].severity) > failOn

Failing(failOn) ==
    \E i \in DOMAIN results : results[i].count > 0
                              /\ Rank(manifest[i].severity) >= failOn

ExitCode(failOn) == IF Failing(failOn) THEN 1 ELSE IF ~ complete THEN 3 ELSE 0

-----------------------------------------------------------------------------
(* Properties.                                                             *)

PCs == {"compiling", "checking", "rules", "detail", "report", "failed: exec",
        "failed: compile", "failed: manifest"}

\* Every variable keeps its type; a detail query follows a positive count.
TypeOK ==
    /\ target \in Target
    /\ manifest \in [Rules -> [status : ManifestStatus, severity : Severities]]
    /\ db \in [Rules -> 0 .. MaxViolations]
    /\ writes \in 0 .. MaxWrites
    /\ pc \in PCs
    /\ count \in 0 .. MaxViolations
    /\ (pc = "detail") <=> (count > 0)
    /\ results \in Seq(RuleResult)
    /\ Len(results) <= RuleCount
    /\ asked \in Nat
    /\ held \in [Rules -> SUBSET (0 .. MaxViolations)]

Quiet == writes = 0

\* While nobody changes the database, a complete report conforms exactly when
\* no rule with queries is violated ("Every query completed, so `conforms` is
\* trustworthy", validate.rs:111): whatever fails on the way, no violation is
\* missed and none invented.
VerdictIsTrue ==
    pc = "report" /\ Quiet /\ complete =>
        (conforms <=> \A i \in Rules : HasQueries(i) => db[i] = 0)

\* The exit code tells the truth about a quiet database, for every --fail-on:
\* 0 promises that no rule at or above the threshold is violated, 1 that one
\* is, and 3 that none is known to be but some rule is undecided.
ExitCodeIsTrue ==
    pc = "report" /\ Quiet => \A failOn \in FailOns :
        LET counted == {i \in Rules : HasQueries(i)
                                      /\ Rank(manifest[i].severity) >= failOn}
        IN  /\ ExitCode(failOn) = 0 => \A i \in counted : db[i] = 0
            /\ ExitCode(failOn) = 1 => \E i \in counted : db[i] > 0
            /\ ExitCode(failOn) = 3 =>
                  \E i \in Rules : HasQueries(i) /\ ~ results[i].counted

\* How many of n rows a detail query asks for.
Listed(n) == IF n < Limit THEN n ELSE Limit

\* Whatever other clients write, also between the two queries of a rule: the count of a
\* result is one the database has held since the rule was counted, the verdict on the
\* rule goes by that count, and the rows are all those of one moment since, up to the
\* limit.  Without a write in between the rows are therefore those counted.
ResultsWereHeld ==
    \A i \in DOMAIN results :
        /\ results[i].counted =>
              /\ results[i].count \in held[i]
              /\ results[i].status = "failed" <=> results[i].count > 0
        /\ results[i].listed => \E n \in held[i] : results[i].rows = Listed(n)

\* A manifest compiled for another dialect never reaches the database.
ForeignManifestNeverRuns == Foreign => asked = 0 /\ results = <<>>

\* Whatever fails, the job ends with a report on every rule or with one error.
JobSettles ==
    <>(pc \in {"failed: exec", "failed: compile", "failed: manifest"}
       \/ (pc = "report" /\ Len(results) = RuleCount))
=============================================================================
