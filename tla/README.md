# shacl2cypher, specified in TLA+

shacl2cypher compiles SHACL shapes into Cypher validation queries for labelled
property graphs (Neo4j, LadybugDB, FalkorDB) and runs them. This directory holds
TLA+ modules that model the program, the TLC configurations that check them on
small instances, and TLAPS proofs for every value of the constants. Source paths
below are relative to the repository root.

Contents: 1 inventory; 2 modules and their code; 3 runs and what they show;
4 bounds; 5 fairness; 6 proofs; 7 where the code and its documents disagree;
8 what is not modelled; 9 plan.

## 1. Inventory

The Rust workspace has a compiler (`s2c-core`), a runner (`s2c-runner`), a
command line (`s2c-cli`) and two language bindings (`s2c-python`, `s2c-node`).

| Component | Source | State it keeps | Operations | Correct when |
|---|---|---|---|---|
| Database worker | `s2c-runner/src/worker.rs` | sender mutex, thread mutex, jobs channel, worker thread, reply callbacks | spawn/open, validate, schema (blocking or with a callback), close, drop, the worker loop | jobs are served one at a time in order, each answered once; close waits; nobody waits forever; a panic wakes everybody |
| Validate flow | `validate.rs`, `session.rs`, `worker.rs` (`run_validate`) | the report being built | compile for the database, dialect check, summary and detail query of each rule, tallies, exit code | one failing rule does not stop the others; `conforms`, `complete` and the exit code tell the truth about the database |
| Backends | `neo4j.rs`, `ladybug.rs`, `falkordb.rs`, `executor.rs`, `backend.rs` | a connection, a transaction | connect, run a query under a timeout, schema dump | an answer is that of its own query; a timeout does not spoil the next query; a dump describes the graph |
| Reports | `report.rs` | none | table, JSON, JUnit, SARIF | text only |
| Loading and imports | `s2c-core/src/load.rs` | inputs, canonical paths already loaded, triples with locations | load files and documents, follow `owl:imports` | every import loaded once, cycles end |
| AST | `ast.rs`, `ast/annotations.rs` | problems so far | shapes from triples, canonical order | nothing is ignored silently; equal graphs give equal shapes |
| Reference cycles | `cycles.rs` | stack and marks of the search | recursion through `sh:node` and its kin | exactly the cyclic shapes are reported |
| Class hierarchy | `hierarchy.rs` | sub- and superclass maps | build, expand a class to labels | cycles rejected, transitive closure |
| Mapping | `mapping.rs`, `schema.rs` | none | SHACL paths to LPG steps | a choice is never guessed silently |
| Schema checks | `schema_check.rs`, `datatypes.rs` | none | rule status from the schema snapshot | "guaranteed" and "mismatch" are never wrong |
| Lowering, IR | `lower.rs`, `ir.rs` | rules and diagnostics so far, the shapes that are not inlined, the unsupported flag | constraints to rules | a rule reports exactly the violations of its constraint; recursion is rejected or recorded |
| Renderers | `render/*.rs` | name supply | rules to Cypher of each dialect | the query returns the rows of the rule, however the graph is stored |
| Compile | `compile.rs` | rules, errors, indexes | the phases, rule ids and names, the manifest | unique ids and names, which survive edits; all or nothing |
| CLI | `s2c-cli/src/main.rs` | none | compile, validate, schema dump | exit codes; files of one compilation |
| Bindings | `s2c-python`, `s2c-node` | a worker per database handle | open, validate, schema, close, compile | they accept what the CLI accepts and classify errors as documented |

How they interact: a binding owns a database worker per handle and calls it from
any number of threads; the worker thread owns one executor (a backend) and runs
the validate flow on it, which may first read the schema through the executor and
call the compiler. The CLI does the same on its only thread, without a worker.
The compiler is sequential: load, parse, build the hierarchy, look for recursive
shapes, lower, name, render.

What is hard: threads that submit, close and drop one handle at the same time;
panics on the worker thread; queries that time out or fail halfway and connections
that are reused afterwards; data that other clients change between two queries;
import graphs with cycles and several names for one file; algorithms on arbitrary
graphs of classes and shapes; names that must survive edits; two files that must
belong together; and the distance between what a SHACL constraint means and what a
Cypher query with lists, nulls and repeated matches returns. `PROJECT.json` lists
every such hazard at its line, with the properties that cover it.

## 2. The modules and the code they stand for

| Module | Stands for | Extends |
|---|---|---|
| `DatabaseHandle` | what a database handle promises, without threads or queues | |
| `DatabaseWorker` | `worker.rs` | |
| `ValidateRun` | `run_validate`, `compile_for`, `check_dialect`, `validate`, `run_rule`, `exit_code` | |
| `Executors` | `neo4j.rs`, `falkordb.rs`, `ladybug.rs`, `backend.rs` | |
| `FrontEnds` | the checks of `main.rs`, the Python and the npm package | |
| `ShapesLoading` | `load.rs` | |
| `ShapesAst` | `ast.rs`, `ast/annotations.rs` | |
| `CompileRules` | `compile.rs`, the files `main.rs` and the bindings write | `ShapesAst` |
| `ClassHierarchy` | `hierarchy.rs` | |
| `RecursiveShapes` | `cycles.rs` | |
| `Inlining` | recursion in `lower.rs`: who inlines whom, rule statuses | `RecursiveShapes` |
| `RuleExpressions` | `ir.rs`: expressions, their constructors and meaning | |
| `ShapeLowering` | `lower.rs`: focus sets and the rule of every constraint | `RuleExpressions` |
| `CypherQueries` | the Cypher that the renderers use (external) | `RuleExpressions` |
| `PathRoutes` | `render/mod.rs` | `CypherQueries` |
| `Neo4jRules`, `FalkorDbRules`, `LadybugRules` | `render/neo4j.rs`, `render/falkordb.rs`, `render/ladybug.rs` | `PathRoutes` |
| `Rendering` | lowering, the three renderers and a graph together | `ShapeLowering`, `PathRoutes`; instances of the three |
| `PathMapping` | paths in `mapping.rs`, `cap_repeats` of `lower.rs` | |
| `SchemaChecks` | `schema_check.rs`, `column_status` of `datatypes.rs`, the use `lower.rs` and `compile.rs` make of them | |
| `X_proofs` | the theorems about module `X` | `X`, `TLAPS` |
| `DatabaseWorker_proofs` | also the theorems about `FrontEnds` | `DatabaseWorker`, `FrontEnds`, `TLAPS` |
| `Lowering_proofs` | the theorems about `Inlining` and `PathMapping` | `Inlining`, `PathMapping`, `TLAPS` |
| `MCX` | the finite instance of `X` that TLC checks | `X` or `X_proofs` |

**DatabaseWorker.** A worker thread owns the executor, which is not `Send`. `sender`
is the `Mutex<Option<Sender>>`, `jobs` the channel, `thread` the
`Mutex<Option<JoinHandle>>`, `worker` the place where the worker thread is,
`current` the job it runs, `result` what joining it yields, `ready` the channel
`spawn` waits on. Each caller has its own place in `call`, each thread that closes
or drops one in `closer`. A critical section of the sender mutex is a single action,
because nothing inside it blocks. The thread mutex is held across the join, so
taking it (`TakeThread`, which finds the handle and goes on to join or finds it taken)
and coming back from the join are two actions and other closers wait in between. A
panic is three kinds of steps: `run` unwinds, then the receiver is dropped, then the
queued jobs one by one; a send in between may still be accepted or come back. The
history variable `accepted` is never read by an action.

**DatabaseHandle** has one status per call (requested, accepted, running, answered,
told that the handle is closed), one state for the database and one per closing
thread. `DatabaseWorker` implements it: the mapping reads the status of a call off
`reply`, `current` and `call`, and the state of the database off `handle`, `worker`,
`result` and `sender`. A crash is the only way to lose an accepted call.

**ValidateRun.** `target` says what the job has to do (a manifest, perhaps for
another dialect, or shapes to compile, perhaps after reading the schema), `manifest`
holds status and severity of each rule, `db` the number of violations the database
holds for each rule at this moment. Each rule without queries is reported from its
status; each other one is a summary query and, if that counts violations, a detail
query. A query may fail with a timeout, a query error or a lost connection;
`Write` is another client. The operators `conforms`, `complete`, `Failing` and
`ExitCode` are the functions of `validate.rs` that read a finished report.

**Executors.** One executor of one of the three kinds, behind `Open`, `CallRun` and
`CallSchema`; a schema dump is a list of queries in `todo`. On Neo4j a query is a
transaction: `StartTxn`, `Execute`, `Stream`, `Rollback`, with `Timeout` enabled
throughout when the call has a timeout, and `Reopen`, which replaces the pool and keeps
the old one when that fails. FalkorDB runs `GRAPH.RO_QUERY` and reads one reply;
LadybugDB runs in a read-only database. Servers are external: they may break a
connection at any point (`cut`), leave rows unread on one (`leftover`), and serve other
clients (`OthersWrite`). Rows are known by the query they belong to and the graph they
were read from, which is all that `AnswersAreOwn` needs. What a row of a dump says of a
label or a relationship type, a name without values included, and the types of dumped
values follow the queries and tables of the three files, from what the servers report.

**FrontEnds.** The same request is made through the command line, Python and Node. A
front end goes through its own checks in its own order (`FirstError` takes the first that
fails), converts limits and timeouts, opens its database or hands the job to a worker,
and gives an outcome: an exit code or a class of error, and the limit that applies.
`Close` is another thread that closes the handle of a binding at any point.

**ShapesLoading.** The file system and the import statements are a constant of the
run, chosen by `Init`: which path is a link to which, which is missing, what an IRI
names, what each source imports, which sources do not parse, whether remote imports
are permitted. Arguments are checked first (missing files, documents that stand for a
file or are given twice), parsed in path order, and then passes over the import
statements follow until one adds nothing. A document is looked up under the spelling
of the import and a file under its canonical path, as in `load.rs`.

**ShapesAst** is the parse of a graph of triples with their lines: which nodes are
shapes, each parameter and annotation with the terms it accepts, lists, paths, the
problems, and the order of settings with several values (`CanonicalShape`, `InOrder`).
**CompileRules** is a compilation from its request to its files: `Phase` (each ends the
compilation with its errors, before the next begins), `AssignNames` (`Namer`),
`RenderRule`, `FinishManifest`, and the truncations and writes of the two files, each of
which may fail. After a compilation the shapes files are edited and compiled again
(`Edit`). The phases before naming have modules of their own; here they succeed or fail
by the constant of the run, but for the parse, which is `ShapesAst`.

**ClassHierarchy.** The depth-first search of `build` with an explicit `stack` of
calls, each with the subclasses it has still to visit, and the expansion of a class
with its worklist. `rank` is a history variable: it numbers the classes as they
are done and is the witness that an accepted hierarchy has no cycle.

**RecursiveShapes.** Tarjan's algorithm with the calls of `visit` as an explicit
stack (`VisitNext` to `LeaveOnStack`); then each component is passed over (`SkipGroup`) or
searched breadth first from its least shape (`BeginSearch`, `Look`) until a reference back
to that shape is met, from where the way is walked back along `previous` (`MeetStart`,
`WalkBack`, `CloseCycle`); then the stable sort of the cycles (`Report`).

**Inlining.** Extends `RecursiveShapes` with what `lower.rs` does with its result:
without `--lenient` the cycles are errors; with it the shapes on the reported cycles
are not inlined and the rule that meets one becomes unsupported. The lowering of a
rule is a stack of calls of `conforms` and `details`. A call inside itself has the
same arguments as far as recursion is concerned and never returns: the action
`Overflow`.

**RuleExpressions** and **ShapeLowering.** The expressions of `ir.rs` as records with
the smart constructors that simplify them, and their value on a property graph; and the
translation of targets to focus sets and of each constraint (counts, value tests,
`sh:class`, `sh:nodeKind`, `sh:in`, `sh:hasValue`, property pairs, `sh:closed`,
`sh:node`, `sh:not`, `sh:and`, `sh:or`, `sh:xone`, qualified shapes with disjoint
siblings) to a rule with its test and its details. Beside it stands the meaning of the
same constraints as the SHACL recommendation and the documents of the repository define
it, on the values themselves: `Valid`, where a property of a shape is about each value of
that shape's path. The code judges the properties of a property shape on its focus;
`Flat` tells the shapes where the two readings are one (section 7).

**CypherQueries, PathRoutes** and the three dialects. A database stores a graph with
each property absent, a scalar or a list (with repetitions, on FalkorDB and LadybugDB
with nulls). `CypherQueries` is what the renderers use of Cypher: three-valued `NOT`,
`AND`, `OR`, comparisons that are null between types, `WHERE` that keeps only true,
`MATCH` of a chain of hops that uses a relationship once, `UNWIND`, `DISTINCT`. A
dialect module evaluates what the renderer would write: the function that writes a
condition is the operator that gives its value, so `Condition`, `AllHold`, `CountHolds`,
`PairHolds`, `BindValues` and `Query` stand for `expr`, `all`, `count`, `pair`,
`bind_values` and `rule`. `Candidates` are the rows before `WHERE`, with what every
condition of the rule is for each of them. `Renders` says for which rules there is a query at all. On
FalkorDB a condition becomes stages of `OPTIONAL MATCH` and `collect` below the row; on
LadybugDB what the tables declare decides already while a query is written: columns,
the tables a path can reach (`LabelsAfter`), which tests need no value, hoisted counts.

**Rendering** chooses shapes and a graph, lowers the first shape with `ShapeLowering`,
and compares the rows of each rule with the rows of its query in each dialect, on every
database that may store the graph.

**PathMapping.** A question is a shape with its path, annotations, the kind of its
constraint and the labels of its focus, the annotations of IRIs, a snapshot and
`--strict`. `Resolve` is `Resolver::path`: the choice of a relationship or a property for
each predicate (annotations of the shape, of the IRI, hints of the constraint, the
snapshot, convention, in the code's order) and the lowering of inverses, sequences,
alternatives and repetitions, or the first error. `Cap` is `cap_repeats`. The graph then
grows freely, and the meaning of the resolved path on it is compared with the meaning
that the SHACL recommendation gives to the path of the shape, over the triples that each
predicate stands for. A path is mapped, capped and followed by recursive functions over the
paths of the instance (`Lower`, `CapRepeats`, `Found`, `PairsOf`), each of which refers to
the parts of a path only, and the relations are put together by `Composed`, `Chain`, `Power`
and `Transitive`. A resolved path carries what `yields_nodes` finds for it (`nodes`).
`Chain` begins with the first of its relations: SHACL lets a path begin at a value, and
`^(^name / knows)` does once it is turned round. An earlier form began at the nodes alone
and gave such a path no pairs; the proof did not go through and TLC confirmed it with this
path, which the run now has.

**SchemaChecks.** A question is a constraint, its resolved path, the labels of the focus
and a snapshot, of a database that enforces its schema (LadybugDB) or of one that does
not. `Compile` is everything the compiler asks the checker: `check_target`, the walk
along the path with the labels that it reaches, `datatype_status` or `class_status`, and
`fail_on_mismatch`. Afterwards clients write to the database; an enforced schema refuses
what it does not declare. `Walks` has the walk of the code, a step named by its position in
the path; `Traversals`, of the same shape, is what a query would find there, from nodes
instead of labels. Both are functions by the depth of paths, as theorems are proved about
them. `CanWrite` and what it guards model the database and its clients, which are external.

## 3. The runs and what they show

Eleven runs pass. Each property has a mutated definition in its module (a comment
calls it a mutant) that stands for a plausible mistake in the code and breaks it.

**`database_worker`** (`MCDatabaseWorker.cfg`). Two blocking calls, one call with a
callback, two threads that close and the owner that drops, an `open` that succeeds,
fails or panics, jobs that end or panic.

- `CloseWaitsForDatabase`: when any close has returned, also one that lost the race
  for the join handle, the worker thread is gone and no accepted job is without its
  reply. It depends on the thread mutex being held across the join.
- `AcceptedJobsAreAnswered`: only a panic loses an accepted job; a close does not.
- `AnswersAreFinal`: no reply is called twice, no refused job runs, and once a close has
  dropped the sender no thread gets a job in.
- `EverythingReturns`: nobody waits forever, whatever the race.
- `ImplementsHandle`: the worker implements `DatabaseHandle`, its fairness included.

**`validate_run`** (`MCValidateRun.cfg`). Every manifest of two rules, every status and
severity, every database, one write of another client between any two steps.

- `VerdictIsTrue`: while nobody writes, a complete report conforms exactly when no rule
  with queries is violated. With a concurrent writer there is no such statement,
  because the queries run in transactions of their own.
- `ExitCodeIsTrue`: 0, 1 and 3 claim no more than the database holds, for every
  `--fail-on`.
- `ResultsWereHeld`: whatever another client writes, also between the summary and the
  detail query of a rule, the count is one the database has held since the rule was
  counted, the verdict goes by the count, and the rows are all those of one moment since,
  up to the limit.
- `JobSettles`: the job ends with a report on every rule or one error, whatever fails.

**`executors`** (`MCExecutors.cfg`). Two calls in a row on each backend, with and without
a timeout, with texts that write or are at fault, connections that break at any step, rows
left unread, and other clients that write.

- `AnswersAreOwn`: rows are those of the query that was asked, all of them, from a graph
  the database held during the call; not what an abandoned query left on the connection.
  It leaves out a pool that is kept after a row that fails or a reconnection that does,
  on which such rows may wait (section 7).
- `ErrorsAreTrue`: a timeout, a failed query, a lost connection and a backend that was
  not built in are told apart by what happened.
- `DumpsDescribeWhatStays`: whatever is written between the queries of a dump, the snapshot
  has every label, key, type of value and relationship that the graph had all the time, and
  endpoints the graph had at one moment; where the labels do not change, `compile` accepts it.
- `BoundedCallsReturn`: a Neo4j call with a timeout returns, whatever the server does.

**`front_ends`** (`MCFrontEnds.cfg`). Requests with every single thing wrong, and some with
two, through the command line, Python and Node; handles closed at any point.

- `FrontEndsAgree`: the three accept the same requests, apply the same limit, and name the
  same error for a request with one thing wrong.
- `ArgumentsComeFirst`: no rule is queried for a request with something wrong; a caller
  with wrong arguments is told of them and not of the closed handle.

**`shapes_loading`** (`MCShapesLoading.cfg`). `LoadedIsImportClosure`: what is loaded is
exactly the closure of the arguments under `owl:imports`, each source once.
`GivenComeFirst`: in an order that does not depend on the order of the arguments.
`LoadingEnds`: import cycles end.

**`compile`** (`MCCompileRules.cfg`). Seventeen shapes graphs, every one and two of nine
lowered rules, every phase at fault; then an edit and a second compilation, with writes
that may fail or be cut off.

- `NothingIsIgnored`: if no problem is reported, every constraint, annotation and
  reference in the shapes graph is in the AST.
- `ReorderingChangesNothing`: neither lines nor labels of blank nodes have an influence on
  the shapes.
- `ManifestIsComplete`: each lowered rule is in the manifest once, under an id and a name
  of its own, with queries exactly if it is compiled.
- `NamesSurviveEdits`: an edit changes the id or name of another rule only if it begins or
  ceases to collide with it, and never its fingerprint.
- `OutputIsOfOneCompilation`: after a success both files are of this compilation; after an
  error in it neither was touched.

**`class_hierarchy`** (`MCClassHierarchy.cfg`). `RejectsExactlyCycles`: the search rejects
exactly the cyclic hierarchies and reports a cycle that is one. `ExpansionIsClosure`: a
class expands to the least set closed under subclasses. `BothSearchesEnd`.

**`inlining`** (`MCInlining.cfg`). Tarjan's algorithm and the breadth-first search of
`cycles.rs`, then the lowering that relies on them.

- `EveryGroupReportedOnce`, `CyclesAreShortest`: compared with reachability as a least
  fixed point.
- `RecursionIsRecorded`: a rule is compiled only if no shape it needs needs itself, so
  that no reference was replaced by true silently, and it is unsupported only because of
  a recursive shape.
- `StrictLoweringEnds`: without `--lenient` lowering ends, unless disjoint siblings lead
  back (see section 7).

**`inlining_overflow`** (`MCInliningOverflow.cfg`) must fail, see section 7.

**`path_mapping`** (`MCPathMapping.cfg`). `MappedPathMeansShaclPath`: from every node of
every graph a resolved path reaches what its SHACL path does, nodes or values as
`yields_nodes` says, and a capped path reaches nothing else and is flagged if it loses
something. `DeclaredPropertiesStayProperties`: neither a hint nor a convention makes an
undeclared relationship type of a property the snapshot declares.

**`schema_checks`** (`MCSchemaChecks.cfg`). `GuaranteedNeverViolated`: a constraint that is
compiled to no query because the schema guarantees it is violated by no value, whatever
is written to a database that enforces it. `ContradictedNeverHolds`: no value satisfies
one that is reported as contradicted. `MismatchesAreReal`: a step that is reported
finds nothing where the path arrives at it, and a shape whose target is reported has no
focus. It leaves out unlabelled focuses of paths that may stay where they are (section 7).

**`rendering`** (`MCRendering.cfg`). Some shapes, a graph, and all the ways the three
databases may store it.

- `RulesReportViolations`: the rows of every rule are the violations that SHACL defines for
  its constraint, and a focus node is in no row exactly if it conforms to the shape. Both
  leave out rules that refer to a property shape with properties of its own, and where a
  targeted shape has one, only that a focus node in a row does not conform is asked.
- `DetailsExplainRows`: a value that fails `sh:node`, `sh:and` or `sh:or` has a failing inner
  condition, or fails in a property of a property of the shape, which has none; and no value
  that passes `sh:node` or `sh:and` has one.
- `QueriesReturnViolations`: the query of a rule returns its rows, each once, with the
  inner conditions that fail, on every database and in every dialect that has a query.
- `ConditionsAreNeverNull`: no condition of a query is null, so that a `NOT` around it never
  hides a row.

The last two have preconditions, which section 7 explains: `TrailsSuffice` (no path of the
graph needs one relationship twice), `ReadsNodesOnly` (no condition reads a property of a
property value) and, on LadybugDB, `LadybugCounts` (a nested count has one match for each
node, and node keys are set) and `StaysWithinFarEnds` (an optional hop from unknown tables
stays within the tables at its far ends). The instance has shapes and databases on both
sides of each of these, and of `Flat`.

The invariants called `IInv` are the inductive invariants of section 6, and `TypeOK` is
their first conjunct.

## 4. Bounds

| Run | Bound | Why it is enough |
|---|---|---|
| `database_worker` | 2 blocking calls, 1 callback call, 2 closers and the owner | two submitters race with each other and with a close; the third job is in the queue while one runs; three joiners compete for one handle |
| `validate_run` | `RuleCount` 2, `MaxViolations` 2, `Limit` 1, `MaxWrites` 1 | a rule before and one after the rule that fails; a count below, at and above the limit; a write before, between and after the queries of a rule. The proofs lift the bounds |
| `executors` | `MaxCalls` 2, `MaxWrites` 2, two or three graphs for each server | a call after one that failed at each point; a write before and during a query, and between two queries of a dump, which may add, change or take away labels, keys and relationships. The proofs lift the bounds |
| `front_ends` | the requests of `MCFrontEnds` | each check of each front end fails alone, and the ones that are in another order in two of them fail together. The proofs are about any request |
| `shapes_loading` | 3 paths, 4 import IRIs, 4 families of imports, links, a missing file, a broken file | a link, a cycle over two files, an import found only in a second pass, two names of one file, a document in the place of a file, a remote import. The proofs lift the bounds |
| `compile` | 17 graphs, 9 candidate rules, one or two at first and one more by an edit, `MaxLine` 2, `MaxEdits` 1 | rules that collide in id, in name, in both, and in hash; each status; every kind of problem; ties between blank shapes. The proof lifts the bounds for the files |
| `class_hierarchy` | `ClassCount` 4, all hierarchies | diamonds, cycles of length 1 to 3 and beside a root, a class pending twice. The proofs lift the bound |
| `inlining` | `ShapeCount` 4: all graphs of `sh:node` on 3 shapes, subsets of 7 edges with property and qualified shapes, circles of 4 with shortcuts; `MaxDeactivated` 1 | two components with a bridge, a self reference beside a longer cycle, a chord that makes a cycle shorter, a component with two cycles through different shapes, disjoint siblings that lead back, a deactivated shape on a cycle. The proofs lift the bounds |
| `path_mapping` | 20 paths over 2 predicates and one without a local name, nested no deeper than `MaxDepth` 3, 2 nodes, 1 value, `MaxWrites` 3, `MaxPathDepth` 1 | sequences of three steps, inverses of sequences and of alternatives, a sequence that begins at a value, a cycle of two nodes that a path follows more than once; every evidence for a name. The proofs lift the bounds |
| `schema_checks` | 19 paths, 6 focuses (one unlabelled, one undeclared), 2 snapshots, 5 nodes, `MaxWrites` 3, `MaxFreeWrites` 1 | columns below, above and within each range, lists, `ANY`, labels with and without the column, endpoints in both directions; three writes reach the third step of a path; `MaxDepth` 4 is the depth of the deepest path. The proofs lift the bounds |
| `rendering` | 2 nodes, shapes graphs of up to six shapes, 30 graphs (5 sets of relationships, each with 5 sets of properties, and once with two labels on a node), 15 paths, 2 databases for each dialect | zero, one and two values for each count; a value that is the focus itself; a shape nested under a negation or a count, on nodes and on values; properties of property shapes, targeted and inlined; an optional hop from tables that are known and that are not; a value stored twice and a null in a list |

`MaxCalls`, `MaxViolations`, `MaxWrites`, `MaxFreeWrites`, `MaxLine`, `MaxEdits`,
`MaxDepth` and `MaxDeactivated` are bounds of the models and not of the program. Every other constant is
a size of the instance.

## 5. Fairness

- `DatabaseWorker`: weak fairness of `SpawnStep`, of `WorkerStep`, of each call's
  steps after it was begun and of each closer's steps after it was begun. The threads
  are threads of the operating system, which runs each one that can run; a step of the
  worker that runs a job is fair because a query returns, times out or fails. The steps
  that begin a call, a close or the drop are not fair: nobody has to make them.
  `std::sync::Mutex` is not a fair lock, but every critical section ends and each closer
  takes it once, so weak fairness of the step that needs it is enough.
- `ValidateRun`: weak fairness of the job's own steps; none of `Write`.
- `Executors`: weak fairness of `Timeout` and `Reopen` alone, the timer and the
  reconnection of the client itself. Servers and networks owe nothing.
- `ShapesLoading`, `ClassHierarchy`, `Inlining`: weak fairness of `Next`, one thread that
  keeps going.
- `CompileRules`, `FrontEnds`, `PathMapping`, `SchemaChecks` and `Rendering` state no
  liveness property and no fairness.

Deadlock checking is off in every run because every system here may stop: the handle
was closed or dropped, the report is complete, the search has ended. That they stop
only there is what the liveness properties say.

## 6. Proofs

The modules named `X_proofs` hold machine-checked proofs for every value of the
constants: any number of calls, closing threads, rules, violations, writes, paths, IRIs,
classes, shapes, graphs, edits, snapshots, constraints and values. The assumptions are the
named `ASSUME`s: sizes and bounds are natural numbers, calls and closers are told apart,
worlds, requests, arguments and lowered rules are of their type, a shapes graph has
finitely many triples, each on a line, of terms that their texts tell apart, references are between
shapes, a relationship of a database joins nodes of it, a snapshot declares the ends of its
relationship types (`validate` in `schema.rs` demands it) and finitely many node types, a
focus has finitely many labels and a database finitely many nodes, paths are built as
`LpgPath` in `mapping.rs` is and no deeper than `MaxDepth`, a check has scalar types or list
types but not both (`for_datatype` in `datatypes.rs` makes no other). SHACL paths are those
of `ast.rs`, their lists not empty (the parser refuses shorter ones), each part nested less
deep than the whole; a direction that is annotated is `in` or `out`, as the parser demands;
nodes are no values.

| Module | Theorems |
|---|---|
| `DatabaseWorker_proofs` | `Invariance`, `TypeCorrect`, `CloseWaits`, `JobsAreAnswered`, `FirstComeFirstServed`, `RepliesAreFinal`, `ClosedForGood`, `FinalAnswers`, `HandleIsImplemented`; on `FrontEnds`: `FrontEndAgreement`, `ArgumentsFirst` |
| `ValidateRun_proofs` | `Invariance`, `TypeCorrect`, `VerdictTrue`, `ExitCodeTrue`, `ResultsHeld`, `ForeignNeverRuns` |
| `Executors_proofs` | `Invariance`, `TypeCorrect`, `OwnAnswers`, `TrueErrors`, `DumpsDescribe` |
| `ShapesLoading_proofs` | `Invariance`, `TypeCorrect`, `LoadsOnce`, `Closed`, `NothingElse`, `LoadsImportClosure`, `GivenFirst` |
| `CompileRules_proofs` | `Invariance`, `TypeCorrect`, `OneCompilation`, `ManifestComplete`, `NamesSurvive`, `NothingIgnored` |
| `ClassHierarchy_proofs` | `Invariance`, `TypeCorrect`, `RejectsRightly`, `AcceptsRightly`, `RejectsCycles`, `ExpandsRightly` |
| `Lowering_proofs` | on `Inlining`: `GroupsAreReportedOnce`, `ReportedCyclesAreShortest`, `RecursionNeverCompiled`; on `PathMapping`: `MappedPathIsShaclPath`, `DeclaredPropertiesStay` |
| `SchemaChecks_proofs` | `Invariance`, `GuaranteeIsSound`, `ContradictionIsSound`, `MismatchesReal` |

Each follows the same line: an inductive invariant `IInv`, a lemma that `Init` implies
it, a lemma with one step per action that `Next` preserves it, and the properties as
consequences of it.

**DatabaseWorker.** `CloseWaitsForDatabase` is not inductive: it says nothing of a
closer that is about to return. `ThreadInv` adds that the join handle is gone only if
the worker has ended or some closer is joining, and that a closer past `TakeSender`
has left no sender. `ReceiverInv` adds that a dropped receiver leaves no job, and that
only a panic drops it early. `QueueInv` ties the channel to the history: the queue is
the end of `accepted`, everything before it has a reply but for the job that runs.
`CallInv` says that a call is accepted once. From these follow the order of service,
that replies are final, and that nothing is accepted after a close. `HandleIsImplemented`
is the safety part of the refinement: `IInv` puts every call in the status that `StatusOf`
reads off it, and every step of the worker, the callers and the closers is the step of
`DatabaseHandle` that its name promises or changes nothing there.

**FrontEnds.** `FrontEndsInv` says of each front end on its own what it knows at the place
where it is: the checks behind it found nothing wrong (`FrontInv`), what it converted so far
says what was asked, and a handle that is not open was closed by somebody (`HandlesInv`).
An outcome is therefore `closed`, an error that is among the things wrong with the request
(`Wrong`), or a success with the limit that was asked for and nothing wrong. That the three
agree follows, although their checks come in different orders, because `Wrong` does not
depend on the front end. Both theorems are about the requests that all three can state
(`Statable`): a timeout is a finite number, the other operations' options come with a
shapes graph, and a request by manifest, which names no dialect, labels or formats, has
no unknown name. Section 7 says what happens to the others.

**ValidateRun.** `ResultsInv`: a result has a count exactly if it passed or failed, and
while nobody writes this count is what the database holds. `DetailInv`: the detail
query is about the rule whose count was just read. `ProgressInv`: no result and no
query before the dialect check, a result for every rule in the report. The verdict and
the exit code follow from these for any severity and threshold. `HeldInv` says what the
history variable `held` has of each rule: the number of violations that the database holds
now, and no other while nobody writes. A count and the rows beside it are among these
(`ResultsInv`), which is `ResultsWereHeld` for any number of writes.

**Executors.** `RowsInv`: unless the pool could not be replaced after a timeout, no
connection has rows of an earlier query when a call begins, and the rows in hand are those
of the running query, from a graph seen since the call began. `ErrorInv` says which
errors can still come: only a call with a timeout is reopened, only a backend that the
build has goes beyond its opening. `DumpsDescribe` adds what the parts of a dump collected
so far say of the graphs `seen` since the dump began, part by part of each backend:
`NodesKnown` and `RelsKnown` hold whatever is still to be asked, a graph that is seen later
only takes away from what stayed (`KnownOfMore`), and with nothing left to ask they are
the property (`CompleteNodes`, `CompleteRels`, `CompleteAccepted`). It was first stated for
graphs whose labels all have a property, where it holds by accident: the attempt to prove it showed the
gap, and `NodesAfter` and `RelsAfter` now make the rows that the three queries return for
a label without one.

**ShapesLoading.** `GivenInv`: sources parsed and still to parse are the ones given, told
apart by their paths, and the parsed ones come first. `PassInv`: what a pass has to look
at was imported by an input, and while it has added nothing, what it has looked at is
loaded; with that, a pass that ends without an addition proves the closure.

**CompileRules.** `PhasesPassed`: a phase that is behind the compiler found nothing wrong.
`LoopInv`: the loop has made one entry for each rule behind it, and there is no error
where something is written. `FilesInv`: the manifest in the directory is the one that
`queries.cypher` will belong to. For these whether a rule collides plays no part, so that
`OneCompilation` is about any rules and any edits. The other two theorems need a second
invariant, `ManifestInv`. `NamesInv`: past the naming no two rules share an id or a name.
`EntriesInv`: each entry is about its rule, under the naming of it and from the line its
shape was on. `FinishedInv`: what is written is the manifest of these entries.
`SoundManifest`: an id and a name in the last manifest are those of the rule and its line,
with the hash exactly where the manifest has another rule of that id. That sorting loses
no entry rests on ids being texts (`JoinedIsText`), on the order of texts being total
(`PrecedesTotal`) and on there being one element at each place of a finite order
(`OneAtEachPlace`).

`NothingIgnored` is about the parse of a graph, which every edit leaves a graph
(`RearrangedIsGraph`). The values of a parameter are all that the graph says of it
(`ValuesAreFound`, with the order of lines and texts in `OneAtEachPlace` again). Where no
problem is reported each of them is read and nothing else is (`InputReads`), no value was
left out because one is all that is taken (`AllOrOne`), and each that was read becomes a
constraint (`ConstraintsAreMade`): those of `sh:closed` and `sh:uniqueLang` because a value
that is not off is on, those of `sh:qualifiedValueShape` because its counts are there
(`QualifiedAreCounted`). How a list is read and what a path is plays no part.

**ClassHierarchy.** `StackInv`: the stack is a path of exactly the classes in progress.
`LookedAtInv`: what a call has looked at is done or is the call above it. `RankInv`: a
class that is done is ranked above its subclasses, which are done as well. A class in
progress that is met again is therefore on the stack, and the part of the stack from
there on is a cycle; when nothing is left to search the ranks show that there is none.
`CollectInv`: seen and pending together stay within the closure, and what is seen has
its subclasses among the two.

**Inlining.** The longest argument, in four parts. `Tarjan` is the invariant of the
component search, over the calls with the references they have still to take: numbers
are given in sequence; a numbered shape was followed or has a reference still to take;
a call reaches all that was put on the stack after it began (`ReachUp`) and a shape on
the stack reaches a call that began before it (`ReachDown`); the low number of a call is
reached (`LowReached`) and is no more than that of any shape on the stack that the shapes
the call owns refer to (`LowLeast`). When low and number agree the shapes above cannot
reach below, so that what is taken off is a class of mutual reachability
(`CompleteIsMutual`). `Searched` is the invariant of the breadth-first search: the queue is
in the order of the distances, at most one apart, and all that a shape looked at refers to
is no further than one more; `NoShorterWay` follows a way back to the start and finds
each of its shapes looked at. `ToSearch` says that the groups still to look at, the one
that is searched and the cycles found share nothing and together have every recursive
shape. `Frames` is the invariant of lowering: as long as the flag is clear, what a call
has already called for is finite, which the call itself is when it returns; a call is made
only for a shape that the rule needs. The compilation of a recursive shape is thus
excluded whether or not `recursive_references` finds it, as the overflow of section 7 is
no compilation.

**SchemaChecks.** `RelsConform` and `PropsConform` say that what was written keeps to an
enforced schema, `StatusIsOfSchema` that the status recorded is that of the snapshot.
The safety of the two statuses needs all three: `ColumnOfValue` gives a value of a focus
its column, `DatatypeDecided` the status of that column, `GuaranteedByColumn` and
`ContradictedByColumn` what it means for the value; `ReachedByNode` puts the label of
the node at the far end among the labels `class_status` looks at.

`MismatchesReal` relates two ways of following one path: the walk over labels and the
traversal of the nodes. `WalksCover` says, by induction on the depth, that nodes within the
labels of a walk arrive at nodes within the labels that the walk arrives at, and that no
step is both reported by the walk and found by the traversal (`Sound`); from labels that are
not known the same holds of any nodes, unless a part of the path may stay where it is. Each
kind of path has its step: a relationship joins declared ends (`RelationshipEnds`); the
parts of a sequence are walked from what is known of the part before (`SequenceSound`); and
a repetition, which explores each label once, has followed every label that it reaches
(`RoundsGrow`: there are no more rounds than labels; `RoundsExplore`), so that a node
reached at any hop lies within (`RepeatSound`). There a hop of several nodes is taken apart
into the hops of each (`TraversalsDistribute`), as their labels were explored in different
rounds. `DiagnosticsAreStatic`, the invariant that reports are those of the walk, joins this
to the specification.

**PathMapping.** The invariant itself is short (`MappingInv`: what is resolved is what the
path of the shape is mapped to, the path of the rule is its cut, the graph holds triples of
what it is declared to hold), as the graph may be any graph from the first write on. All the
work is in one lemma about a fixed graph, `EveryPathMapped`: each part of a path, read in
either direction and as the last step or not, is mapped to a path that finds what the part
means there (`Agrees`), or to an error. It needs all four readings at once, because an
inverse changes the direction and a sequence leaves only one of its parts the last, and it
goes by the depth of paths (`ByDepth`). A predicate is mapped to one relationship type or one
key, whichever way its evidence was found (`StepIs`). The steps of a sequence find the chain
of what its items mean, and turned round the chain turned round (`MeansChain`,
`MeansChainTurned`), where it matters that only the last item may be a property: every
term between two steps is a node. For a repetition the sets that a step leads into are the
same for both readings (`MeansTransitive`). `CutFindsLess` says, by depth again, that a
capped path finds no more than the path: a power of a relation lies within its transitive
closure (`Powers`, `PowerGrows`); `UncutStays` that where nothing is reported nothing was
capped. That the recursive functions exist, which the prover does not take for granted, is
shown by building them up by depth (`LowerExists`, `PairsExist`, `CapExists`, `FoundExists`).
`DeclaredPropertiesStay` takes `Step` apart: a relationship type that is named by convention
was not asked for by an annotation, and then a hint or the snapshot decided.

Induction over the naturals is done with the least counterexample (`LeastNat`, from the
well-founded order of the library), so that ways and texts of any length can be argued
about.

Only model-checked: the liveness properties, and of the refinement of `DatabaseHandle` its
fairness (both beyond the prover); `ReorderingChangesNothing`, which is not true of every
graph (section 7: blank shapes of one content); and `ShapeLowering` and `Rendering`, whose
definitions recurse over shapes, paths and expressions with recursive operators. The prover
does not accept those; where recursion goes by depth, as in `SchemaChecks` and
`PathMapping`, the induction can be done over numbers instead.

## 7. Where the code and its documents disagree

`inlining_overflow` shows two bugs with one symptom:

- `crates/s2c-core/src/lower.rs:202`. With `--lenient` recursive references shall be
  recorded as unsupported. The lowering remembers only the shapes on the one cycle that
  `recursive_references` reports for a group. Another shape of the group that is recursive
  without them is inlined inside itself without end: with the `sh:node` references B to B,
  B to C, C to B and C to C the reported cycle is B to B, and C overflows the call stack.
- `lower.rs:781`. A disjoint qualified shape inlines the qualified shapes of its sibling
  properties, which `references_of` in `cycles.rs` does not count as references. A shape
  that needs itself only through a sibling is not found to be recursive, and is inlined
  without end, without `--lenient` too.

The rest was met while modelling and has no run of its own. The models do what the code
does; where a property leaves a case out for it, this says so.

Input and shapes:

- A document is looked up under the path as it is written and a file under its canonical
  path (`load.rs`), so that an import which reaches the path of a document through a
  symbolic link loads the file beside the document. `EachSourceOnce` counts them as two.
- `lat.md/architecture.md:61` says that parsing collects all problems. The members of a
  path list are read up to the first that is malformed (`ast.rs`, `path_list`), and a path
  node with two kinds of path uses the first without a problem.
- `lat.md/architecture.md:66` says that labels of blank nodes never influence the output.
  Blank shapes that differ in annotations alone have one content (`ast.rs:325`) and keep
  the order of the source. `ReorderingChangesNothing` holds because its graphs have none.
- `s2c:collection` is parsed (`ast/annotations.rs`) and used nowhere.

Rules and names:

- `sh:property` of a property shape is about each value of its path. `conforms`
  (`lower.rs:852`) judges it on the focus, so that `knows` with the property `name` asks
  for the name of the one who knows, and `targeted_shape` (`lower.rs:262`) makes no rule of it.
  `lat.md/testing.md:54` says that the compiler does not support such shapes, for which the
  W3C test `property-001` fails (`tests/w3c/status.yaml:87`); it accepts them without a
  diagnostic all the same. `RowsAreViolations` leaves out rules that refer to one; without
  `Flat` TLC finds both a row that is no violation and a violation without a row.
- `lat.md/semantics.md:71` says that rows for nested shapes always include `details`. The
  details of a shape (`lower.rs:899-905`) are its constraints and those of its properties;
  `conforms` goes on to the properties of these, so that a failure there is a row with none.
  `DetailsExplainRows` says that no other failure is.

- `ir.rs:3` says that every test is total. `nested_source` (`lower.rs:858`) refuses paths
  from a property value; `sh:closed` and property pairs (`lower.rs:684-730`) are not
  refused there: such a rule asks for the keys of a string. `ReadsNodesOnly` leaves it out.
- `lat.md/mapping.md` says of strict mode that names neither annotated nor found in the
  schema snapshot are errors. `schema_has_property` (`mapping.rs:378`) looks at the labels
  of the shape's focus for every step, so that `ex:worksFor/ex:name` of a person is
  rejected although the snapshot declares `name` for companies.
- `lat.md/output.md:62` says that steps whose focus labels are unknown are not checked, so
  that no diagnostic is speculative. After an optional or repeated step from an unlabelled
  focus the walk of `schema_check.rs:167` goes on from the labels at the far ends alone,
  although the path may have stayed where it was: a key that only other nodes have is
  reported as missing, and with `--fail-on-schema-mismatch` nothing is compiled.
  `MismatchesAreReal` leaves this out.
- `GuaranteedNeverViolated` leaves out `s2c:datatype` with a list type: a list column of that
  type is guaranteed, while the queries of the same constraint look at the elements.
- `lat.md/output.md:45` calls rule ids structural. Those of blank node shapes contain the
  line of the shape, and `NamesSurviveEdits` excepts them.
- `README.md:272` and `lat.md/output.md:29` name a column `ruleId`; what stands in it is the
  name of the rule. The entries of `details` carry ids without the suffix that tells
  colliding ids apart.
- `cost_class` (`compile.rs:668`) does not look at `sh:closed`.

Queries:

- `MATCH` uses a relationship once. `knows/^knows`, or a self-loop on a longer path, loses
  values that SHACL's paths reach. `TrailsSuffice` leaves such graphs out.
- LadybugDB counts paths in a nested count, which `lat.md/dialects.md:127` documents
  (`LadybugCounts`). Over relationships to a property that no reached table declares such a
  count is written as `true` (`render/ladybug.rs:740`) and never violated, although there
  are no values; a property of the focus alone is decided right.
- That every test is total (`lat.md/dialects.md:15`) fails on LadybugDB for
  a node whose key is unset: `list_contains([..], x.key)` (`render/ladybug.rs:754`) is null.
- `labels_after` (`render/ladybug.rs:1213`), from unknown tables through a repetition that
  may be empty, goes on from the tables at the far ends only. A property that only the
  table of a node that stays declares is not read, and a rule about it is lost.
  `StaysWithinFarEnds` leaves this out.
- A node key that is a list never equals an IRI of `sh:in`; an empty list is a key of
  `sh:closed` and a subject of a property although it has no values.

Databases and front ends:

- `worker.rs:121` documents that a reply runs on the worker thread. When the handle is
  closed it runs on the caller's (`worker.rs:177`).
- `validate.rs:111` documents `complete` as "every query completed". A detail query that
  fails only sets a reason (`validate.rs:211`), and the report is complete all the same.
  What `complete` does guarantee is `VerdictIsTrue`.
- Any LadybugDB error whose message has the word timeout is a timeout
  (`s2c-runner/src/ladybug.rs:165`); `ErrorsAreTrue` excepts it.
- `lat.md/architecture.md:130` says that `compile --schema` accepts a dump unchanged. A dump
  is several queries; when another client writes between them it may be refused.
- A row that cannot be read ends a Neo4j call in the middle of its stream
  (`s2c-runner/src/neo4j.rs:74-77`) with the pool kept, while the comment at line 95 of an
  abandoned transaction says that it "may leave its connection mid-stream; start over". What
  the next user of that connection meets is up to the client library, which is external:
  the model leaves the rows there or not, and `AnswersAreOwn` sets aside what follows.
- `README.md:164` and `openspec/specs/language-bindings/spec.md:108` want an error for a
  timeout that is not positive. A `timeoutMs` that is not finite reaches the native part of
  the npm package as null and means no timeout; the theorems about `FrontEnds` leave it out
  (`Statable`). `positive_timeout` (`session.rs:153`) panics for finite values beyond what a
  `Duration` holds.
- The command line refuses an unknown `--neo4j-labels` also with `--manifest`, where the
  bindings do not look at it. Node's `compile` without shapes fails with a compile error and
  not with an argument error. `MCFrontEnds` makes no such request.

## 8. What is not modelled, and what a model leaves out

- Reports (`report.rs`) are text without state. Remote imports are one HTTP request behind
  a switch; `ShapesLoading` knows whether they are permitted. Turtle, JSON and TOML parsers
  and XSD regular expressions are functions on text. The test kit and the spikes are not
  part of the program.
- The renderers' models leave out literals, quoting, regular expressions, lengths, temporal
  ordering keys, messages, verbose columns, `LIMIT`, the summary query (a count of the same
  rows) and the names of variables; one test stands for bounds, lengths, patterns and
  datatypes of a value. What Cypher means is external: `CypherQueries` models it from the
  way the renderers use it.
- `Executors` takes the client libraries and servers as external. That nothing a query
  writes persists rests on them alone (the rollback of Neo4j, `GRAPH.RO_QUERY`, the read-only
  database), and is assumed: no executor writes in the model. `ValidateRun` takes a
  backend as something that answers from the database or fails as `ExecError` does.
- `CompileRules` takes lowered rules as a constant of the run: their meaning is the matter
  of `Rendering`, recursion of `Inlining`, statuses of `SchemaChecks`. Texts are token
  sequences, and hashes a constant function that may collide.
- `ShapesAst` leaves out the wording of problems, and counts several problems of one value
  as one.
- `FrontEnds` leaves out options without a check.
- `PathMapping` leaves out `class_label`, and takes local names and their spelling as
  relationship types (`local_name`, `upper_snake`) as constants.
- `SchemaChecks` has one target class per shape, and one constraint at a time; the table
  from XSD datatypes to value types is a constant.
- `ShapesLoading` leaves out triples, prefixes and blank node names, and takes IRIs as
  numbers in the order of their spelling.
- `ShapeLowering` leaves out schema statuses, caps on repeated paths and rejected features.
- `Inlining` takes every shape as targeted and every value as a node, and the order of
  constraints as fixed; none of them changes which calls are nested in which.
- Durations, messages, locations and the wording of diagnostics are left out everywhere.

## 9. Plan

Done, in this order: `DatabaseHandle`, `DatabaseWorker`; `ValidateRun`; `ShapesLoading`;
`ClassHierarchy`; `RecursiveShapes` and `Inlining`; `RuleExpressions` and `ShapeLowering`;
`PathMapping`; `SchemaChecks`; `Executors`; `ShapesAst` and `CompileRules`; `FrontEnds`;
the three dialects and `Rendering`; and the proofs of section 6.

To come, the most important first:

1. Proofs: `ShapeLowering`, with expressions evaluated by depth as paths are followed in
   `PathMapping`.
2. `Executors` composed with `ValidateRun`: a validation run whose queries time out, break
   and are followed by others on one connection.
3. The summary query and `LIMIT` in `Rendering`; lengths and patterns.
4. The table from XSD datatypes to value types, and `class_label`.
